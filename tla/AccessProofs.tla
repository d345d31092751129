---------------------------- MODULE AccessProofs ----------------------------
(***************************************************************************)
(* Proofs about Access, for every set of permission lists.                 *)
(***************************************************************************)
EXTENDS Access, SequenceTheorems, TLAPS

-----------------------------------------------------------------------------
(* The two grammars                                                        *)

\* The two implementations of has_scope agree on every pair of the grammar, for
\* every permission list. (permissions.rs has_scope, rls.sql has_scope)
THEOREM HasScopeAgrees ==
    ASSUME NEW P \in SUBSET Scopes, NEW r \in Resources, NEW a \in Actions
    PROVE  has_scope(P, r, a) = sql_has_scope(P, r, a)
  <1>1. CASE a = "read"
    BY <1>1 DEF has_scope, sql_has_scope, Mutating
  <1>2. CASE a # "read"
    BY <1>2 DEF has_scope, sql_has_scope, Mutating
  <1> QED BY <1>1, <1>2

\* A scope that lets one change a resource lets one read it.
LEMMA MutatingReads ==
    ASSUME NEW P \in SUBSET Scopes, NEW r \in Resources, NEW a \in Mutating,
           has_scope(P, r, a)
    PROVE  has_scope(P, r, "read")
  BY Zenon DEF has_scope, Mutating

\* A policy of one, two or three scopes, in the words of the middleware.
LEMMA PolicyOfOne ==
    ASSUME NEW P \in SUBSET Scopes, NEW t, NEW table, NEW c, table # "idempotency_keys",
           NEW r \in Resources, NEW a \in Actions, PolicyScopes(table, c) = {<<r, a>>}
    PROVE  Policy(table, c, P, t) <=>
              (NeedsCritical(table, c) => t = "critical") /\ has_scope(P, r, a)
  <1>1. (\E s \in {<<r, a>>} : sql_has_scope(P, s[1], s[2])) <=> sql_has_scope(P, r, a)
    OBVIOUS
  <1>2. Policy(table, c, P, t) <=>
            /\ NeedsCritical(table, c) => t = "critical"
            /\ \E s \in PolicyScopes(table, c) : sql_has_scope(P, s[1], s[2])
    BY DEF Policy
  <1>3. (\E s \in PolicyScopes(table, c) : sql_has_scope(P, s[1], s[2]))
            <=> sql_has_scope(P, r, a)
    BY <1>1, Zenon
  <1> QED BY <1>2, <1>3, HasScopeAgrees

LEMMA PolicyOfTwo ==
    ASSUME NEW P \in SUBSET Scopes, NEW t, NEW table, NEW c, table # "idempotency_keys",
           NEW r \in Resources, NEW a \in Actions, NEW q \in Resources, NEW b \in Actions,
           PolicyScopes(table, c) = {<<r, a>>, <<q, b>>}
    PROVE  Policy(table, c, P, t) <=>
              /\ NeedsCritical(table, c) => t = "critical"
              /\ has_scope(P, r, a) \/ has_scope(P, q, b)
  <1>1. (\E s \in {<<r, a>>, <<q, b>>} : sql_has_scope(P, s[1], s[2]))
            <=> sql_has_scope(P, r, a) \/ sql_has_scope(P, q, b)
    OBVIOUS
  <1>2. Policy(table, c, P, t) <=>
            /\ NeedsCritical(table, c) => t = "critical"
            /\ \E s \in PolicyScopes(table, c) : sql_has_scope(P, s[1], s[2])
    BY DEF Policy
  <1>3. (\E s \in PolicyScopes(table, c) : sql_has_scope(P, s[1], s[2]))
            <=> sql_has_scope(P, r, a) \/ sql_has_scope(P, q, b)
    BY <1>1, Zenon
  <1>4. /\ sql_has_scope(P, r, a) <=> has_scope(P, r, a)
        /\ sql_has_scope(P, q, b) <=> has_scope(P, q, b)
    BY HasScopeAgrees
  <1> QED BY <1>2, <1>3, <1>4

\* What each policy the handlers meet asks for, in the words of the middleware.
LEMMA PolicyNeeds ==
    ASSUME NEW P \in SUBSET Scopes, NEW t
    PROVE  /\ Policy("customers", "select", P, t) <=> has_scope(P, "customer", "read")
           /\ Policy("customers", "insert", P, t) <=> has_scope(P, "customer", "create")
           /\ Policy("invoices", "select", P, t) <=> has_scope(P, "invoice", "read")
           /\ Policy("invoices", "insert", P, t) <=> has_scope(P, "invoice", "create")
           /\ Policy("invoices", "update", P, t) <=>
                 has_scope(P, "invoice", "update") \/ has_scope(P, "payment", "create")
           /\ Policy("invoice_line_items", "select", P, t) <=> has_scope(P, "invoice", "read")
           /\ Policy("invoice_line_items", "insert", P, t) <=> has_scope(P, "invoice", "create")
           /\ Policy("payment_attempts", "select", P, t) <=>
                 has_scope(P, "invoice", "read") \/ has_scope(P, "payment", "read")
           /\ Policy("payment_attempts", "insert", P, t) <=> has_scope(P, "payment", "create")
           /\ Policy("payment_attempts", "update", P, t) <=>
                 has_scope(P, "payment", "create") \/ has_scope(P, "payment", "update")
           /\ \A c \in Commands : Policy("idempotency_keys", c, P, t)
           /\ Policy("webhook_deliveries", "select", P, t) <=> has_scope(P, "webhook", "read")
           /\ Policy("webhook_deliveries", "insert", P, t) <=>
                 \/ has_scope(P, "invoice", "create")
                 \/ has_scope(P, "invoice", "update")
                 \/ has_scope(P, "payment", "create")
           /\ Policy("webhook_endpoints", "select", P, t) <=> has_scope(P, "webhook", "read")
           /\ Policy("webhook_endpoints", "insert", P, t) <=>
                 t = "critical" /\ has_scope(P, "webhook", "create")
           /\ Policy("webhook_endpoints", "update", P, t) <=>
                 t = "critical" /\ has_scope(P, "webhook", "delete")
           /\ Policy("api_keys", "select", P, t) <=> has_scope(P, "api_key", "read")
           /\ Policy("api_keys", "insert", P, t) <=>
                 t = "critical" /\ has_scope(P, "api_key", "create")
           /\ Policy("api_keys", "update", P, t) <=>
                 t = "critical" /\ has_scope(P, "api_key", "delete")
  <1>1. Resources = {"customer", "invoice", "payment", "webhook", "api_key"}
        /\ Actions = {"read", "create", "update", "delete"}
    BY DEF Resources, Actions, Mutating
  <1>2. ASSUME NEW table, NEW c
        PROVE  NeedsCritical(table, c) <=>
                  table \in {"webhook_endpoints", "api_keys"} /\ c # "select"
    BY DEF NeedsCritical
  <1>3. Policy("customers", "select", P, t) <=>
            has_scope(P, "customer", "read")
    <2>1. PolicyScopes("customers", "select") = {<<"customer", "read">>}
      BY DEF PolicyScopes, ResourceOf, ActionOf
    <2>2. ~NeedsCritical("customers", "select")
      BY DEF NeedsCritical
    <2> QED BY <1>1, <2>1, <2>2, PolicyOfOne
  <1>4. Policy("customers", "insert", P, t) <=>
            has_scope(P, "customer", "create")
    <2>1. PolicyScopes("customers", "insert") = {<<"customer", "create">>}
      BY DEF PolicyScopes, ResourceOf, ActionOf
    <2>2. ~NeedsCritical("customers", "insert")
      BY DEF NeedsCritical
    <2> QED BY <1>1, <2>1, <2>2, PolicyOfOne
  <1>5. Policy("invoices", "select", P, t) <=>
            has_scope(P, "invoice", "read")
    <2>1. PolicyScopes("invoices", "select") = {<<"invoice", "read">>}
      BY DEF PolicyScopes, ResourceOf, ActionOf
    <2>2. ~NeedsCritical("invoices", "select")
      BY DEF NeedsCritical
    <2> QED BY <1>1, <2>1, <2>2, PolicyOfOne
  <1>6. Policy("invoices", "insert", P, t) <=>
            has_scope(P, "invoice", "create")
    <2>1. PolicyScopes("invoices", "insert") = {<<"invoice", "create">>}
      BY DEF PolicyScopes, ResourceOf, ActionOf
    <2>2. ~NeedsCritical("invoices", "insert")
      BY DEF NeedsCritical
    <2> QED BY <1>1, <2>1, <2>2, PolicyOfOne
  <1>7. Policy("invoices", "update", P, t) <=>
            has_scope(P, "invoice", "update") \/ has_scope(P, "payment", "create")
    <2>1. PolicyScopes("invoices", "update") = {<<"invoice", "update">>, <<"payment", "create">>}
      BY DEF PolicyScopes, ResourceOf, ActionOf
    <2>2. ~NeedsCritical("invoices", "update")
      BY DEF NeedsCritical
    <2>3. /\ "invoice" \in Resources /\ "update" \in Actions
          /\ "payment" \in Resources /\ "create" \in Actions
      BY <1>1
    <2> QED BY <2>1, <2>2, <2>3, PolicyOfTwo, SMTT(30)
  <1>8. Policy("invoice_line_items", "select", P, t) <=>
            has_scope(P, "invoice", "read")
    <2>1. PolicyScopes("invoice_line_items", "select") = {<<"invoice", "read">>}
      BY DEF PolicyScopes, ResourceOf, ActionOf
    <2>2. ~NeedsCritical("invoice_line_items", "select")
      BY DEF NeedsCritical
    <2> QED BY <1>1, <2>1, <2>2, PolicyOfOne
  <1>9. Policy("invoice_line_items", "insert", P, t) <=>
            has_scope(P, "invoice", "create")
    <2>1. PolicyScopes("invoice_line_items", "insert") = {<<"invoice", "create">>}
      BY DEF PolicyScopes, ResourceOf, ActionOf
    <2>2. ~NeedsCritical("invoice_line_items", "insert")
      BY DEF NeedsCritical
    <2> QED BY <1>1, <2>1, <2>2, PolicyOfOne
  <1>10. Policy("payment_attempts", "select", P, t) <=>
            has_scope(P, "invoice", "read") \/ has_scope(P, "payment", "read")
    <2>1. PolicyScopes("payment_attempts", "select") = {<<"invoice", "read">>, <<"payment", "read">>}
      BY DEF PolicyScopes, ResourceOf, ActionOf
    <2>2. ~NeedsCritical("payment_attempts", "select")
      BY DEF NeedsCritical
    <2>3. /\ "invoice" \in Resources /\ "read" \in Actions
          /\ "payment" \in Resources /\ "read" \in Actions
      BY <1>1
    <2> QED BY <2>1, <2>2, <2>3, PolicyOfTwo, Zenon
  <1>11. Policy("payment_attempts", "insert", P, t) <=>
            has_scope(P, "payment", "create")
    <2>1. PolicyScopes("payment_attempts", "insert") = {<<"payment", "create">>}
      BY DEF PolicyScopes, ResourceOf, ActionOf
    <2>2. ~NeedsCritical("payment_attempts", "insert")
      BY DEF NeedsCritical
    <2> QED BY <1>1, <2>1, <2>2, PolicyOfOne
  <1>12. Policy("payment_attempts", "update", P, t) <=>
            has_scope(P, "payment", "create") \/ has_scope(P, "payment", "update")
    <2>1. PolicyScopes("payment_attempts", "update") = {<<"payment", "create">>, <<"payment", "update">>}
      BY DEF PolicyScopes, ResourceOf, ActionOf
    <2>2. ~NeedsCritical("payment_attempts", "update")
      BY DEF NeedsCritical
    <2>3. /\ "payment" \in Resources /\ "create" \in Actions
          /\ "payment" \in Resources /\ "update" \in Actions
      BY <1>1
    <2> QED BY <2>1, <2>2, <2>3, PolicyOfTwo, Zenon
  <1>13. Policy("webhook_deliveries", "select", P, t) <=>
            has_scope(P, "webhook", "read")
    <2>1. PolicyScopes("webhook_deliveries", "select") = {<<"webhook", "read">>}
      BY DEF PolicyScopes, ResourceOf, ActionOf
    <2>2. ~NeedsCritical("webhook_deliveries", "select")
      BY DEF NeedsCritical
    <2> QED BY <1>1, <2>1, <2>2, PolicyOfOne
  <1>14. Policy("webhook_endpoints", "select", P, t) <=>
            has_scope(P, "webhook", "read")
    <2>1. PolicyScopes("webhook_endpoints", "select") = {<<"webhook", "read">>}
      BY DEF PolicyScopes, ResourceOf, ActionOf
    <2>2. ~NeedsCritical("webhook_endpoints", "select")
      BY DEF NeedsCritical
    <2> QED BY <1>1, <2>1, <2>2, PolicyOfOne
  <1>15. Policy("webhook_endpoints", "insert", P, t) <=>
            t = "critical" /\ has_scope(P, "webhook", "create")
    <2>1. PolicyScopes("webhook_endpoints", "insert") = {<<"webhook", "create">>}
      BY DEF PolicyScopes, ResourceOf, ActionOf
    <2>2. NeedsCritical("webhook_endpoints", "insert")
      BY DEF NeedsCritical
    <2> QED BY <1>1, <2>1, <2>2, PolicyOfOne
  <1>16. Policy("webhook_endpoints", "update", P, t) <=>
            t = "critical" /\ has_scope(P, "webhook", "delete")
    <2>1. PolicyScopes("webhook_endpoints", "update") = {<<"webhook", "delete">>}
      BY DEF PolicyScopes, ResourceOf, ActionOf
    <2>2. NeedsCritical("webhook_endpoints", "update")
      BY DEF NeedsCritical
    <2> QED BY <1>1, <2>1, <2>2, PolicyOfOne
  <1>17. Policy("api_keys", "select", P, t) <=>
            has_scope(P, "api_key", "read")
    <2>1. PolicyScopes("api_keys", "select") = {<<"api_key", "read">>}
      BY DEF PolicyScopes, ResourceOf, ActionOf
    <2>2. ~NeedsCritical("api_keys", "select")
      BY DEF NeedsCritical
    <2> QED BY <1>1, <2>1, <2>2, PolicyOfOne
  <1>18. Policy("api_keys", "insert", P, t) <=>
            t = "critical" /\ has_scope(P, "api_key", "create")
    <2>1. PolicyScopes("api_keys", "insert") = {<<"api_key", "create">>}
      BY DEF PolicyScopes, ResourceOf, ActionOf
    <2>2. NeedsCritical("api_keys", "insert")
      BY DEF NeedsCritical
    <2> QED BY <1>1, <2>1, <2>2, PolicyOfOne
  <1>19. Policy("api_keys", "update", P, t) <=>
            t = "critical" /\ has_scope(P, "api_key", "delete")
    <2>1. PolicyScopes("api_keys", "update") = {<<"api_key", "delete">>}
      BY DEF PolicyScopes, ResourceOf, ActionOf
    <2>2. NeedsCritical("api_keys", "update")
      BY DEF NeedsCritical
    <2> QED BY <1>1, <2>1, <2>2, PolicyOfOne
  <1>20. \A c \in Commands : Policy("idempotency_keys", c, P, t)
    BY DEF Policy
  <1>21. Policy("webhook_deliveries", "insert", P, t) <=>
             \/ has_scope(P, "invoice", "create")
             \/ has_scope(P, "invoice", "update")
             \/ has_scope(P, "payment", "create")
    <2> DEFINE S == {<<"invoice", "create">>, <<"invoice", "update">>, <<"payment", "create">>}
    <2>1. PolicyScopes("webhook_deliveries", "insert") = S
      BY DEF PolicyScopes
    <2>2. (\E s \in S : sql_has_scope(P, s[1], s[2])) <=>
             \/ sql_has_scope(P, "invoice", "create")
             \/ sql_has_scope(P, "invoice", "update")
             \/ sql_has_scope(P, "payment", "create")
      OBVIOUS
    <2>3. Policy("webhook_deliveries", "insert", P, t) <=>
             \E s \in PolicyScopes("webhook_deliveries", "insert") : sql_has_scope(P, s[1], s[2])
      BY <1>2 DEF Policy
    <2>4. Policy("webhook_deliveries", "insert", P, t) <=>
             \E s \in S : sql_has_scope(P, s[1], s[2])
      BY <2>1, <2>3
    <2>5. /\ sql_has_scope(P, "invoice", "create") <=> has_scope(P, "invoice", "create")
          /\ sql_has_scope(P, "invoice", "update") <=> has_scope(P, "invoice", "update")
          /\ sql_has_scope(P, "payment", "create") <=> has_scope(P, "payment", "create")
      BY <1>1, HasScopeAgrees
    <2> QED BY <2>2, <2>4, <2>5
  <1> QED BY <1>3, <1>4, <1>5, <1>6, <1>7, <1>8, <1>9, <1>10, <1>11, <1>12, <1>13, <1>14, <1>15, <1>16, <1>17, <1>18, <1>19, <1>20, <1>21

-----------------------------------------------------------------------------
(* Sequences of statements                                                 *)

LEMMA RangeOfConcat ==
    ASSUME NEW S, NEW p \in Seq(S), NEW q \in Seq(S)
    PROVE  p \o q \in Seq(S) /\ Range(p \o q) = Range(p) \cup Range(q)
  <1>1. /\ p \o q \in Seq(S)
        /\ DOMAIN (p \o q) = 1 .. (Len(p) + Len(q))
        /\ DOMAIN p = 1 .. Len(p) /\ DOMAIN q = 1 .. Len(q)
        /\ Len(p) \in Nat /\ Len(q) \in Nat
    BY LenProperties, ConcatProperties
  <1>2. \A k \in 1 .. Len(p) + Len(q) :
            (p \o q)[k] = IF k <= Len(p) THEN p[k] ELSE q[k - Len(p)]
    BY ConcatProperties
  <1>3. ASSUME NEW k \in 1 .. Len(p) + Len(q)
        PROVE  (p \o q)[k] \in Range(p) \cup Range(q)
    <2>1. CASE k <= Len(p)
      BY <1>1, <1>2, <2>1 DEF Range
    <2>2. CASE ~(k <= Len(p))
      <3>1. k - Len(p) \in 1 .. Len(q)
        BY <1>1, <2>2
      <3> QED BY <1>1, <1>2, <2>2, <3>1 DEF Range
    <2> QED BY <2>1, <2>2
  <1>4. ASSUME NEW k \in 1 .. Len(p)
        PROVE  p[k] \in Range(p \o q)
    <2>1. k \in 1 .. Len(p) + Len(q) /\ k <= Len(p)
      BY <1>1
    <2> QED BY <1>1, <1>2, <2>1 DEF Range
  <1>5. ASSUME NEW k \in 1 .. Len(q)
        PROVE  q[k] \in Range(p \o q)
    <2>1. /\ k + Len(p) \in 1 .. Len(p) + Len(q)
          /\ ~(k + Len(p) <= Len(p))
          /\ (k + Len(p)) - Len(p) = k
      BY <1>1
    <2>2. (p \o q)[k + Len(p)] = q[k]
      BY <1>2, <2>1
    <2> QED BY <1>1, <2>1, <2>2 DEF Range
  <1> QED BY <1>1, <1>3, <1>4, <1>5 DEF Range

\* What a sequence holds is its head and what its tail holds.
LEMMA RangeOfTail ==
    ASSUME NEW S, NEW q \in Seq(S), q # <<>>
    PROVE  /\ Head(q) \in S /\ Tail(q) \in Seq(S)
           /\ Range(q) = {Head(q)} \cup Range(Tail(q))
  <1>1. /\ Head(q) \in S /\ Tail(q) \in Seq(S)
        /\ Len(Tail(q)) = Len(q) - 1
        /\ \A k \in 1 .. Len(Tail(q)) : Tail(q)[k] = q[k + 1]
    BY HeadTailProperties
  <1>2. /\ Len(q) \in Nat \ {0} /\ DOMAIN q = 1 .. Len(q)
        /\ DOMAIN Tail(q) = 1 .. Len(Tail(q))
    BY <1>1, LenProperties, EmptySeq
  <1>3. Head(q) = q[1]
    OBVIOUS
  <1>4. ASSUME NEW k \in 1 .. Len(q)
        PROVE  q[k] \in {Head(q)} \cup Range(Tail(q))
    <2>1. CASE k = 1
      BY <1>3, <2>1
    <2>2. CASE k # 1
      <3>1. k - 1 \in 1 .. Len(Tail(q)) /\ (k - 1) + 1 = k
        BY <1>1, <1>2, <2>2
      <3>2. Tail(q)[k - 1] = q[k]
        BY <1>1, <3>1
      <3> QED BY <1>2, <3>1, <3>2 DEF Range
    <2> QED BY <2>1, <2>2
  <1>5. ASSUME NEW k \in 1 .. Len(Tail(q))
        PROVE  Tail(q)[k] \in Range(q)
    <2>1. k + 1 \in 1 .. Len(q)
      BY <1>1, <1>2
    <2> QED BY <1>1, <1>2, <2>1 DEF Range
  <1>6. q[1] \in Range(q)
    BY <1>2 DEF Range
  <1> QED BY <1>1, <1>2, <1>3, <1>4, <1>5, <1>6 DEF Range

LEMMA NoStatement == ASSUME NEW S PROVE <<>> \in Seq(S) /\ Range(<<>>) = {}
  BY DEF Range

LEMMA OneStatement ==
    ASSUME NEW S, NEW a \in S
    PROVE  <<a>> \in Seq(S) /\ Range(<<a>>) = {a}
  BY DEF Range

LEMMA TwoStatements ==
    ASSUME NEW S, NEW a \in S, NEW b \in S
    PROVE  <<a, b>> \in Seq(S) /\ Range(<<a, b>>) = {a, b}
  BY DEF Range

LEMMA ThreeStatements ==
    ASSUME NEW S, NEW a \in S, NEW b \in S, NEW c \in S
    PROVE  <<a, b, c>> \in Seq(S) /\ Range(<<a, b, c>>) = {a, b, c}
  BY DEF Range

LEMMA FourStatements ==
    ASSUME NEW S, NEW a \in S, NEW b \in S, NEW c \in S, NEW d \in S
    PROVE  <<a, b, c, d>> \in Seq(S) /\ Range(<<a, b, c, d>>) = {a, b, c, d}
  BY DEF Range

-----------------------------------------------------------------------------
(* The statements of the handlers                                          *)

LEMMA StatementType ==
    ASSUME NEW table \in Tables,
           NEW refused \in {"404", "409", "500", "filtered", "unapplied"}
    PROVE  /\ Select(table, refused) \in Statement
           /\ Insert(table) \in Statement
           /\ InsertReturning(table) \in Statement
           /\ Update(table, refused) \in Statement
  BY DEF Statement, Select, Insert, InsertReturning, Update, Commands

\* Every way through settle() runs statements out of these. (settle() of
\* payments.rs)
LEMMA SettleStatements ==
    ASSUME NEW announce \in Seq(Statement), NEW sequence \in settle(announce)
    PROVE  /\ sequence \in Seq(Statement)
           /\ Range(sequence) \subseteq
                 {Update("payment_attempts", "unapplied"), Update("invoices", "unapplied"),
                  Select("payment_attempts", "404"), Select("invoices", "404")}
                    \cup Range(announce)
  <1> DEFINE take == <<Update("payment_attempts", "unapplied")>>
             apply == <<Update("invoices", "unapplied")>>
             reload_attempt == <<Select("payment_attempts", "404")>>
             reload_invoice == <<Select("invoices", "404")>>
             all == {Update("payment_attempts", "unapplied"), Update("invoices", "unapplied"),
                     Select("payment_attempts", "404"), Select("invoices", "404")}
                       \cup Range(announce)
             Fine(q) == q \in Seq(Statement) /\ Range(q) \subseteq all
  <1>1. Fine(take) /\ Fine(apply) /\ Fine(reload_attempt) /\ Fine(reload_invoice)
    <2>1. "payment_attempts" \in Tables /\ "invoices" \in Tables
      BY DEF Tables
    <2>2. /\ Update("payment_attempts", "unapplied") \in Statement
          /\ Update("invoices", "unapplied") \in Statement
          /\ Select("payment_attempts", "404") \in Statement
          /\ Select("invoices", "404") \in Statement
      BY <2>1, StatementType
    <2> QED BY <2>2, OneStatement
  <1>2. Fine(announce)
    OBVIOUS
  <1>3. ASSUME NEW p, NEW q, Fine(p), Fine(q)
        PROVE  Fine(p \o q)
    BY <1>3, RangeOfConcat
  <1>4. sequence \in {take \o apply \o announce \o reload_attempt,
                      take \o apply \o reload_invoice \o announce \o reload_attempt,
                      take \o reload_invoice \o reload_attempt,
                      take \o reload_invoice \o announce,
                      reload_attempt \o reload_invoice}
    BY DEF settle
  <1> HIDE DEF take, apply, reload_attempt, reload_invoice, Fine
  <1>5. Fine(sequence)
    <2>1. Fine(take \o apply) /\ Fine(take \o reload_invoice)
          /\ Fine(reload_attempt \o reload_invoice)
      BY <1>1, <1>3
    <2>2. Fine(take \o apply \o announce) /\ Fine(take \o apply \o reload_invoice)
      BY <1>1, <1>2, <1>3, <2>1
    <2>3. Fine(take \o apply \o announce \o reload_attempt)
          /\ Fine(take \o apply \o reload_invoice \o announce)
      BY <1>1, <1>2, <1>3, <2>2
    <2>4. Fine(take \o apply \o reload_invoice \o announce \o reload_attempt)
      BY <1>1, <1>3, <2>3
    <2>5. Fine(take \o reload_invoice \o reload_attempt)
          /\ Fine(take \o reload_invoice \o announce)
      BY <1>1, <1>2, <1>3, <2>1
    <2> QED BY <1>4, <2>1, <2>3, <2>4, <2>5
  <1> QED BY <1>5 DEF Fine

-----------------------------------------------------------------------------
(* What the middleware admits, and what the policies show                  *)

\* The middleware's decision, route by route.
LEMMA Admitted ==
    ASSUME NEW P, NEW t
    PROVE  /\ authorize("POST /api_keys", P, t) <=>
                 t = "critical" /\ has_scope(P, "api_key", "create")
           /\ authorize("DELETE /api_keys/{id}", P, t) <=>
                 t = "critical" /\ has_scope(P, "api_key", "delete")
           /\ authorize("GET /api_keys", P, t) <=>
                 has_scope(P, "api_key", "read")
           /\ authorize("POST /webhook_endpoints", P, t) <=>
                 t = "critical" /\ has_scope(P, "webhook", "create")
           /\ authorize("DELETE /webhook_endpoints/{id}", P, t) <=>
                 t = "critical" /\ has_scope(P, "webhook", "delete")
           /\ authorize("GET /webhook_endpoints", P, t) <=>
                 has_scope(P, "webhook", "read")
           /\ authorize("GET /webhook_deliveries", P, t) <=>
                 has_scope(P, "webhook", "read")
           /\ authorize("POST /customers", P, t) <=>
                 has_scope(P, "customer", "create")
           /\ authorize("GET /customers", P, t) <=>
                 has_scope(P, "customer", "read")
           /\ authorize("GET /customers/{id}", P, t) <=>
                 has_scope(P, "customer", "read")
           /\ authorize("POST /invoices", P, t) <=>
                 has_scope(P, "invoice", "create")
           /\ authorize("GET /invoices", P, t) <=>
                 has_scope(P, "invoice", "read")
           /\ authorize("GET /invoices/{id}", P, t) <=>
                 has_scope(P, "invoice", "read")
           /\ authorize("POST /invoices/{id}/send", P, t) <=>
                 has_scope(P, "invoice", "update")
           /\ authorize("POST /invoices/{id}/void", P, t) <=>
                 has_scope(P, "invoice", "update")
           /\ authorize("POST /invoices/{id}/pay", P, t) <=>
                 has_scope(P, "payment", "create")
  <1>1. authorize("POST /api_keys", P, t) <=> t = "critical" /\ has_scope(P, "api_key", "create")
    <2>1. /\ ROUTE_SCOPES["POST /api_keys"].critical = TRUE
          /\ ROUTE_SCOPES["POST /api_keys"].api_key_only = FALSE
          /\ ROUTE_SCOPES["POST /api_keys"].resource = "api_key"
          /\ ROUTE_SCOPES["POST /api_keys"].action = "create"
      BY DEF ROUTE_SCOPES, Route
    <2> QED BY <2>1, Zenon DEF authorize
  <1>2. authorize("DELETE /api_keys/{id}", P, t) <=> t = "critical" /\ has_scope(P, "api_key", "delete")
    <2>1. /\ ROUTE_SCOPES["DELETE /api_keys/{id}"].critical = TRUE
          /\ ROUTE_SCOPES["DELETE /api_keys/{id}"].api_key_only = FALSE
          /\ ROUTE_SCOPES["DELETE /api_keys/{id}"].resource = "api_key"
          /\ ROUTE_SCOPES["DELETE /api_keys/{id}"].action = "delete"
      BY DEF ROUTE_SCOPES, Route
    <2> QED BY <2>1, Zenon DEF authorize
  <1>3. authorize("GET /api_keys", P, t) <=> has_scope(P, "api_key", "read")
    <2>1. /\ ROUTE_SCOPES["GET /api_keys"].critical = FALSE
          /\ ROUTE_SCOPES["GET /api_keys"].api_key_only = FALSE
          /\ ROUTE_SCOPES["GET /api_keys"].resource = "api_key"
          /\ ROUTE_SCOPES["GET /api_keys"].action = "read"
      BY DEF ROUTE_SCOPES, Route
    <2> QED BY <2>1, Zenon DEF authorize
  <1>4. authorize("POST /webhook_endpoints", P, t) <=> t = "critical" /\ has_scope(P, "webhook", "create")
    <2>1. /\ ROUTE_SCOPES["POST /webhook_endpoints"].critical = TRUE
          /\ ROUTE_SCOPES["POST /webhook_endpoints"].api_key_only = FALSE
          /\ ROUTE_SCOPES["POST /webhook_endpoints"].resource = "webhook"
          /\ ROUTE_SCOPES["POST /webhook_endpoints"].action = "create"
      BY DEF ROUTE_SCOPES, Route
    <2> QED BY <2>1, Zenon DEF authorize
  <1>5. authorize("DELETE /webhook_endpoints/{id}", P, t) <=> t = "critical" /\ has_scope(P, "webhook", "delete")
    <2>1. /\ ROUTE_SCOPES["DELETE /webhook_endpoints/{id}"].critical = TRUE
          /\ ROUTE_SCOPES["DELETE /webhook_endpoints/{id}"].api_key_only = FALSE
          /\ ROUTE_SCOPES["DELETE /webhook_endpoints/{id}"].resource = "webhook"
          /\ ROUTE_SCOPES["DELETE /webhook_endpoints/{id}"].action = "delete"
      BY DEF ROUTE_SCOPES, Route
    <2> QED BY <2>1, Zenon DEF authorize
  <1>6. authorize("GET /webhook_endpoints", P, t) <=> has_scope(P, "webhook", "read")
    <2>1. /\ ROUTE_SCOPES["GET /webhook_endpoints"].critical = FALSE
          /\ ROUTE_SCOPES["GET /webhook_endpoints"].api_key_only = FALSE
          /\ ROUTE_SCOPES["GET /webhook_endpoints"].resource = "webhook"
          /\ ROUTE_SCOPES["GET /webhook_endpoints"].action = "read"
      BY DEF ROUTE_SCOPES, Route
    <2> QED BY <2>1, Zenon DEF authorize
  <1>7. authorize("GET /webhook_deliveries", P, t) <=> has_scope(P, "webhook", "read")
    <2>1. /\ ROUTE_SCOPES["GET /webhook_deliveries"].critical = FALSE
          /\ ROUTE_SCOPES["GET /webhook_deliveries"].api_key_only = FALSE
          /\ ROUTE_SCOPES["GET /webhook_deliveries"].resource = "webhook"
          /\ ROUTE_SCOPES["GET /webhook_deliveries"].action = "read"
      BY DEF ROUTE_SCOPES, Route
    <2> QED BY <2>1, Zenon DEF authorize
  <1>8. authorize("POST /customers", P, t) <=> has_scope(P, "customer", "create")
    <2>1. /\ ROUTE_SCOPES["POST /customers"].critical = FALSE
          /\ ROUTE_SCOPES["POST /customers"].api_key_only = FALSE
          /\ ROUTE_SCOPES["POST /customers"].resource = "customer"
          /\ ROUTE_SCOPES["POST /customers"].action = "create"
      BY DEF ROUTE_SCOPES, Route
    <2> QED BY <2>1, Zenon DEF authorize
  <1>9. authorize("GET /customers", P, t) <=> has_scope(P, "customer", "read")
    <2>1. /\ ROUTE_SCOPES["GET /customers"].critical = FALSE
          /\ ROUTE_SCOPES["GET /customers"].api_key_only = FALSE
          /\ ROUTE_SCOPES["GET /customers"].resource = "customer"
          /\ ROUTE_SCOPES["GET /customers"].action = "read"
      BY DEF ROUTE_SCOPES, Route
    <2> QED BY <2>1, Zenon DEF authorize
  <1>10. authorize("GET /customers/{id}", P, t) <=> has_scope(P, "customer", "read")
    <2>1. /\ ROUTE_SCOPES["GET /customers/{id}"].critical = FALSE
          /\ ROUTE_SCOPES["GET /customers/{id}"].api_key_only = FALSE
          /\ ROUTE_SCOPES["GET /customers/{id}"].resource = "customer"
          /\ ROUTE_SCOPES["GET /customers/{id}"].action = "read"
      BY DEF ROUTE_SCOPES, Route
    <2> QED BY <2>1, Zenon DEF authorize
  <1>11. authorize("POST /invoices", P, t) <=> has_scope(P, "invoice", "create")
    <2>1. /\ ROUTE_SCOPES["POST /invoices"].critical = FALSE
          /\ ROUTE_SCOPES["POST /invoices"].api_key_only = FALSE
          /\ ROUTE_SCOPES["POST /invoices"].resource = "invoice"
          /\ ROUTE_SCOPES["POST /invoices"].action = "create"
      BY DEF ROUTE_SCOPES, Route
    <2> QED BY <2>1, Zenon DEF authorize
  <1>12. authorize("GET /invoices", P, t) <=> has_scope(P, "invoice", "read")
    <2>1. /\ ROUTE_SCOPES["GET /invoices"].critical = FALSE
          /\ ROUTE_SCOPES["GET /invoices"].api_key_only = FALSE
          /\ ROUTE_SCOPES["GET /invoices"].resource = "invoice"
          /\ ROUTE_SCOPES["GET /invoices"].action = "read"
      BY DEF ROUTE_SCOPES, Route
    <2> QED BY <2>1, Zenon DEF authorize
  <1>13. authorize("GET /invoices/{id}", P, t) <=> has_scope(P, "invoice", "read")
    <2>1. /\ ROUTE_SCOPES["GET /invoices/{id}"].critical = FALSE
          /\ ROUTE_SCOPES["GET /invoices/{id}"].api_key_only = FALSE
          /\ ROUTE_SCOPES["GET /invoices/{id}"].resource = "invoice"
          /\ ROUTE_SCOPES["GET /invoices/{id}"].action = "read"
      BY DEF ROUTE_SCOPES, Route
    <2> QED BY <2>1, Zenon DEF authorize
  <1>14. authorize("POST /invoices/{id}/send", P, t) <=> has_scope(P, "invoice", "update")
    <2>1. /\ ROUTE_SCOPES["POST /invoices/{id}/send"].critical = FALSE
          /\ ROUTE_SCOPES["POST /invoices/{id}/send"].api_key_only = FALSE
          /\ ROUTE_SCOPES["POST /invoices/{id}/send"].resource = "invoice"
          /\ ROUTE_SCOPES["POST /invoices/{id}/send"].action = "update"
      BY DEF ROUTE_SCOPES, Route
    <2> QED BY <2>1, Zenon DEF authorize
  <1>15. authorize("POST /invoices/{id}/void", P, t) <=> has_scope(P, "invoice", "update")
    <2>1. /\ ROUTE_SCOPES["POST /invoices/{id}/void"].critical = FALSE
          /\ ROUTE_SCOPES["POST /invoices/{id}/void"].api_key_only = FALSE
          /\ ROUTE_SCOPES["POST /invoices/{id}/void"].resource = "invoice"
          /\ ROUTE_SCOPES["POST /invoices/{id}/void"].action = "update"
      BY DEF ROUTE_SCOPES, Route
    <2> QED BY <2>1, Zenon DEF authorize
  <1>16. authorize("POST /invoices/{id}/pay", P, t) <=> has_scope(P, "payment", "create")
    <2>1. /\ ROUTE_SCOPES["POST /invoices/{id}/pay"].critical = FALSE
          /\ ROUTE_SCOPES["POST /invoices/{id}/pay"].api_key_only = FALSE
          /\ ROUTE_SCOPES["POST /invoices/{id}/pay"].resource = "payment"
          /\ ROUTE_SCOPES["POST /invoices/{id}/pay"].action = "create"
      BY DEF ROUTE_SCOPES, Route
    <2> QED BY <2>1, Zenon DEF authorize
  <1> QED BY <1>1, <1>2, <1>3, <1>4, <1>5, <1>6, <1>7, <1>8, <1>9, <1>10, <1>11, <1>12, <1>13, <1>14, <1>15, <1>16

LEMMA TenantSees ==
    ASSUME tier # "service", NEW table, NEW refused
    PROVE  /\ Visible(Select(table, refused)) <=> Policy(table, "select", permissions, tier)
           /\ Visible(Insert(table)) <=> Policy(table, "insert", permissions, tier)
           /\ Visible(InsertReturning(table)) <=>
                 /\ Policy(table, "insert", permissions, tier)
                 /\ Policy(table, "select", permissions, tier)
           /\ Visible(Update(table, refused)) <=>
                 /\ Policy(table, "update", permissions, tier)
                 /\ Policy(table, "select", permissions, tier)
  BY DEF Visible, Select, Insert, InsertReturning, Update

LEMMA ServiceSees ==
    ASSUME tier = "service", NEW table, NEW refused
    PROVE  /\ Visible(Select(table, refused)) <=> "select" \in ServiceGrants(table)
           /\ Visible(Insert(table)) <=> "insert" \in ServiceGrants(table)
           /\ Visible(Update(table, refused)) <=>
                 "update" \in ServiceGrants(table) /\ "select" \in ServiceGrants(table)
  BY DEF Visible, Select, Insert, Update

\* Every way through the pay handler runs these statements, the invoice right
\* after the idempotency key. (pay_invoice() of payments.rs)
LEMMA PayStatements ==
    ASSUME NEW sequence \in Pay
    PROVE  /\ sequence \in Seq(Statement) /\ sequence # <<>>
           /\ Head(sequence) = InsertReturning("idempotency_keys")
           /\ Tail(sequence) # <<>>
           /\ Head(Tail(sequence)) = Update("invoices", "404")
           /\ Insert("payment_attempts") \in Range(sequence)
           /\ Range(sequence) \subseteq
                 {InsertReturning("idempotency_keys"), Update("invoices", "404"),
                  Insert("payment_attempts"), Update("payment_attempts", "unapplied"),
                  Update("invoices", "unapplied"), Select("payment_attempts", "404"),
                  Select("invoices", "404"), Insert("webhook_deliveries"),
                  Update("idempotency_keys", "500")}
  <1> DEFINE first == <<InsertReturning("idempotency_keys"), Update("invoices", "404"),
                        Insert("payment_attempts")>>
             last == <<Update("idempotency_keys", "500")>>
  <1>1. {"idempotency_keys", "invoices", "payment_attempts", "webhook_deliveries"} \subseteq Tables
    BY DEF Tables
  <1>2. /\ InsertReturning("idempotency_keys") \in Statement
        /\ Update("invoices", "404") \in Statement
        /\ Insert("payment_attempts") \in Statement
        /\ Update("idempotency_keys", "500") \in Statement
        /\ Insert("webhook_deliveries") \in Statement
    BY <1>1, StatementType
  <1>3. /\ emit \in Seq(Statement)
        /\ Range(emit) = {Insert("webhook_deliveries")}
    BY <1>2, OneStatement DEF emit
  <1>4. PICK s \in settle(emit) : sequence = first \o s \o last
    BY DEF Pay
  <1>5. /\ s \in Seq(Statement)
        /\ Range(s) \subseteq
              {Update("payment_attempts", "unapplied"), Update("invoices", "unapplied"),
               Select("payment_attempts", "404"), Select("invoices", "404"),
               Insert("webhook_deliveries")}
    BY <1>3, SettleStatements
  <1>6. /\ Range(first) = {InsertReturning("idempotency_keys"), Update("invoices", "404"),
                           Insert("payment_attempts")}
        /\ first \in Seq(Statement)
    BY <1>2, ThreeStatements
  <1>6b. last \in Seq(Statement) /\ Range(last) = {Update("idempotency_keys", "500")}
    BY <1>2, OneStatement
  <1>6a. /\ first[1] = InsertReturning("idempotency_keys")
         /\ first[2] = Update("invoices", "404")
         /\ Len(first) = 3
    OBVIOUS
  <1> HIDE DEF first, last
  <1>7. /\ first \o s \in Seq(Statement)
        /\ Range(first \o s) = Range(first) \cup Range(s)
        /\ Len(first \o s) = Len(first) + Len(s)
        /\ Len(s) \in Nat
        /\ \A k \in 1 .. Len(first) + Len(s) :
              (first \o s)[k] = IF k <= Len(first) THEN first[k] ELSE s[k - Len(first)]
    BY <1>5, <1>6, RangeOfConcat, ConcatProperties, LenProperties
  <1>8. /\ sequence \in Seq(Statement)
        /\ Range(sequence) = Range(first) \cup Range(s) \cup Range(last)
    <2> DEFINE start == first \o s
    <2>1. /\ start \in Seq(Statement) /\ sequence = start \o last
          /\ Range(start) = Range(first) \cup Range(s)
      BY <1>4, <1>7
    <2> HIDE DEF start
    <2> QED BY <1>6b, <2>1, RangeOfConcat
  <1>8a. /\ Len(sequence) = Len(first \o s) + Len(last)
         /\ Len(last) \in Nat
         /\ \A k \in 1 .. Len(first \o s) + Len(last) :
               sequence[k] = IF k <= Len(first \o s) THEN (first \o s)[k]
                             ELSE last[k - Len(first \o s)]
    <2> DEFINE start == first \o s
    <2>1. start \in Seq(Statement) /\ sequence = start \o last
      BY <1>4, <1>7
    <2> HIDE DEF start
    <2>2. /\ Len(sequence) = Len(start) + Len(last)
          /\ Len(last) \in Nat
          /\ \A k \in 1 .. Len(start) + Len(last) :
                sequence[k] = IF k <= Len(start) THEN start[k] ELSE last[k - Len(start)]
      BY <1>6b, <2>1, ConcatProperties, LenProperties
    <2> QED BY <2>2 DEF start
  <1>9. /\ Len(sequence) \in Nat /\ Len(sequence) >= 3
        /\ sequence[1] = InsertReturning("idempotency_keys")
        /\ sequence[2] = Update("invoices", "404")
    BY <1>6a, <1>7, <1>8a
  <1>10. /\ sequence # <<>> /\ Head(sequence) = sequence[1]
         /\ Len(Tail(sequence)) = Len(sequence) - 1
         /\ \A k \in 1 .. Len(Tail(sequence)) : Tail(sequence)[k] = sequence[k + 1]
    <2>1. sequence # <<>>
      BY <1>9
    <2> QED BY <1>8, <2>1, HeadTailProperties
  <1>11. /\ Tail(sequence) # <<>>
         /\ Head(Tail(sequence)) = Tail(sequence)[1]
         /\ Tail(sequence)[1] = sequence[2]
    <2>1. Len(Tail(sequence)) >= 2 /\ Len(Tail(sequence)) \in Nat
      BY <1>9, <1>10
    <2>2. Tail(sequence) # <<>>
      BY <2>1
    <2> QED BY <1>10, <2>1, <2>2
  <1> QED BY <1>5, <1>6, <1>6b, <1>8, <1>9, <1>10, <1>11

-----------------------------------------------------------------------------
(* Route by route: what the middleware admits, what the policies show      *)

\* The three facts about a way through a handler.
Matched(sequence) ==
    /\ sequence \in Seq(Statement)
    /\ authorize(route, permissions, tier) =>
          IF Underscoped THEN Stopped(sequence) ELSE Complete(sequence)
    /\ Complete(sequence) =>
          \/ authorize(route, permissions, tier)
          \/ route = "POST /auth/tokens"
          \/ /\ route \in {"POST /invoices/{id}/send", "POST /invoices/{id}/void"}
             /\ Holds("payment", "create")

\* A handler of one statement: the credential that is admitted, and no other,
\* sees its rows.
LEMMA OneStatementMatches ==
    ASSUME NEW s \in Statement, ~Underscoped,
           Visible(s) <=> authorize(route, permissions, tier)
    PROVE  Matched(<<s>>)
  <1>1. <<s>> \in Seq(Statement) /\ Range(<<s>>) = {s}
    BY OneStatement
  <1>2. Complete(<<s>>) <=> Visible(s)
    BY <1>1 DEF Complete
  <1> QED BY <1>1, <1>2 DEF Matched

\* The handlers of one statement. (api_keys.rs, webhooks.rs, customers.rs, and
\* list_invoices of invoices.rs)
LEMMA ShortRoutesMatch ==
    ASSUME permissions \in SUBSET Scopes, tier \in {"standard", "critical"},
           route \in {"POST /api_keys", "GET /api_keys",
                     "DELETE /api_keys/{id}", "POST /webhook_endpoints",
                     "GET /webhook_endpoints", "DELETE /webhook_endpoints/{id}",
                     "GET /webhook_deliveries", "POST /customers",
                     "GET /customers", "GET /customers/{id}", "GET /invoices"},
           NEW sequence \in Statements(route)
    PROVE  Matched(sequence)
  <1>1. ~Underscoped
    BY DEF Underscoped
  <1>2. tier # "service"
    OBVIOUS
  <1>3. ASSUME NEW r \in Resources, NEW a \in Mutating
        PROVE  has_scope(permissions, r, a) => has_scope(permissions, r, "read")
    BY MutatingReads
  <1>4. /\ {"customer", "invoice", "webhook", "api_key"} \subseteq Resources
        /\ {"create", "update", "delete"} \subseteq Mutating
        /\ {"customers", "invoices", "webhook_endpoints", "webhook_deliveries", "api_keys"}
              \subseteq Tables
    BY DEF Resources, Mutating, Tables
  <1>5. CASE route = "POST /api_keys"
    <2> DEFINE s == InsertReturning("api_keys")
    <2>1. sequence = <<s>>
      BY <1>5 DEF Statements, CreateKey
    <2>2. s \in Statement
      BY <1>4, StatementType
    <2>3. Visible(s) <=> authorize("POST /api_keys", permissions, tier)
      BY <1>2, <1>3, <1>4, TenantSees, PolicyNeeds, Admitted
    <2> HIDE DEF s
    <2> QED BY <1>1, <1>5, <2>1, <2>2, <2>3, OneStatementMatches
  <1>6. CASE route = "GET /api_keys"
    <2> DEFINE s == Select("api_keys", "filtered")
    <2>1. sequence = <<s>>
      BY <1>6 DEF Statements, ListKeys
    <2>2. s \in Statement
      BY <1>4, StatementType
    <2>3. Visible(s) <=> authorize("GET /api_keys", permissions, tier)
      BY <1>2, <1>3, <1>4, TenantSees, PolicyNeeds, Admitted
    <2> HIDE DEF s
    <2> QED BY <1>1, <1>6, <2>1, <2>2, <2>3, OneStatementMatches
  <1>7. CASE route = "DELETE /api_keys/{id}"
    <2> DEFINE s == Update("api_keys", "404")
    <2>1. sequence = <<s>>
      BY <1>7 DEF Statements, RevokeKey
    <2>2. s \in Statement
      BY <1>4, StatementType
    <2>3. Visible(s) <=> authorize("DELETE /api_keys/{id}", permissions, tier)
      BY <1>2, <1>3, <1>4, TenantSees, PolicyNeeds, Admitted
    <2> HIDE DEF s
    <2> QED BY <1>1, <1>7, <2>1, <2>2, <2>3, OneStatementMatches
  <1>8. CASE route = "POST /webhook_endpoints"
    <2> DEFINE s == InsertReturning("webhook_endpoints")
    <2>1. sequence = <<s>>
      BY <1>8 DEF Statements, CreateEndpoint
    <2>2. s \in Statement
      BY <1>4, StatementType
    <2>3. Visible(s) <=> authorize("POST /webhook_endpoints", permissions, tier)
      BY <1>2, <1>3, <1>4, TenantSees, PolicyNeeds, Admitted
    <2> HIDE DEF s
    <2> QED BY <1>1, <1>8, <2>1, <2>2, <2>3, OneStatementMatches
  <1>9. CASE route = "GET /webhook_endpoints"
    <2> DEFINE s == Select("webhook_endpoints", "filtered")
    <2>1. sequence = <<s>>
      BY <1>9 DEF Statements, ListEndpoints
    <2>2. s \in Statement
      BY <1>4, StatementType
    <2>3. Visible(s) <=> authorize("GET /webhook_endpoints", permissions, tier)
      BY <1>2, <1>3, <1>4, TenantSees, PolicyNeeds, Admitted
    <2> HIDE DEF s
    <2> QED BY <1>1, <1>9, <2>1, <2>2, <2>3, OneStatementMatches
  <1>10. CASE route = "DELETE /webhook_endpoints/{id}"
    <2> DEFINE s == Update("webhook_endpoints", "404")
    <2>1. sequence = <<s>>
      BY <1>10 DEF Statements, DisableEndpoint
    <2>2. s \in Statement
      BY <1>4, StatementType
    <2>3. Visible(s) <=> authorize("DELETE /webhook_endpoints/{id}", permissions, tier)
      BY <1>2, <1>3, <1>4, TenantSees, PolicyNeeds, Admitted
    <2> HIDE DEF s
    <2> QED BY <1>1, <1>10, <2>1, <2>2, <2>3, OneStatementMatches
  <1>11. CASE route = "GET /webhook_deliveries"
    <2> DEFINE s == Select("webhook_deliveries", "filtered")
    <2>1. sequence = <<s>>
      BY <1>11 DEF Statements, ListDeliveries
    <2>2. s \in Statement
      BY <1>4, StatementType
    <2>3. Visible(s) <=> authorize("GET /webhook_deliveries", permissions, tier)
      BY <1>2, <1>3, <1>4, TenantSees, PolicyNeeds, Admitted
    <2> HIDE DEF s
    <2> QED BY <1>1, <1>11, <2>1, <2>2, <2>3, OneStatementMatches
  <1>12. CASE route = "POST /customers"
    <2> DEFINE s == InsertReturning("customers")
    <2>1. sequence = <<s>>
      BY <1>12 DEF Statements, CreateCustomer
    <2>2. s \in Statement
      BY <1>4, StatementType
    <2>3. Visible(s) <=> authorize("POST /customers", permissions, tier)
      BY <1>2, <1>3, <1>4, TenantSees, PolicyNeeds, Admitted
    <2> HIDE DEF s
    <2> QED BY <1>1, <1>12, <2>1, <2>2, <2>3, OneStatementMatches
  <1>13. CASE route = "GET /customers"
    <2> DEFINE s == Select("customers", "filtered")
    <2>1. sequence = <<s>>
      BY <1>13 DEF Statements, ListCustomers
    <2>2. s \in Statement
      BY <1>4, StatementType
    <2>3. Visible(s) <=> authorize("GET /customers", permissions, tier)
      BY <1>2, <1>3, <1>4, TenantSees, PolicyNeeds, Admitted
    <2> HIDE DEF s
    <2> QED BY <1>1, <1>13, <2>1, <2>2, <2>3, OneStatementMatches
  <1>14. CASE route = "GET /customers/{id}"
    <2> DEFINE s == Select("customers", "404")
    <2>1. sequence = <<s>>
      BY <1>14 DEF Statements, GetCustomer
    <2>2. s \in Statement
      BY <1>4, StatementType
    <2>3. Visible(s) <=> authorize("GET /customers/{id}", permissions, tier)
      BY <1>2, <1>3, <1>4, TenantSees, PolicyNeeds, Admitted
    <2> HIDE DEF s
    <2> QED BY <1>1, <1>14, <2>1, <2>2, <2>3, OneStatementMatches
  <1>15. CASE route = "GET /invoices"
    <2> DEFINE s == Select("invoices", "filtered")
    <2>1. sequence = <<s>>
      BY <1>15 DEF Statements, ListInvoices
    <2>2. s \in Statement
      BY <1>4, StatementType
    <2>3. Visible(s) <=> authorize("GET /invoices", permissions, tier)
      BY <1>2, <1>3, <1>4, TenantSees, PolicyNeeds, Admitted
    <2> HIDE DEF s
    <2> QED BY <1>1, <1>15, <2>1, <2>2, <2>3, OneStatementMatches
  <1> QED BY <1>5, <1>6, <1>7, <1>8, <1>9, <1>10, <1>11, <1>12, <1>13, <1>14, <1>15

\* The statements of the handlers that run several. (create_invoice, get_invoice,
\* send_invoice and void_invoice of invoices.rs)
LEMMA InvoiceStatements ==
    /\ CreateInvoice \in Seq(Statement)
    /\ Range(CreateInvoice) =
          {Select("customers", "404"), InsertReturning("invoices"),
           Insert("invoice_line_items"), Select("invoice_line_items", "filtered"),
           Insert("webhook_deliveries")}
    /\ CreateInvoice # <<>> /\ Head(CreateInvoice) = Select("customers", "404")
    /\ GetInvoice \in Seq(Statement)
    /\ Range(GetInvoice) =
          {Select("invoices", "404"), Select("invoice_line_items", "filtered"),
           Select("payment_attempts", "filtered")}
    /\ MoveInvoice \in Seq(Statement)
    /\ Range(MoveInvoice) =
          {Select("invoices", "404"), Update("invoices", "409"),
           Select("invoice_line_items", "filtered"), Insert("webhook_deliveries")}
  <1> DEFINE create == <<Select("customers", "404"), InsertReturning("invoices"),
                         Insert("invoice_line_items"),
                         Select("invoice_line_items", "filtered")>>
             move == <<Select("invoices", "404"), Update("invoices", "409"),
                       Select("invoice_line_items", "filtered")>>
  <1>1. {"customers", "invoices", "invoice_line_items", "payment_attempts",
         "webhook_deliveries"} \subseteq Tables
    BY DEF Tables
  <1>2. /\ Select("customers", "404") \in Statement
        /\ Select("invoices", "404") \in Statement
        /\ Select("invoice_line_items", "filtered") \in Statement
        /\ Select("payment_attempts", "filtered") \in Statement
        /\ InsertReturning("invoices") \in Statement
        /\ Insert("invoice_line_items") \in Statement
        /\ Insert("webhook_deliveries") \in Statement
        /\ Update("invoices", "409") \in Statement
    BY <1>1, StatementType
  <1>3. emit \in Seq(Statement) /\ Range(emit) = {Insert("webhook_deliveries")}
    BY <1>2, OneStatement DEF emit
  <1>4. /\ create \in Seq(Statement)
        /\ Range(create) = {Select("customers", "404"), InsertReturning("invoices"),
                            Insert("invoice_line_items"),
                            Select("invoice_line_items", "filtered")}
    BY <1>2, FourStatements
  <1>5. /\ move \in Seq(Statement)
        /\ Range(move) = {Select("invoices", "404"), Update("invoices", "409"),
                          Select("invoice_line_items", "filtered")}
    BY <1>2, ThreeStatements
  <1>6. /\ GetInvoice \in Seq(Statement)
        /\ Range(GetInvoice) =
              {Select("invoices", "404"), Select("invoice_line_items", "filtered"),
               Select("payment_attempts", "filtered")}
    BY <1>2, ThreeStatements DEF GetInvoice
  <1>7. CreateInvoice = create \o emit /\ MoveInvoice = move \o emit
    BY DEF CreateInvoice, MoveInvoice
  <1>8. Len(create) = 4 /\ create[1] = Select("customers", "404")
    OBVIOUS
  <1> HIDE DEF create, move
  <1>9. /\ CreateInvoice \in Seq(Statement)
        /\ Range(CreateInvoice) = Range(create) \cup Range(emit)
    BY <1>3, <1>4, <1>7, RangeOfConcat
  <1>10. /\ MoveInvoice \in Seq(Statement)
         /\ Range(MoveInvoice) = Range(move) \cup Range(emit)
    BY <1>3, <1>5, <1>7, RangeOfConcat
  <1>11. CreateInvoice # <<>> /\ Head(CreateInvoice) = Select("customers", "404")
    <2>1. /\ Len(CreateInvoice) = Len(create) + Len(emit)
          /\ \A k \in 1 .. Len(create) + Len(emit) :
                CreateInvoice[k] = IF k <= Len(create) THEN create[k]
                                   ELSE emit[k - Len(create)]
          /\ Len(emit) \in Nat
      BY <1>3, <1>4, <1>7, ConcatProperties, LenProperties
    <2>2. /\ Len(CreateInvoice) \in Nat /\ Len(CreateInvoice) >= 4
          /\ CreateInvoice[1] = Select("customers", "404")
      BY <1>8, <2>1
    <2> QED BY <1>9, <2>2
  <1> QED BY <1>3, <1>4, <1>5, <1>6, <1>9, <1>10, <1>11

\* The handlers of several statements on invoices. (create_invoice, get_invoice,
\* send_invoice and void_invoice of invoices.rs)
LEMMA InvoiceRoutesMatch ==
    ASSUME permissions \in SUBSET Scopes, tier \in {"standard", "critical"},
           route \in {"POST /auth/tokens", "POST /invoices", "GET /invoices/{id}",
                      "POST /invoices/{id}/send", "POST /invoices/{id}/void"},
           NEW sequence \in Statements(route)
    PROVE  Matched(sequence)
  <1>1. tier # "service"
    OBVIOUS
  <1>2. ASSUME NEW r \in Resources, NEW a \in Mutating
        PROVE  has_scope(permissions, r, a) => has_scope(permissions, r, "read")
    BY MutatingReads
  <1>3. /\ {"customer", "invoice", "payment"} \subseteq Resources
        /\ {"create", "update", "delete"} \subseteq Mutating
        /\ {"customers", "invoices", "invoice_line_items", "payment_attempts",
            "webhook_deliveries"} \subseteq Tables
    BY DEF Resources, Mutating, Tables
  <1>4. /\ Visible(Select("invoices", "404")) <=> has_scope(permissions, "invoice", "read")
        /\ Visible(Select("invoice_line_items", "filtered"))
              <=> has_scope(permissions, "invoice", "read")
        /\ Visible(Select("payment_attempts", "filtered"))
              <=> \/ has_scope(permissions, "invoice", "read")
                  \/ has_scope(permissions, "payment", "read")
        /\ Visible(Insert("webhook_deliveries"))
              <=> \/ has_scope(permissions, "invoice", "create")
                  \/ has_scope(permissions, "invoice", "update")
                  \/ has_scope(permissions, "payment", "create")
    BY <1>1, TenantSees, PolicyNeeds
  <1>5. CASE route = "POST /auth/tokens"
    <2>1. sequence = <<>>
      BY <1>5 DEF Statements
    <2>2. ~Underscoped
      BY <1>5 DEF Underscoped
    <2>3. sequence \in Seq(Statement) /\ Complete(sequence)
      BY <2>1, NoStatement, Zenon DEF Complete
    <2> QED BY <1>5, <2>2, <2>3 DEF Matched
  <1>6. CASE route = "POST /invoices"
    <2>1. sequence = CreateInvoice
      BY <1>6 DEF Statements
    <2>7. /\ Visible(Select("customers", "404")) <=> has_scope(permissions, "customer", "read")
          /\ Visible(InsertReturning("invoices")) <=> has_scope(permissions, "invoice", "create")
          /\ Visible(Insert("invoice_line_items"))
                <=> has_scope(permissions, "invoice", "create")
      BY <1>1, <1>2, <1>3, TenantSees, PolicyNeeds
    <2>8. /\ authorize(route, permissions, tier) <=> has_scope(permissions, "invoice", "create")
          /\ Underscoped <=> ~has_scope(permissions, "customer", "read")
      BY <1>6, Admitted DEF Underscoped, Holds
    <2>9. has_scope(permissions, "invoice", "create") => has_scope(permissions, "invoice", "read")
      BY <1>2, <1>3
    <2>10. Complete(sequence) <=>
              /\ has_scope(permissions, "invoice", "create")
              /\ has_scope(permissions, "customer", "read")
      BY <1>4, <2>1, <2>7, <2>9, InvoiceStatements DEF Complete
    <2>11. Underscoped => Stopped(sequence)
      BY <1>6, <2>1, <2>7, <2>8, InvoiceStatements DEF Stopped, AtBlocker
    <2> QED BY <2>1, <2>8, <2>10, <2>11, InvoiceStatements DEF Matched
  <1>7. CASE route = "GET /invoices/{id}"
    <2>1. sequence = GetInvoice
      BY <1>7 DEF Statements
    <2>4. authorize(route, permissions, tier) <=> has_scope(permissions, "invoice", "read")
      BY <1>7, Admitted
    <2>5. ~Underscoped
      BY <1>7 DEF Underscoped
    <2>6. Complete(sequence) <=> has_scope(permissions, "invoice", "read")
      BY <1>4, <2>1, InvoiceStatements DEF Complete
    <2> QED BY <2>1, <2>4, <2>5, <2>6, InvoiceStatements DEF Matched
  <1>8. CASE route \in {"POST /invoices/{id}/send", "POST /invoices/{id}/void"}
    <2>1. sequence = MoveInvoice
      BY <1>8 DEF Statements
    <2>5. Visible(Update("invoices", "409")) <=>
              /\ has_scope(permissions, "invoice", "read")
              /\ \/ has_scope(permissions, "invoice", "update")
                 \/ has_scope(permissions, "payment", "create")
      BY <1>1, TenantSees, PolicyNeeds
    <2>6. authorize(route, permissions, tier) <=> has_scope(permissions, "invoice", "update")
      BY <1>8, Admitted
    <2>7. ~Underscoped
      BY <1>8 DEF Underscoped
    <2>8. has_scope(permissions, "invoice", "update") => has_scope(permissions, "invoice", "read")
      BY <1>2, <1>3
    <2>9. Complete(sequence) <=>
              /\ Visible(Select("invoices", "404"))
              /\ Visible(Update("invoices", "409"))
              /\ Visible(Select("invoice_line_items", "filtered"))
              /\ Visible(Insert("webhook_deliveries"))
      BY <2>1, InvoiceStatements DEF Complete
    <2>10. authorize(route, permissions, tier) => Complete(sequence)
      BY <1>4, <2>5, <2>6, <2>8, <2>9
    <2>11. Complete(sequence) =>
              has_scope(permissions, "invoice", "update") \/ Holds("payment", "create")
      BY <2>5, <2>9 DEF Holds
    <2> QED BY <1>8, <2>1, <2>6, <2>7, <2>10, <2>11, InvoiceStatements DEF Matched
  <1> QED BY <1>5, <1>6, <1>7, <1>8

\* The pay handler, on every way through it. (pay_invoice() of payments.rs)
LEMMA PayMatches ==
    ASSUME permissions \in SUBSET Scopes, tier \in {"standard", "critical"},
           route = "POST /invoices/{id}/pay",
           NEW sequence \in Statements(route)
    PROVE  Matched(sequence)
  <1>1. tier # "service"
    OBVIOUS
  <1>2. sequence \in Pay
    BY DEF Statements
  <1>3. has_scope(permissions, "payment", "create") => has_scope(permissions, "payment", "read")
    BY MutatingReads DEF Resources, Mutating
  <1>4. /\ authorize(route, permissions, tier) <=> has_scope(permissions, "payment", "create")
        /\ Underscoped <=> ~has_scope(permissions, "invoice", "read")
    BY Admitted DEF Underscoped, Holds
  <1>5. /\ Visible(InsertReturning("idempotency_keys"))
        /\ Visible(Update("idempotency_keys", "500"))
    BY <1>1, TenantSees, PolicyNeeds DEF Commands
  <1>6. /\ Visible(Update("invoices", "404")) <=>
              /\ has_scope(permissions, "invoice", "read")
              /\ \/ has_scope(permissions, "invoice", "update")
                 \/ has_scope(permissions, "payment", "create")
        /\ Visible(Update("invoices", "unapplied")) <=>
              /\ has_scope(permissions, "invoice", "read")
              /\ \/ has_scope(permissions, "invoice", "update")
                 \/ has_scope(permissions, "payment", "create")
        /\ Visible(Select("invoices", "404")) <=> has_scope(permissions, "invoice", "read")
    BY <1>1, TenantSees, PolicyNeeds
  <1>7. /\ Visible(Insert("payment_attempts")) <=> has_scope(permissions, "payment", "create")
        /\ has_scope(permissions, "payment", "create") =>
              /\ Visible(Update("payment_attempts", "unapplied"))
              /\ Visible(Select("payment_attempts", "404"))
    BY <1>1, <1>3, TenantSees, PolicyNeeds
  <1>8. has_scope(permissions, "payment", "create") => Visible(Insert("webhook_deliveries"))
    BY <1>1, TenantSees, PolicyNeeds
  <1>9. ASSUME authorize(route, permissions, tier), ~Underscoped
        PROVE  Complete(sequence)
    BY <1>2, <1>4, <1>5, <1>6, <1>7, <1>8, <1>9, PayStatements DEF Complete
  <1>10. Underscoped => Stopped(sequence)
    <2>1. Underscoped => ~Visible(Update("invoices", "404"))
      BY <1>4, <1>6
    <2>2. /\ sequence # <<>>
          /\ Head(sequence) = InsertReturning("idempotency_keys")
          /\ Tail(sequence) # <<>>
          /\ Head(Tail(sequence)) = Update("invoices", "404")
      BY <1>2, PayStatements
    <2>3. Underscoped => AtBlocker(Tail(sequence))
      BY <2>1, <2>2 DEF AtBlocker
    <2> QED BY <1>5, <2>2, <2>3 DEF Stopped
  <1>11. Complete(sequence) => authorize(route, permissions, tier)
    <2>1. Insert("payment_attempts") \in Range(sequence)
      BY <1>2, PayStatements
    <2> QED BY <1>4, <1>7, <2>1 DEF Complete
  <1>12. sequence \in Seq(Statement)
    BY <1>2, PayStatements
  <1> QED BY <1>9, <1>10, <1>11, <1>12 DEF Matched

\* The middleware and the policies agree on every route.
LEMMA RoutesMatch ==
    ASSUME permissions \in SUBSET Scopes, tier \in {"standard", "critical"},
           route \in Routes, NEW sequence \in Statements(route)
    PROVE  Matched(sequence)
  <1>1. Routes = {"POST /auth/tokens", "POST /api_keys", "DELETE /api_keys/{id}",
                  "GET /api_keys", "POST /webhook_endpoints",
                  "DELETE /webhook_endpoints/{id}", "GET /webhook_endpoints",
                  "GET /webhook_deliveries", "POST /customers", "GET /customers",
                  "GET /customers/{id}", "POST /invoices", "GET /invoices",
                  "GET /invoices/{id}", "POST /invoices/{id}/send",
                  "POST /invoices/{id}/void", "POST /invoices/{id}/pay"}
    BY DEF Routes, ROUTE_SCOPES
  <1> QED BY <1>1, ShortRoutesMatch, InvoiceRoutesMatch, PayMatches

\* What the background jobs run is within the grants of their role.
\* (reconciler.rs, dispatcher.rs, and the grants of rls.sql)
LEMMA JobsAreGranted ==
    ASSUME tier = "service", route \in DOMAIN Jobs, NEW sequence \in Jobs[route]
    PROVE  sequence \in Seq(Statement) /\ Complete(sequence)
  <1>1. {"invoices", "payment_attempts", "webhook_deliveries", "webhook_endpoints"}
            \subseteq Tables
    BY DEF Tables
  <1>1a. /\ Update("payment_attempts", "500") \in Statement
         /\ Update("webhook_deliveries", "500") \in Statement
         /\ Insert("webhook_deliveries") \in Statement
         /\ Select("webhook_endpoints", "500") \in Statement
    BY <1>1, StatementType
  <1>2. /\ Visible(Update("payment_attempts", "500"))
        /\ Visible(Update("payment_attempts", "unapplied"))
        /\ Visible(Update("invoices", "unapplied"))
        /\ Visible(Select("payment_attempts", "404"))
        /\ Visible(Select("invoices", "404"))
    BY ServiceSees DEF ServiceGrants
  <1>3. /\ Visible(Update("webhook_deliveries", "500"))
        /\ Visible(Insert("webhook_deliveries"))
        /\ Visible(Select("webhook_endpoints", "500"))
    BY ServiceSees DEF ServiceGrants, Commands
  <1>4. CASE route = "reconcile"
    <2>1. sequence \in {<<Update("payment_attempts", "500")>>} \cup settle(service_emit)
      BY <1>4 DEF Jobs
    <2>2. /\ service_emit \in Seq(Statement)
          /\ Range(service_emit) = {Select("webhook_endpoints", "500"),
                                    Insert("webhook_deliveries")}
      BY <1>1a, TwoStatements DEF service_emit
    <2>3. CASE sequence = <<Update("payment_attempts", "500")>>
      BY <1>1a, <1>2, <2>3, OneStatement DEF Complete
    <2>4. CASE sequence \in settle(service_emit)
      BY <1>2, <1>3, <2>2, <2>4, SettleStatements DEF Complete
    <2> QED BY <2>1, <2>3, <2>4
  <1>5. CASE route = "dispatch"
    <2>1. sequence \in {<<Update("webhook_deliveries", "500"),
                          Select("webhook_endpoints", "500")>>,
                        <<Update("webhook_deliveries", "500")>>}
      BY <1>5 DEF Jobs
    <2>2. CASE sequence = <<Update("webhook_deliveries", "500"),
                            Select("webhook_endpoints", "500")>>
      BY <1>1a, <1>3, <2>2, TwoStatements DEF Complete
    <2>3. CASE sequence = <<Update("webhook_deliveries", "500")>>
      BY <1>1a, <1>3, <2>3, OneStatement DEF Complete
    <2> QED BY <2>1, <2>2, <2>3
  <1>6. DOMAIN Jobs = {"reconcile", "dispatch"}
    BY DEF Jobs
  <1> QED BY <1>4, <1>5, <1>6

-----------------------------------------------------------------------------
(* The invariant                                                           *)

LEMMA BlockerFields ==
    /\ Select("customers", "404").refused = "404"
    /\ Update("invoices", "404").refused = "404"
  BY DEF Select, Update

LEMMA JobsAreNotScoped ==
    ASSUME route \in DOMAIN Jobs
    PROVE  ~Underscoped
  BY Zenon DEF Jobs, Underscoped

\* The credential, the route and what they see do not change.
LEMMA RequestStays ==
    ASSUME UNCHANGED request
    PROVE  /\ \A s : Visible(s)' <=> Visible(s)
           /\ \A q : Complete(q)' <=> Complete(q)
           /\ \A q : Stopped(q)' <=> Stopped(q)
           /\ Underscoped' <=> Underscoped
  <1>1. permissions' = permissions /\ tier' = tier /\ route' = route
    BY DEF request
  <1>2. \A s : Visible(s)' <=> Visible(s)
    BY <1>1, Zenon DEF Visible
  <1>3. \A q : Complete(q)' <=> Complete(q)
    BY <1>2, Zenon DEF Complete
  <1>4. \A q : AtBlocker(q)' <=> AtBlocker(q)
    BY <1>1, <1>2, Zenon DEF AtBlocker
  <1>5. \A q : Stopped(q)' <=> Stopped(q)
    BY <1>2, <1>4, Zenon DEF Stopped
  <1>6. Underscoped' <=> Underscoped
    BY <1>1, Zenon DEF Underscoped, Holds
  <1> QED BY <1>2, <1>3, <1>5, <1>6

LEMMA InitInv == Init => AccessInv
  <1> SUFFICES ASSUME Init PROVE AccessInv
    OBVIOUS
  <1>1. filtered = FALSE
    BY DEF Init
  <1>2. CASE Request
    <2>1. permissions \in SUBSET Scopes
      BY <1>2, AccessAssumption DEF Request
    <2>2. /\ tier \in {"standard", "critical"} /\ route \in Routes
          /\ loosened \in BOOLEAN /\ statements \in Statements(route)
          /\ outcome = "none"
      BY <1>2 DEF Request
    <2>3. statements \in Seq(Statement)
      BY <2>1, <2>2, RoutesMatch DEF Matched
    <2>4. TypeOK
      BY <1>1, <2>1, <2>2, <2>3 DEF TypeOK
    <2>5. StartsWhole /\ RunsThrough
      BY <1>1, <2>2 DEF StartsWhole, RunsThrough
    <2>6. NothingSkipped
      BY <2>2 DEF NothingSkipped
    <2> QED BY <2>4, <2>5, <2>6 DEF AccessInv
  <1>3. CASE Background
    <2>1. /\ permissions = {} /\ tier = "service" /\ route \in DOMAIN Jobs
          /\ loosened = FALSE /\ statements \in Jobs[route] /\ outcome = "open"
      BY <1>3 DEF Background
    <2>2. statements \in Seq(Statement) /\ Complete(statements)
      BY <2>1, JobsAreGranted
    <2>3. ~Underscoped
      BY <2>1, JobsAreNotScoped
    <2>4. TypeOK
      BY <1>1, <2>1, <2>2 DEF TypeOK
    <2>5. StartsWhole /\ NothingSkipped
      BY <2>1 DEF StartsWhole, NothingSkipped
    <2>6. RunsThrough
      BY <1>1, <2>1, <2>2, <2>3 DEF RunsThrough
    <2> QED BY <2>4, <2>5, <2>6 DEF AccessInv
  <1> QED BY <1>2, <1>3 DEF Init

\* Background jobs do not meet the middleware; only requests can be loosened.
LEMMA RequestOrJob ==
    ASSUME TypeOK
    PROVE  /\ tier = "service" => loosened = FALSE /\ outcome \notin {"none", "refused"}
           /\ tier = "service" => ~Underscoped
           /\ tier # "service" =>
                 /\ permissions \in SUBSET Scopes
                 /\ tier \in {"standard", "critical"}
                 /\ route \in Routes
           /\ statements \in Seq(Statement)
           /\ permissions \in SUBSET Scopes
  BY JobsAreNotScoped DEF TypeOK

LEMMA AuthorizeInv ==
    ASSUME AccessInv, Authorize
    PROVE  AccessInv'
  <1>1. /\ outcome = "none" /\ UNCHANGED request
        /\ statements' = statements /\ filtered' = filtered
        /\ outcome' = IF loosened \/ authorize(route, permissions, tier)
                      THEN "open" ELSE "refused"
    BY DEF Authorize
  <1>2. TypeOK /\ statements \in Statements(route) /\ ~filtered /\ NothingSkipped
    BY <1>1 DEF AccessInv, StartsWhole
  <1>3. tier # "service" /\ permissions \in SUBSET Scopes
        /\ tier \in {"standard", "critical"} /\ route \in Routes
    BY <1>1, <1>2, RequestOrJob
  <1>4. Matched(statements)
    BY <1>2, <1>3, RoutesMatch
  <1>5. TypeOK'
    BY <1>1, <1>2, <1>3 DEF TypeOK, request
  <1>6. StartsWhole'
    BY <1>1 DEF StartsWhole
  <1>7. RunsThrough'
    <2>1. loosened' = loosened
      BY <1>1 DEF request
    <2>2. ~loosened /\ outcome' # "refused" =>
              outcome' = "open" /\ authorize(route, permissions, tier)
      BY <1>1
    <2>3. ~loosened /\ outcome' # "refused" =>
              IF Underscoped THEN Stopped(statements) ELSE Complete(statements)
      BY <1>4, <2>2, Zenon DEF Matched
    <2> QED BY <1>1, <1>2, <2>1, <2>2, <2>3, RequestStays, Zenon DEF RunsThrough
  <1>8. NothingSkipped'
    <2>1. \E q \in Statements(route) : \A s \in Range(q) :
              Visible(s) \/ s \in Range(statements)
      BY <1>2
    <2>2. outcome' # "served" /\ route' = route
      BY <1>1 DEF request
    <2> QED BY <1>1, <2>1, <2>2, RequestStays, Zenon DEF NothingSkipped
  <1> QED BY <1>5, <1>6, <1>7, <1>8 DEF AccessInv

LEMMA ExecuteInv ==
    ASSUME AccessInv, Execute
    PROVE  AccessInv'
  <1> DEFINE s == Head(statements)
  <1>1. outcome = "open" /\ statements # <<>> /\ UNCHANGED request
    BY DEF Execute
  <1>2. permissions' = permissions /\ tier' = tier /\ route' = route /\ loosened' = loosened
    BY <1>1 DEF request
  <1>3. TypeOK /\ RunsThrough /\ NothingSkipped /\ filtered \in BOOLEAN
    BY DEF AccessInv, TypeOK
  <1>4. /\ s \in Statement /\ Tail(statements) \in Seq(Statement)
        /\ Range(statements) = {s} \cup Range(Tail(statements))
    <2>1. statements \in Seq(Statement)
      BY <1>3, RequestOrJob
    <2> QED BY <1>1, <2>1, RangeOfTail
  <1>5. /\ s.refused \in {"404", "409", "500", "filtered", "unapplied"}
        /\ Refusal(s) = IF tier = "service" THEN "500" ELSE s.refused
    BY <1>4 DEF Statement, Refusal
  <1>7. ~loosened /\ ~Underscoped => ~filtered /\ Complete(statements)
    BY <1>1, <1>3 DEF RunsThrough
  <1>8. ~loosened /\ Underscoped => ~filtered /\ Stopped(statements)
    BY <1>1, <1>3 DEF RunsThrough
  <1> HIDE DEF s
  <1>9. CASE Visible(s) /\ statements' = Tail(statements) /\ UNCHANGED <<outcome, filtered>>
    <2>1. TypeOK'
      BY <1>2, <1>3, <1>4, <1>9 DEF TypeOK
    <2>2. StartsWhole'
      BY <1>1, <1>9 DEF StartsWhole
    <2>3. ~loosened /\ ~Underscoped => Complete(Tail(statements))
      BY <1>4, <1>7 DEF Complete
    <2>4. ~loosened /\ Underscoped => Stopped(Tail(statements))
      BY <1>8, <1>9 DEF Stopped, AtBlocker, s
    <2>5. RunsThrough'
      BY <1>1, <1>2, <1>7, <1>8, <1>9, <2>3, <2>4, RequestStays, Zenon DEF RunsThrough
    <2>6. NothingSkipped'
      BY <1>1, <1>2, <1>3, <1>4, <1>9, RequestStays DEF NothingSkipped
    <2> QED BY <2>1, <2>2, <2>5, <2>6 DEF AccessInv
  <1>10. ASSUME ~Visible(s)
         PROVE  ~loosened => Underscoped /\ s.refused = "404" /\ tier # "service"
    <2>1. ~loosened => Underscoped
      BY <1>4, <1>7, <1>10 DEF Complete
    <2>2. Underscoped => tier # "service"
      BY <1>3, RequestOrJob
    <2>3. ~loosened => AtBlocker(statements)
      BY <1>8, <1>10, <2>1 DEF Stopped, s
    <2>4. AtBlocker(statements) => s.refused = "404"
      BY BlockerFields, Zenon DEF AtBlocker, s
    <2> QED BY <2>1, <2>2, <2>3, <2>4
  <1>11. CASE /\ ~Visible(s) /\ Refusal(s) = "filtered"
              /\ statements' = Tail(statements) /\ filtered' = TRUE /\ UNCHANGED outcome
    <2>1. loosened
      BY <1>5, <1>10, <1>11
    <2>2. TypeOK'
      BY <1>2, <1>3, <1>4, <1>11 DEF TypeOK
    <2>3. StartsWhole' /\ NothingSkipped'
      BY <1>1, <1>11 DEF StartsWhole, NothingSkipped
    <2>4. RunsThrough'
      BY <1>2, <2>1 DEF RunsThrough
    <2> QED BY <2>2, <2>3, <2>4 DEF AccessInv
  <1>12. CASE /\ ~Visible(s) /\ Refusal(s) # "filtered"
              /\ outcome' = Refusal(s) /\ UNCHANGED <<statements, filtered>>
    <2>1. outcome' \in {"404", "409", "500", "unapplied"}
      BY <1>5, <1>12
    <2>2. TypeOK'
      BY <1>2, <1>3, <1>12, <2>1 DEF TypeOK
    <2>3. StartsWhole' /\ NothingSkipped'
      BY <2>1 DEF StartsWhole, NothingSkipped
    <2>4. ~loosened => Underscoped /\ outcome' = "404"
      BY <1>5, <1>10, <1>12
    <2>5. RunsThrough'
      BY <1>1, <1>2, <1>8, <1>12, <2>4, RequestStays, Zenon DEF RunsThrough
    <2> QED BY <2>2, <2>3, <2>5 DEF AccessInv
  <1> QED BY <1>9, <1>11, <1>12 DEF Execute, s

LEMMA CommitInv ==
    ASSUME AccessInv, Commit
    PROVE  AccessInv'
  <1>1. /\ outcome = "open" /\ statements = <<>> /\ outcome' = "served"
        /\ UNCHANGED request /\ statements' = statements /\ filtered' = filtered
    BY DEF Commit
  <1>2. permissions' = permissions /\ tier' = tier /\ route' = route /\ loosened' = loosened
    BY <1>1 DEF request
  <1>3. TypeOK /\ RunsThrough /\ NothingSkipped
    BY DEF AccessInv
  <1>4. TypeOK'
    BY <1>1, <1>2, <1>3 DEF TypeOK
  <1>5. StartsWhole'
    BY <1>1 DEF StartsWhole
  <1>6. ~Stopped(statements)
    BY <1>1 DEF Stopped, AtBlocker
  <1>7. ~loosened => ~filtered /\ ~Underscoped /\ Complete(statements)
    BY <1>1, <1>3, <1>6 DEF RunsThrough
  <1>8. RunsThrough'
    BY <1>1, <1>2, <1>7, RequestStays, Zenon DEF RunsThrough
  <1>9. Range(statements) = {}
    BY <1>1, NoStatement
  <1>10. NothingSkipped'
    BY <1>1, <1>2, <1>3, <1>9, RequestStays DEF NothingSkipped
  <1> QED BY <1>4, <1>5, <1>8, <1>10 DEF AccessInv

\* The invariant behind the others holds in every reachable state, whatever
\* permission lists there are. (auth/middleware.rs, rls.sql)
THEOREM AccessInvariant == Spec => []AccessInv
  <1>1. ASSUME AccessInv, [Next]_vars
        PROVE  AccessInv'
    <2>1. CASE UNCHANGED vars
      <3>1. UNCHANGED request /\ statements' = statements /\ filtered' = filtered
            /\ outcome' = outcome
        BY <2>1 DEF vars
      <3>2. permissions' = permissions /\ tier' = tier /\ route' = route
            /\ loosened' = loosened
        BY <3>1 DEF request
      <3>3. TypeOK'
        BY <1>1, <3>1, <3>2 DEF AccessInv, TypeOK
      <3>4. StartsWhole'
        BY <1>1, <3>1, <3>2, Zenon DEF AccessInv, StartsWhole
      <3>5. RunsThrough'
        BY <1>1, <3>1, <3>2, RequestStays, Zenon DEF AccessInv, RunsThrough
      <3>6. NothingSkipped'
        BY <1>1, <3>1, <3>2, RequestStays, Zenon DEF AccessInv, NothingSkipped
      <3> QED BY <3>3, <3>4, <3>5, <3>6 DEF AccessInv
    <2> QED BY <1>1, <2>1, AuthorizeInv, ExecuteInv, CommitInv DEF Next
  <1> QED BY <1>1, InitInv, PTL DEF Spec

\* The pre-check and the policies agree on every pair, for the credential of
\* every request. (permissions.rs has_scope, rls.sql has_scope)
THEOREM GrammarsAgree == Spec => []ScopesAgree
  <1>1. AccessInv => ScopesAgree
    BY RequestOrJob, HasScopeAgrees DEF AccessInv, ScopesAgree
  <1> QED BY <1>1, AccessInvariant, PTL

\* No statement of a handler fails, or loses rows, for want of a policy when the
\* middleware admitted the request, and none of a background job for want of a
\* grant. (auth/middleware.rs, rls.sql, the handlers of crates/api/src/routes)
THEOREM AdmittedRunThrough == Spec => []AdmittedIsServed
  <1>1. AccessInv => AdmittedIsServed
    BY Zenon DEF AccessInv, RunsThrough, AdmittedIsServed
  <1> QED BY <1>1, AccessInvariant, PTL

\* Were the middleware loosened, the policies alone would serve no more than it
\* admits, but for the mint route, which runs no statement of a tenant, and for
\* sending and voiding by a collector. (rls.sql)
THEOREM DatabaseStandsAlone == Spec => []DatabaseBackstop
  <1>1. AccessInv => DatabaseBackstop
    <2> SUFFICES ASSUME AccessInv, loosened, outcome = "served", ~filtered
                 PROVE  \/ authorize(route, permissions, tier)
                        \/ route = "POST /auth/tokens"
                        \/ /\ route \in {"POST /invoices/{id}/send",
                                         "POST /invoices/{id}/void"}
                           /\ Holds("payment", "create")
      BY Zenon DEF DatabaseBackstop
    <2>1. tier # "service"
      BY Zenon, RequestOrJob DEF AccessInv
    <2>2. permissions \in SUBSET Scopes /\ tier \in {"standard", "critical"}
          /\ route \in Routes
      BY <2>1, Zenon, RequestOrJob DEF AccessInv
    <2>3. PICK q \in Statements(route) : \A s \in Range(q) : Visible(s)
      BY <2>1, Zenon DEF AccessInv, NothingSkipped
    <2>4. Complete(q)
      BY <2>3, Zenon DEF Complete
    <2> QED BY <2>2, <2>4, RoutesMatch, Zenon DEF Matched
  <1> QED BY <1>1, AccessInvariant, PTL

=============================================================================
