------------------------- MODULE PaymentsLifecycle -------------------------
(* Payments implements InvoiceLifecycle, once for each invoice.            *)
EXTENDS Payments

\* Every invoice row moves only as the transition table allows, with the money
\* the table was asked about.
Lifecycle(i) == INSTANCE InvoiceLifecycle
    WITH TotalCents <- Total[i], state <- invoice[i].state, paid <- invoice[i].paid

ImplementsLifecycle ==
    /\ \A i \in Invoices : Lifecycle(i)!Init
    /\ [][\A i \in Invoices : [Lifecycle(i)!Next]_(Lifecycle(i)!vars)]_vars

=============================================================================
