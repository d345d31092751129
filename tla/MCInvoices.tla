----------------------------- MODULE MCInvoices -----------------------------
(* Invoices on a small instance: i64 has six bits, at most 10 cents can be *)
(* invoiced, and a quantity of 7 is the greatest.                          *)
EXTENDS Invoices, TLC

Line(q, u) == [quantity |-> q, unit_amount |-> u]

MCLines ==
    [i \in Ids |-> IF i = 2 THEN <<Line(1, 1)>> ELSE <<Line(1, 2), Line(3, 0)>>]

MCFilters == {[state |-> None, overdue |-> None],
              [state |-> "sent", overdue |-> None],
              [state |-> None, overdue |-> TRUE]}

MCLine == {Line(q, u) : q \in {-1, 0, 1, 2, 6, 7}, u \in {-1, 0, 1, 3, 5, 9, 10, 11}}

MCDrafts == {<<>>} \cup {<<a>> : a \in MCLine} \cup {<<a, b>> : a, b \in MCLine}
            \cup {<<a, a, b>> : a, b \in MCLine}
=============================================================================
