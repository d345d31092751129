-------------------------- MODULE InvoiceLifecycle --------------------------
(***************************************************************************)
(* What the service promises of one invoice: the transition table of       *)
(* crates/api/src/domain/state_machine.rs and the CHECK constraints of     *)
(* migrations/0002_schema.sql.  Payments implements it for each invoice;   *)
(* Invoices takes its table for the rows it writes.                        *)
(***************************************************************************)
EXTENDS Integers

\* Positive: create() refuses an invoice for nothing.
CONSTANT TotalCents

VARIABLES state, paid

vars == <<state, paid>>

is_collectible(s) == s \in {"sent", "partially_paid"}

\* Events carry what the table looks at: the amount that would be paid in
\* all, and whether a refund is complete.
SendEvent == [name |-> "send"]
VoidEvent == [name |-> "void"]
PaymentSettled(amount) == [name |-> "pay", amount_paid |-> amount]
RefundSettled(full) == [name |-> "refund", fully_refunded |-> full]

\* Mutant of transition: the comparison with the total is strict.
transition_strict(from, e) ==
    CASE e.name = "send" /\ from = "draft" -> "sent"
      [] e.name = "void" /\ from \in {"draft", "sent"} -> "void"
      [] e.name = "pay" /\ is_collectible(from) ->
            IF e.amount_paid > TotalCents THEN "paid" ELSE "partially_paid"
      [] OTHER -> "invalid"

\* Mutant of transition: any payment closes the invoice.
transition_any_pays(from, e) ==
    CASE e.name = "send" /\ from = "draft" -> "sent"
      [] e.name = "void" /\ from \in {"draft", "sent"} -> "void"
      [] e.name = "pay" /\ is_collectible(from) -> "paid"
      [] OTHER -> "invalid"

transition(from, e) ==
    CASE e.name = "send" /\ from = "draft" -> "sent"
      [] e.name = "void" /\ from \in {"draft", "sent"} -> "void"
      [] e.name = "pay" /\ is_collectible(from) ->
            IF e.amount_paid >= TotalCents THEN "paid" ELSE "partially_paid"
      [] e.name = "refund" /\ from \in {"paid", "partially_paid"} ->
            IF e.fully_refunded THEN "refunded" ELSE "partially_paid"
      [] OTHER -> "invalid"

Take(e) ==
    /\ transition(state, e) # "invalid"
    /\ state' = transition(state, e)

-----------------------------------------------------------------------------
(* The lifecycle of a row: the events that have an endpoint or a settler.  *)

Init == state = "absent" /\ paid = 0

Create == state = "absent" /\ state' = "draft" /\ UNCHANGED paid

Send == state # "absent" /\ Take(SendEvent) /\ UNCHANGED paid

Void == state # "absent" /\ Take(VoidEvent) /\ UNCHANGED paid

\* Any part of what is owed; the service itself always charges all of it.
Pay ==
    \E amount \in 1 .. TotalCents - paid :
        /\ Take(PaymentSettled(paid + amount))
        /\ paid' = paid + amount

Next == Create \/ Send \/ Void \/ Pay

Spec == Init /\ [][Next]_vars

-----------------------------------------------------------------------------
(* Properties *)

\* The CHECK constraints hold of every row the table can produce, so no
\* transaction that follows the table is refused by the database: the amount
\* is in range, "paid" means paid in full, and a void invoice holds no money.
ChecksHold ==
    /\ paid \in 0 .. TotalCents
    /\ state = "paid" => paid = TotalCents
    /\ state = "void" => paid = 0

\* An invoice is collectible only while something is owed on it: no payment is
\* accepted when nothing is due.  The converse does not hold: a draft or a void
\* invoice is unpaid and takes no payment. (transition(), remaining())
CollectibleMeansOwed == is_collectible(state) => paid < TotalCents
=============================================================================
