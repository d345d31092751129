------------------------------- MODULE Money -------------------------------
(***************************************************************************)
(* Amounts as crates/api/src/domain/money.rs computes them, in integers    *)
(* of a bounded width, and the total that create()                         *)
(* (crates/api/src/routes/invoices.rs) makes of the lines it is sent.      *)
(***************************************************************************)
EXTENDS Integers, Sequences

CONSTANTS
    MaxI64,             \* i64::MAX
    MAX_AMOUNT_CENTS,
    MaxLines,           \* 500
    Err                 \* the request is refused with 400

ASSUME MoneyAssumption ==
    /\ MAX_AMOUNT_CENTS \in Nat
    /\ MaxI64 \in Nat /\ MAX_AMOUNT_CENTS < MaxI64
    /\ MaxLines \in Nat
    /\ Err \notin Int

\* Mutant of checked: two's complement wraps silently.
checked_wraps(n) ==
    LET m == n % (2 * (MaxI64 + 1)) IN
    IF m <= MaxI64 THEN m ELSE m - 2 * (MaxI64 + 1)

\* A result that does not fit is None; operands here are never negative.
checked(n) == IF n <= MaxI64 THEN n ELSE Err

capped(n) == IF n # Err /\ n <= MAX_AMOUNT_CENTS THEN n ELSE Err

line_amount(quantity, unit_amount) ==
    IF quantity <= 0 \/ unit_amount < 0 \/ unit_amount > MAX_AMOUNT_CENTS
    THEN Err
    ELSE capped(checked(quantity * unit_amount))

\* The first amount that is refused, or takes the sum too far, ends the loop.
plus(total, amount) ==
    IF total = Err \/ amount = Err THEN Err ELSE capped(checked(total + amount))

\* The sums of the first lines of amounts.
Partial(amounts) ==
    LET total[n \in 0 .. Len(amounts)] ==
            IF n = 0 THEN 0 ELSE plus(total[n - 1], amounts[n])
    IN total

sum_amounts(amounts) == Partial(amounts)[Len(amounts)]

LineItem == [quantity : Int, unit_amount : Int]

Amounts(lines) ==
    [n \in 1 .. Len(lines) |-> line_amount(lines[n].quantity, lines[n].unit_amount)]

\* The total of an invoice with these lines; an invoice for nothing is refused.
total_cents(lines) ==
    LET total == sum_amounts(Amounts(lines)) IN
    IF Len(lines) \in 1 .. MaxLines /\ total # Err /\ total # 0 THEN total ELSE Err

remaining(total, paid) == IF paid >= total THEN 0 ELSE total - paid

-----------------------------------------------------------------------------
(* Reference: the same in unbounded arithmetic, with one limit at the end. *)

Product(line) == line.quantity * line.unit_amount

ExactPartial(lines) ==
    LET sum[n \in 0 .. Len(lines)] ==
            IF n = 0 THEN 0 ELSE sum[n - 1] + Product(lines[n])
    IN sum

Exact(lines) == ExactPartial(lines)[Len(lines)]

Acceptable(lines) ==
    /\ Len(lines) \in 1 .. MaxLines
    /\ \A n \in 1 .. Len(lines) : lines[n].quantity > 0 /\ lines[n].unit_amount >= 0
    /\ Exact(lines) \in 1 .. MAX_AMOUNT_CENTS

=============================================================================
