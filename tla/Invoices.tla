------------------------------ MODULE Invoices ------------------------------
(***************************************************************************)
(* The invoices of one business and the clients that page through them:    *)
(* create, send, void and list of crates/api/src/routes/invoices.rs, and   *)
(* Pagination of routes/models.rs.  customers::list is the same query      *)
(* without filters.  Money arrives from outside, by settle().              *)
(*                                                                         *)
(* created_at is now(), the start of the transaction, so a row may appear  *)
(* behind rows that are newer; the id was drawn before the transaction, so *)
(* the two orders need not agree.  A list is a request per page; each page *)
(* is one SELECT, and anything may commit between two pages.               *)
(***************************************************************************)
EXTENDS Money, FiniteSets

CONSTANTS
    Ids,            \* invoice ids, in the order of UUIDs
    Lines,          \* the line items each create request carries
    PastDue,        \* invoices with due_date < CURRENT_DATE
    Filters,        \* the state and overdue parameters of a list
    Limits,         \* the limit parameters of a list
    DEFAULT_LIMIT, MAX_LIMIT,
    MaxClock,       \* bound on the time at which transactions start
    Drafts,         \* lists of lines to compare the arithmetic on
    None

ASSUME InvoicesAssumption ==
    /\ Ids \subseteq Int /\ IsFiniteSet(Ids) /\ None \notin Ids
    /\ MAX_LIMIT \in Nat /\ DEFAULT_LIMIT \in 1 .. MAX_LIMIT
    /\ Limits \subseteq Int \cup {None}
    /\ MaxClock \in Nat \ {0}
    /\ Lines \in [Ids -> Seq(LineItem)] /\ Drafts \subseteq Seq(LineItem)

VARIABLES
    row,        \* state, amount_paid_cents and created_at (0: no transaction yet)
    clock,
    pager,      \* a client's list: its parameters and how far it has come
    got,        \* how often the client has been sent each invoice
    owed        \* invoices there from the start and not sent yet (history)

table == <<row, clock>>
client == <<pager, got, owed>>
vars == <<table, client>>

Total(i) == total_cents(Lines[i])

\* The row of each invoice is one lifecycle; transition() is its table.
Lifecycle(i) == INSTANCE InvoiceLifecycle
    WITH TotalCents <- Total(i), state <- row[i].state, paid <- row[i].paid

is_collectible(i) == row[i].state \in {"sent", "partially_paid"}

Row == [state : {"absent", "draft", "sent", "partially_paid", "paid", "void"},
        paid : Nat, created : 0 .. MaxClock]

TypeOK ==
    /\ row \in [Ids -> Row]
    /\ clock \in 1 .. MaxClock
    /\ pager \in [at : {"idle", "more", "done"}, filter : Filters \cup {None},
                  limit : 0 .. MAX_LIMIT, cursor : Ids \cup {None}]
    /\ got \in [Ids -> Nat]
    /\ owed \subseteq Ids

Init ==
    /\ row = [i \in Ids |-> [state |-> "absent", paid |-> 0, created |-> 0]]
    /\ clock = 1
    /\ pager = [at |-> "idle", filter |-> None, limit |-> 0, cursor |-> None]
    /\ got = [i \in Ids |-> 0]
    /\ owed = {}

-----------------------------------------------------------------------------
(* What a list asks for *)

overdue(i) == is_collectible(i) /\ i \in PastDue

Matches(i, filter) ==
    /\ row[i].state # "absent"
    /\ filter.state \in {None, row[i].state}
    /\ filter.overdue \in {None, overdue(i)}

\* ORDER BY created_at DESC, id DESC
Newer(i, j) ==
    \/ row[i].created > row[j].created
    \/ row[i].created = row[j].created /\ i > j

\* Mutant of Older: the cursor compares created_at alone.
Older_byTime(i, cursor) == cursor = None \/ row[i].created < row[cursor].created

\* (created_at, id) < (those of the cursor), whatever state it is in by now.
Older(i, cursor) == cursor = None \/ Newer(cursor, i)

\* Mutant of clamp: the limit is taken as it is.
clamp_zero(n) == IF n > MAX_LIMIT THEN MAX_LIMIT ELSE n

\* Mutant of clamp: no upper end.
clamp_open(n) == IF n < 1 THEN 1 ELSE n

clamp(n) == IF n < 1 THEN 1 ELSE IF n > MAX_LIMIT THEN MAX_LIMIT ELSE n

limit(asked) == IF asked = None THEN DEFAULT_LIMIT ELSE clamp(asked)

\* ORDER BY ... LIMIT n, of the rows S
Newest(S, n) == {i \in S : Cardinality({j \in S : Newer(j, i)}) < n}

Oldest(S) == CHOOSE i \in S : \A j \in S \ {i} : Newer(j, i)

-----------------------------------------------------------------------------
(* Writers *)

\* The total is computed before the transaction; a refused request leaves
\* nothing. Transactions start in the order of the clock, several at a time.
begin(i) ==
    /\ row[i].created = 0
    /\ Total(i) # Err
    /\ \E t \in {clock, clock + 1} \cap 1 .. MaxClock :
          /\ clock' = t
          /\ row' = [row EXCEPT ![i].created = t]
    /\ UNCHANGED client

\* The row changes, and may leave what the client is paging through.
Write(i, state, paid) ==
    /\ row' = [row EXCEPT ![i] = [@ EXCEPT !.state = state, !.paid = paid]]
    /\ UNCHANGED <<clock, pager, got>>
    /\ owed' = {j \in owed : Matches(j, pager.filter)'}

create(i) ==
    /\ row[i].created > 0
    /\ row[i].state = "absent"
    /\ Write(i, "draft", 0)

Take(i, event, paid) ==
    LET to == Lifecycle(i)!transition(row[i].state, event) IN
    /\ row[i].state # "absent"
    /\ to # "invalid"
    /\ Write(i, to, paid)

send(i) == Take(i, Lifecycle(i)!SendEvent, row[i].paid)

void(i) == row[i].paid = 0 /\ Take(i, Lifecycle(i)!VoidEvent, row[i].paid)

\* The UPDATE of settle(), with any part of what is owed. pay() always charges
\* all of it; the table and the CHECKs are made for parts as well.
settle(i, amount) ==
    /\ is_collectible(i)
    /\ Take(i, Lifecycle(i)!PaymentSettled(row[i].paid + amount), row[i].paid + amount)

-----------------------------------------------------------------------------
(* GET /invoices, a page at a time *)

\* LIMIT limit + 1 tells whether there is more; the extra row is not sent.
Page(filter, n, cursor, due) ==
    LET rows == Newest({i \in Ids : Matches(i, filter) /\ Older(i, cursor)}, n + 1)
        data == Newest(rows, n)
    IN
    /\ pager' = [at |-> IF Cardinality(rows) > n THEN "more" ELSE "done",
                 filter |-> filter, limit |-> n,
                 cursor |-> IF data = {} THEN cursor ELSE Oldest(data)]
    /\ got' = [i \in Ids |-> got[i] + IF i \in data THEN 1 ELSE 0]
    /\ owed' = due \ data
    /\ UNCHANGED table

list(filter, asked) ==
    /\ pager.at = "idle"
    /\ Page(filter, limit(asked), None, {i \in Ids : Matches(i, filter)})

\* The client passes the last id of the page before.
list_after ==
    /\ pager.at = "more"
    /\ Page(pager.filter, pager.limit, pager.cursor, owed)

Next ==
    \/ \E i \in Ids :
          \/ begin(i) \/ create(i) \/ send(i) \/ void(i)
          \/ \E amount \in 1 .. remaining(Total(i), row[i].paid) : settle(i, amount)
    \/ \E filter \in Filters, asked \in Limits : list(filter, asked)
    \/ list_after

Spec == Init /\ [][Next]_vars

\* A client that wants all pages keeps asking.
FairSpec == Spec /\ WF_vars(list_after)

-----------------------------------------------------------------------------
(* The rows the handlers can write: the inductive invariant behind         *)
(* ChecksHold and CollectibleMeansOwed.                                    *)

RowOK(i) ==
    LET r == row[i] IN
    /\ r.state = "absent" => r.paid = 0
    /\ r.state # "absent" => r.created > 0
    /\ r.created > 0 => Total(i) # Err
    /\ r.state \in {"draft", "sent", "void"} => r.paid = 0
    /\ r.state = "partially_paid" => 0 < r.paid /\ r.paid < Total(i)
    /\ r.state = "paid" => r.paid = Total(i)

RowInv ==
    /\ row \in [Ids -> Row]
    /\ clock \in 1 .. MaxClock
    /\ \A i \in Ids : RowOK(i)

\* What a client has been sent is not older than its cursor, and what it is owed
\* is: the inductive invariant behind ListedOnce.
Passed(i) == pager.cursor # None /\ (i = pager.cursor \/ Newer(i, pager.cursor))

PageInv ==
    /\ pager.at = "idle" =>
          pager.cursor = None /\ owed = {} /\ \A i \in Ids : got[i] = 0
    /\ pager.at = "done" => owed = {}
    /\ pager.cursor # None => row[pager.cursor].created > 0
    /\ \A i \in Ids : got[i] > 0 => got[i] = 1 /\ row[i].created > 0 /\ Passed(i)
    /\ \A i \in owed : Matches(i, pager.filter) /\ Older(i, pager.cursor)

-----------------------------------------------------------------------------
(* Properties *)

\* A client that follows has_more to the end has been sent every invoice that
\* was there and matched all along, and none of them twice, though invoices
\* were created, sent, paid and voided between its pages, the row of its
\* cursor included, with equal or out-of-order timestamps.
\* (the keyset comparison and has_more of list())
ListedOnce ==
    /\ \A i \in Ids : got[i] <= 1
    /\ pager.at = "done" => owed = {}

\* The pages come to an end, for every limit a client may ask for.
ListEnds == pager.at = "more" ~> pager.at = "done"

\* No row that the handlers write, in any order, breaks a CHECK constraint of
\* the table: "paid" is paid in full, a void invoice holds no money, and the
\* amount is in range. (transition(), the constraints invoices_paid_is_settled,
\* invoices_void_is_clean and invoices_amount_paid_range)
ChecksHold ==
    \A i \in Ids : row[i].state # "absent" => Lifecycle(i)!ChecksHold

\* An invoice can be collected only while something is owed on it, so that what
\* pay() would charge for it, the remaining balance, is never zero or less.
\* (transition() and the CASE of settle(), which close an invoice with the cent
\* that settles it; remaining())
CollectibleMeansOwed == \A i \in Ids : Lifecycle(i)!CollectibleMeansOwed

ArithmeticIsExact ==
    \A lines \in Drafts :
        total_cents(lines) = IF Acceptable(lines) THEN Exact(lines) ELSE Err

\* The total of every invoice in the table is the exact sum of its lines, and a
\* request is refused exactly when its lines are malformed or that sum is out
\* of range: no product or sum that overflows comes out as a plausible amount.
\* (money.rs, the line items of create())
TotalsAreExact ==
    /\ ArithmeticIsExact
    /\ \A i \in Ids : row[i].state # "absent" => Total(i) = Exact(Lines[i])

=============================================================================
