--------------------------- MODULE InvoicesProofs ---------------------------
(***************************************************************************)
(* Proofs about Invoices: its arithmetic is exact or refuses; whatever the *)
(* order of the handlers, every write follows the transition table, and no *)
(* row breaks a CHECK constraint; and a client that follows has_more       *)
(* misses nothing.                                                         *)
(***************************************************************************)
EXTENDS Invoices, FiniteSetTheorems, WellFoundedInduction, TLAPS

-----------------------------------------------------------------------------
(* Minima.  A least counterexample takes the place of induction: it needs  *)
(* no theorem with an operator for its parameter.                          *)

\* Of finitely many sets, one contains no other.
LEMMA SmallestSet ==
    ASSUME NEW S, IsFiniteSet(S), NEW F, F \subseteq SUBSET S, F # {}
    PROVE  \E X \in F : \A Y \in F : Y \subseteq X => Y = X
<1>1. F \subseteq FiniteSubsetsOf(S)
  BY FS_Subset DEF FiniteSubsetsOf
<1>2. PICK X \in F : \A Y \in F : <<Y, X>> \notin StrictSubsetOrdering(S)
  BY <1>1, FS_StrictSubsetOrderingWellFounded, WFMin
<1>3. ASSUME NEW Y \in F, Y \subseteq X PROVE Y = X
  <2>1. <<Y, X>> \notin StrictSubsetOrdering(S) /\ <<Y, X>> \in (SUBSET S) \X (SUBSET S)
    BY <1>2
  <2> QED BY <1>3, <2>1 DEF StrictSubsetOrdering
<1> QED BY <1>3

\* A set of numbers has a least one.
LEMMA LeastNumber ==
    ASSUME NEW T, T \subseteq Nat, T # {}
    PROVE  \E m \in T : \A k \in T : m <= k
<1>1. PICK b \in T : TRUE
  OBVIOUS
<1> DEFINE B == 0 .. b
           F == {0 .. k : k \in {n \in T : n <= b}}
<1>2. IsFiniteSet(B)
  BY FS_Interval
<1>6. F # {}
  BY <1>1
<1>7. F \subseteq SUBSET B
  OBVIOUS
<1> HIDE DEF F, B
<1>3. PICK X \in F : \A Y \in F : Y \subseteq X => Y = X
  BY <1>2, <1>6, <1>7, SmallestSet
<1>4. PICK m \in T : m <= b /\ X = 0 .. m
  BY <1>3 DEF F
<1>5. ASSUME NEW k \in T, k < m PROVE FALSE
  <2>1. 0 .. k \in F
    BY <1>4, <1>5 DEF F
  <2>2. 0 .. k \subseteq 0 .. m /\ m \in 0 .. m /\ m \notin 0 .. k
    BY <1>5
  <2> QED BY <1>3, <1>4, <2>1, <2>2
<1> QED BY <1>5

-----------------------------------------------------------------------------
(* Sums.                                                                   *)

\* The running total of a loop is well defined.
LEMMA PartialExists ==
    ASSUME NEW amounts, Len(amounts) \in Nat
    PROVE  Partial(amounts) =
              [n \in 0 .. Len(amounts) |->
                  IF n = 0 THEN 0 ELSE plus(Partial(amounts)[n - 1], amounts[n])]
<1> DEFINE L == Len(amounts)
           IsSum(g, m) == g = [n \in 0 .. m |->
                                  IF n = 0 THEN 0 ELSE plus(g[n - 1], amounts[n])]
           T == {m \in 0 .. L : ~\E g : IsSum(g, m)}
<1>1. SUFFICES \E g : IsSum(g, L)
  BY DEF Partial
<1>2. SUFFICES ASSUME T # {} PROVE FALSE
  OBVIOUS
<1>3. PICK m \in T : \A k \in T : m <= k
  <2>1. T \subseteq Nat
    OBVIOUS
  <2> HIDE DEF T
  <2> QED BY <1>2, <2>1, LeastNumber
<1>4. CASE m = 0
  <2>1. IsSum([n \in 0 .. 0 |-> 0], 0)
    OBVIOUS
  <2> QED BY <1>3, <1>4, <2>1
<1>5. CASE m # 0
  <2>1. m - 1 \in 0 .. L /\ m - 1 \notin T
    <3>1. m \in 0 .. L
      OBVIOUS
    <3> HIDE DEF T
    <3> QED BY <1>3, <1>5, <3>1
  <2>2. PICK g : IsSum(g, m - 1)
    BY <2>1
  <2> DEFINE h == [n \in 0 .. m |-> IF n = m THEN plus(g[m - 1], amounts[m]) ELSE g[n]]
  <2>3. ASSUME NEW n \in 0 .. m
        PROVE  h[n] = IF n = 0 THEN 0 ELSE plus(h[n - 1], amounts[n])
    <3>1. CASE n = m
      BY <1>5, <3>1
    <3>2. CASE n # m
      <4>1. n \in 0 .. m - 1 /\ h[n] = g[n]
        BY <3>2
      <4>2. g[n] = IF n = 0 THEN 0 ELSE plus(g[n - 1], amounts[n])
        BY <2>2, <4>1
      <4>3. n # 0 => h[n - 1] = g[n - 1]
        BY <3>2
      <4> QED BY <4>1, <4>2, <4>3
    <3> QED BY <3>1, <3>2
  <2>4. IsSum(h, m)
    BY <2>3
  <2> QED BY <1>3, <2>4
<1> QED BY <1>4, <1>5

\* So is the exact one.
LEMMA ExactPartialExists ==
    ASSUME NEW lines, Len(lines) \in Nat
    PROVE  ExactPartial(lines) =
              [n \in 0 .. Len(lines) |->
                  IF n = 0 THEN 0 ELSE ExactPartial(lines)[n - 1] + Product(lines[n])]
<1> DEFINE L == Len(lines)
           IsSum(g, m) == g = [n \in 0 .. m |->
                                  IF n = 0 THEN 0 ELSE g[n - 1] + Product(lines[n])]
           T == {m \in 0 .. L : ~\E g : IsSum(g, m)}
<1>1. SUFFICES \E g : IsSum(g, L)
  BY DEF ExactPartial
<1>2. SUFFICES ASSUME T # {} PROVE FALSE
  OBVIOUS
<1>3. PICK m \in T : \A k \in T : m <= k
  <2>1. T \subseteq Nat
    OBVIOUS
  <2> HIDE DEF T
  <2> QED BY <1>2, <2>1, LeastNumber
<1>4. CASE m = 0
  <2>1. IsSum([n \in 0 .. 0 |-> 0], 0)
    OBVIOUS
  <2> QED BY <1>3, <1>4, <2>1
<1>5. CASE m # 0
  <2>1. m - 1 \in 0 .. L /\ m - 1 \notin T
    <3>1. m \in 0 .. L
      OBVIOUS
    <3> HIDE DEF T
    <3> QED BY <1>3, <1>5, <3>1
  <2>2. PICK g : IsSum(g, m - 1)
    BY <2>1
  <2> DEFINE h == [n \in 0 .. m |-> IF n = m THEN g[m - 1] + Product(lines[m]) ELSE g[n]]
  <2>3. ASSUME NEW n \in 0 .. m
        PROVE  h[n] = IF n = 0 THEN 0 ELSE h[n - 1] + Product(lines[n])
    <3>1. CASE n = m
      BY <1>5, <3>1
    <3>2. CASE n # m
      <4>1. n \in 0 .. m - 1 /\ h[n] = g[n]
        BY <3>2
      <4>2. g[n] = IF n = 0 THEN 0 ELSE g[n - 1] + Product(lines[n])
        BY <2>2, <4>1
      <4>3. n # 0 => h[n - 1] = g[n - 1]
        BY <3>2
      <4> QED BY <4>1, <4>2, <4>3
    <3> QED BY <3>1, <3>2
  <2>4. IsSum(h, m)
    BY <2>3
  <2> QED BY <1>3, <2>4
<1> QED BY <1>4, <1>5

WellFormed(line) == line.quantity > 0 /\ line.unit_amount >= 0

LEMMA ProductType ==
    ASSUME NEW line \in LineItem
    PROVE  /\ Product(line) \in Int
           /\ WellFormed(line) => Product(line) >= 0 /\ line.unit_amount <= Product(line)
<1>1. line.quantity \in Int /\ line.unit_amount \in Int
  BY DEF LineItem
<1>2. \A q, u \in Int : q > 0 /\ u >= 0 => q * u >= 0 /\ u <= q * u
  OBVIOUS
<1> QED BY <1>1, <1>2 DEF Product, WellFormed

\* The amount of a line is exact, or refused because the line is malformed or
\* its amount alone is too large.
LEMMA LineAmountIsExact ==
    ASSUME NEW line \in LineItem
    PROVE  line_amount(line.quantity, line.unit_amount) =
              IF WellFormed(line) /\ Product(line) <= MAX_AMOUNT_CENTS THEN Product(line) ELSE Err
<1>1. line.quantity \in Int /\ line.unit_amount \in Int
  BY DEF LineItem
<1>2. \A p \in Int : capped(checked(p)) = IF p <= MAX_AMOUNT_CENTS THEN p ELSE Err
  BY MoneyAssumption DEF capped, checked
<1>3. CASE ~WellFormed(line)
  BY <1>1, <1>3 DEF WellFormed, line_amount
<1>4. CASE WellFormed(line)
  <2>1. /\ Product(line) \in Int /\ line.unit_amount <= Product(line)
        /\ line.quantity > 0 /\ line.unit_amount >= 0
    BY <1>4, ProductType DEF WellFormed
  <2>2. line_amount(line.quantity, line.unit_amount) =
           IF line.unit_amount > MAX_AMOUNT_CENTS THEN Err ELSE capped(checked(Product(line)))
    BY <1>1, <2>1 DEF line_amount, Product
  <2> HIDE DEF Product
  <2> QED BY <1>1, <1>2, <1>4, <2>1, <2>2, MoneyAssumption
<1> QED BY <1>3, <1>4

\* Up to line n, the running total is the exact one, or refused because a line
\* was malformed or the exact total passed the limit.
SumIsRight(lines, n) ==
    LET good == \A k \in 1 .. n : WellFormed(lines[k])
        sum == ExactPartial(lines)[n]
    IN /\ sum \in Int /\ (good => sum >= 0)
       /\ Partial(Amounts(lines))[n] =
             IF good /\ sum <= MAX_AMOUNT_CENTS THEN sum ELSE Err

\* It is, for sums only grow.
LEMMA PartialIsExact ==
    ASSUME NEW lines \in Seq(LineItem)
    PROVE  \A n \in 0 .. Len(lines) : SumIsRight(lines, n)
<1> DEFINE L == Len(lines)
           good(n) == \A k \in 1 .. n : WellFormed(lines[k])
           t == Partial(Amounts(lines))
           s == ExactPartial(lines)
           Right(n) == /\ s[n] \in Int /\ (good(n) => s[n] >= 0)
                       /\ t[n] = IF good(n) /\ s[n] <= MAX_AMOUNT_CENTS THEN s[n] ELSE Err
           T == {n \in 0 .. L : ~Right(n)}
<1>1. L \in Nat /\ \A n \in 1 .. L : lines[n] \in LineItem
  OBVIOUS
<1>2. Len(Amounts(lines)) = L
  BY <1>1 DEF Amounts
<1>3. \A n \in 1 .. L :
         Amounts(lines)[n] =
            IF WellFormed(lines[n]) /\ Product(lines[n]) <= MAX_AMOUNT_CENTS
            THEN Product(lines[n]) ELSE Err
  BY <1>1, LineAmountIsExact DEF Amounts
<1>4. \A n \in 0 .. L : t[n] = IF n = 0 THEN 0 ELSE plus(t[n - 1], Amounts(lines)[n])
  BY <1>1, <1>2, PartialExists
<1>5. \A n \in 0 .. L : s[n] = IF n = 0 THEN 0 ELSE s[n - 1] + Product(lines[n])
  BY <1>1, ExactPartialExists
<1> HIDE DEF t, s
<1>6. SUFFICES ASSUME T # {} PROVE FALSE
  BY DEF SumIsRight, t, s
<1>7. PICK n \in T : \A k \in T : n <= k
  <2>1. T \subseteq Nat
    OBVIOUS
  <2> HIDE DEF T
  <2> QED BY <1>6, <2>1, LeastNumber
<1>8. CASE n = 0
  <2>1. t[0] = 0 /\ s[0] = 0
    BY <1>1, <1>4, <1>5
  <2> QED BY <1>7, <1>8, <2>1, MoneyAssumption
<1>9. CASE n # 0
  <2>1. n \in 1 .. L /\ n - 1 \in 0 .. L /\ n - 1 \notin T
    <3>1. n \in 0 .. L
      OBVIOUS
    <3> HIDE DEF T
    <3> QED BY <1>1, <1>7, <1>9, <3>1
  <2>10. Right(n - 1)
    BY <2>1
  <2>2. PICK p \in Int : p = Product(lines[n]) /\ (WellFormed(lines[n]) => p >= 0)
    BY <1>1, <2>1, ProductType
  <2>3. s[n] = s[n - 1] + p
    BY <1>5, <2>1, <2>2
  <2>4. t[n] = plus(t[n - 1], IF WellFormed(lines[n]) /\ p <= MAX_AMOUNT_CENTS THEN p ELSE Err)
    BY <1>3, <1>4, <2>1, <2>2
  <2>5. good(n) <=> good(n - 1) /\ WellFormed(lines[n])
    BY <2>1
  <2> HIDE DEF good, T
  <2>6. /\ s[n] \in Int /\ (good(n) => s[n] >= 0)
        /\ \A x \in Int : capped(checked(x)) = IF x <= MAX_AMOUNT_CENTS THEN x ELSE Err
    BY <2>2, <2>3, <2>5, <2>10, MoneyAssumption DEF capped, checked
  <2>7. ASSUME good(n) PROVE Right(n)
    <3>1. /\ WellFormed(lines[n]) /\ s[n - 1] >= 0 /\ p >= 0
          /\ t[n - 1] = IF s[n - 1] <= MAX_AMOUNT_CENTS THEN s[n - 1] ELSE Err
      BY <2>2, <2>5, <2>7, <2>10
    <3>2. CASE s[n - 1] <= MAX_AMOUNT_CENTS /\ p <= MAX_AMOUNT_CENTS
      BY <2>2, <2>3, <2>4, <2>6, <2>7, <2>10, <3>1, <3>2, MoneyAssumption DEF plus
    <3>3. CASE ~(s[n - 1] <= MAX_AMOUNT_CENTS /\ p <= MAX_AMOUNT_CENTS)
      <4>1. t[n] = Err
        BY <2>4, <3>1, <3>3 DEF plus
      <4>2. ~(s[n] <= MAX_AMOUNT_CENTS)
        BY <2>2, <2>3, <2>10, <3>1, <3>3, MoneyAssumption
      <4> QED BY <2>6, <4>1, <4>2
    <3> QED BY <3>2, <3>3
  <2>8. ASSUME ~good(n) PROVE Right(n)
    <3>1. t[n] = Err
      BY <2>4, <2>5, <2>8, <2>10 DEF plus
    <3> QED BY <2>6, <2>8, <3>1
  <2>9. Right(n)
    BY <2>7, <2>8
  <2> USE DEF T
  <2> QED BY <1>7, <2>9
<1> QED BY <1>8, <1>9

\* For every list of lines, limits and width of the integers, the total is the
\* exact sum, and a request is refused exactly when its lines are malformed or
\* that sum is out of range. (line_amount, sum_amounts, create())
THEOREM TotalIsExact ==
    ASSUME NEW lines \in Seq(LineItem)
    PROVE  total_cents(lines) = IF Acceptable(lines) THEN Exact(lines) ELSE Err
<1> DEFINE good == \A k \in 1 .. Len(lines) : WellFormed(lines[k])
           sum == Exact(lines)
<1>1. /\ sum \in Int /\ (good => sum >= 0)
      /\ Partial(Amounts(lines))[Len(lines)] =
            IF good /\ sum <= MAX_AMOUNT_CENTS THEN sum ELSE Err
  <2>1. Len(lines) \in 0 .. Len(lines)
    OBVIOUS
  <2>2. SumIsRight(lines, Len(lines))
    BY <2>1, PartialIsExact
  <2> QED BY <2>2 DEF SumIsRight, Exact
<1>2. Len(Amounts(lines)) = Len(lines)
  BY DEF Amounts
<1>3. total_cents(lines) =
         LET total == IF good /\ sum <= MAX_AMOUNT_CENTS THEN sum ELSE Err IN
         IF Len(lines) \in 1 .. MaxLines /\ total # Err /\ total # 0 THEN total ELSE Err
  BY <1>1, <1>2 DEF total_cents, sum_amounts
<1>4. Acceptable(lines) <=> /\ Len(lines) \in 1 .. MaxLines /\ good
                            /\ sum \in 1 .. MAX_AMOUNT_CENTS
  BY DEF Acceptable, WellFormed
<1>5. sum \in Int /\ (good => sum >= 0) /\ Err \notin Int /\ MAX_AMOUNT_CENTS \in Nat
  BY <1>1, MoneyAssumption
<1> HIDE DEF good, sum
<1>6. total_cents(lines) = IF Acceptable(lines) THEN sum ELSE Err
  <2>1. CASE good /\ sum <= MAX_AMOUNT_CENTS
    <3>1. total_cents(lines) =
             IF Len(lines) \in 1 .. MaxLines /\ sum # Err /\ sum # 0 THEN sum ELSE Err
      BY <1>3, <2>1
    <3>2. (sum # Err /\ sum # 0) <=> sum \in 1 .. MAX_AMOUNT_CENTS
      BY <1>5, <2>1
    <3> QED BY <1>4, <2>1, <3>1, <3>2
  <2>2. CASE ~(good /\ sum <= MAX_AMOUNT_CENTS)
    BY <1>3, <1>4, <1>5, <2>2
  <2> QED BY <2>1, <2>2
<1> QED BY <1>6 DEF sum

-----------------------------------------------------------------------------
(* The rows.                                                               *)

LEMMA RowInit == Init => RowInv
BY InvoicesAssumption DEF Init, RowInv, RowOK, Row

LEMMA TotalType ==
    ASSUME NEW i \in Ids, Total(i) # Err PROVE Total(i) \in Nat /\ Total(i) > 0
BY TotalIsExact, InvoicesAssumption, MoneyAssumption DEF Total, Acceptable

\* What a step does to the rows: nothing, or one handler's one row.
Started(i) ==
    /\ row[i].created = 0 /\ Total(i) # Err
    /\ \E t \in 1 .. MaxClock : row' = [row EXCEPT ![i].created = t]

Moved(i, to, paid) ==
    row' = [row EXCEPT ![i] = [@ EXCEPT !.state = to, !.paid = paid]]

Created(i) == row[i].created > 0 /\ row[i].state = "absent" /\ Moved(i, "draft", 0)

Sent(i) == row[i].state = "draft" /\ Moved(i, "sent", row[i].paid)

Voided(i) ==
    row[i].state \in {"draft", "sent"} /\ row[i].paid = 0 /\ Moved(i, "void", row[i].paid)

Paid(i) ==
    /\ is_collectible(i)
    /\ \E amount \in 1 .. remaining(Total(i), row[i].paid) :
          LET paid == row[i].paid + amount IN
          Moved(i, IF paid >= Total(i) THEN "paid" ELSE "partially_paid", paid)

RowStep ==
    \/ row' = row
    \/ \E i \in Ids : Started(i) \/ Created(i) \/ Sent(i) \/ Voided(i) \/ Paid(i)

LEMMA SendStep == ASSUME NEW i \in Ids, send(i) PROVE Sent(i)
BY DEF send, Take, Write, Moved, Sent, Lifecycle!transition, Lifecycle!SendEvent,
       Lifecycle!is_collectible

LEMMA VoidStep == ASSUME NEW i \in Ids, void(i) PROVE Voided(i)
BY DEF void, Take, Write, Moved, Voided, Lifecycle!transition, Lifecycle!VoidEvent,
       Lifecycle!is_collectible

LEMMA SettleStep ==
    ASSUME NEW i \in Ids, NEW amount \in 1 .. remaining(Total(i), row[i].paid), settle(i, amount)
    PROVE  Paid(i)
BY DEF settle, Take, Write, Moved, Paid, is_collectible, Lifecycle!transition,
       Lifecycle!PaymentSettled, Lifecycle!is_collectible

LEMMA NextRowStep == RowInv /\ [Next]_vars => RowStep
<1> SUFFICES ASSUME RowInv, [Next]_vars PROVE RowStep
  OBVIOUS
<1>1. ASSUME NEW i \in Ids, begin(i) PROVE Started(i)
  BY <1>1 DEF begin, Started
<1>2. ASSUME NEW i \in Ids, create(i) PROVE Created(i)
  BY <1>2 DEF create, Created, Write, Moved
<1>3. ASSUME NEW filter \in Filters, NEW asked \in Limits, list(filter, asked)
      PROVE  row' = row
  BY <1>3 DEF list, Page, table
<1>4. list_after => row' = row
  BY DEF list_after, Page, table
<1>5. UNCHANGED vars => row' = row
  BY DEF vars, table
<1> QED BY <1>1, <1>2, <1>3, <1>4, <1>5, SendStep, VoidStep, SettleStep DEF Next, RowStep

\* The row after a write.
LEMMA MovedRow ==
    ASSUME row \in [Ids -> Row], NEW i \in Ids, NEW to, NEW paid, Moved(i, to, paid)
    PROVE  /\ row'[i].state = to /\ row'[i].paid = paid /\ row'[i].created = row[i].created
           /\ \A j \in Ids \ {i} : row'[j] = row[j]
BY DEF Moved, Row

LEMMA MovedType ==
    ASSUME row \in [Ids -> Row], NEW i \in Ids,
           NEW to \in {"absent", "draft", "sent", "partially_paid", "paid", "void"},
           NEW paid \in Nat, Moved(i, to, paid)
    PROVE  row' \in [Ids -> Row]
BY DEF Moved, Row

\* A payment of part of what is owed leaves something owed; of all of it, nothing.
LEMMA PaidRow ==
    ASSUME RowInv, NEW i \in Ids, Paid(i)
    PROVE  \E paid \in Nat :
              /\ row[i].paid < paid /\ paid <= Total(i) /\ Total(i) # Err
              /\ Moved(i, IF paid = Total(i) THEN "paid" ELSE "partially_paid", paid)
<1>1. /\ row[i].paid \in Nat /\ row[i].state # "absent" /\ row[i].created > 0
      /\ row[i].state \in {"sent", "partially_paid"} /\ Total(i) # Err
  BY DEF RowInv, RowOK, Row, Paid, is_collectible
<1>2. Total(i) \in Nat /\ Total(i) > 0
  BY <1>1, TotalType
<1>3. PICK amount \in 1 .. remaining(Total(i), row[i].paid) :
         LET paid == row[i].paid + amount IN
         Moved(i, IF paid >= Total(i) THEN "paid" ELSE "partially_paid", paid)
  BY DEF Paid
<1>4. amount \in Nat /\ 0 < amount /\ row[i].paid + amount <= Total(i)
  BY <1>1, <1>2, <1>3 DEF remaining
<1>5. PICK paid \in Nat : paid = row[i].paid + amount
  BY <1>1, <1>4
<1>6. row[i].paid < paid /\ paid <= Total(i) /\ (paid >= Total(i) <=> paid = Total(i))
  BY <1>1, <1>2, <1>4, <1>5
<1> QED BY <1>1, <1>3, <1>5, <1>6

LEMMA RowInvStep == RowInv /\ [Next]_vars => RowInv'
<1> SUFFICES ASSUME RowInv, [Next]_vars PROVE RowInv'
  OBVIOUS
<1>1. row \in [Ids -> Row] /\ clock \in 1 .. MaxClock /\ \A i \in Ids : RowOK(i)
  BY DEF RowInv
<1>2. clock' \in 1 .. MaxClock
  BY <1>1 DEF Next, vars, table, begin, create, send, void, settle, Take, Write, list,
     list_after, Page
<1>3. ASSUME NEW i \in Ids, row' \in [Ids -> Row], RowOK(i)',
             \A j \in Ids \ {i} : row'[j] = row[j]
      PROVE  RowInv'
  BY <1>1, <1>2, <1>3 DEF RowInv, RowOK
<1>4. CASE row' = row
  BY <1>1, <1>2, <1>4 DEF RowInv, RowOK
<1>5. ASSUME NEW i \in Ids, Started(i) PROVE RowInv'
  <2>1. PICK t \in 1 .. MaxClock : row' = [row EXCEPT ![i].created = t]
    BY <1>5 DEF Started
  <2>2. /\ row' \in [Ids -> Row] /\ \A j \in Ids \ {i} : row'[j] = row[j]
        /\ row'[i].state = row[i].state /\ row'[i].paid = row[i].paid /\ row'[i].created = t
    <3>1. MaxClock \in Nat
      BY InvoicesAssumption
    <3> QED BY <1>1, <2>1, <3>1 DEF Row
  <2>3. RowOK(i)'
    BY <1>1, <1>5, <2>1, <2>2 DEF RowOK, Started
  <2> QED BY <1>3, <2>2, <2>3
<1>6. ASSUME NEW i \in Ids, Created(i) PROVE RowInv'
  <2>1. RowOK(i)'
    BY <1>1, <1>6, MovedRow DEF RowOK, Created
  <2> QED BY <1>1, <1>3, <1>6, <2>1, MovedRow, MovedType DEF Created
<1>7. ASSUME NEW i \in Ids, Sent(i) \/ Voided(i) PROVE RowInv'
  <2>1. row[i].paid = 0 /\ row[i].state # "absent"
    BY <1>1, <1>7 DEF RowOK, Sent, Voided
  <2>2. PICK to \in {"sent", "void"} : Moved(i, to, 0)
    BY <1>7, <2>1 DEF Sent, Voided
  <2>3. RowOK(i)'
    BY <1>1, <2>1, <2>2, MovedRow DEF RowOK
  <2> QED BY <1>1, <1>3, <2>2, <2>3, MovedRow, MovedType
<1>8. ASSUME NEW i \in Ids, Paid(i) PROVE RowInv'
  <2>1. PICK paid \in Nat :
           /\ row[i].paid < paid /\ paid <= Total(i) /\ Total(i) # Err
           /\ Moved(i, IF paid = Total(i) THEN "paid" ELSE "partially_paid", paid)
    BY <1>8, PaidRow
  <2>2. PICK to \in {"paid", "partially_paid"} :
           to = IF paid = Total(i) THEN "paid" ELSE "partially_paid"
    OBVIOUS
  <2>3. Moved(i, to, paid)
    BY <2>1, <2>2
  <2>4. row[i].paid \in Nat /\ row[i].created > 0 /\ Total(i) \in Nat
    BY <1>1, <1>8, <2>1, TotalType DEF RowOK, Row, Paid, is_collectible
  <2>5. RowOK(i)'
    <3>1. /\ row'[i].state = to /\ row'[i].paid = paid
          /\ row'[i].created = row[i].created
      BY <1>1, <2>3, MovedRow
    <3> QED BY <2>1, <2>2, <2>4, <3>1 DEF RowOK
  <2> QED BY <1>1, <1>3, <2>3, <2>5, MovedRow, MovedType
<1> QED BY <1>4, <1>5, <1>6, <1>7, <1>8, NextRowStep DEF RowStep

\* Every row the handlers write, in any order and with any parts of what is
\* owed, is one the table has: its money follows its state, and it is there only
\* if its total was accepted. (create, send, void of invoices.rs, settle())
THEOREM RowInvariant == Spec => []RowInv
BY RowInit, RowInvStep, PTL DEF Spec

\* No CHECK constraint of the invoices table is ever broken.
\* (migrations/0002_schema.sql, transition())
THEOREM ChecksAreKept == Spec => []ChecksHold
<1>1. RowInv => ChecksHold
  <2> SUFFICES ASSUME RowInv, NEW i \in Ids, row[i].state # "absent"
               PROVE  Lifecycle(i)!ChecksHold
    BY DEF ChecksHold
  <2>1. RowOK(i) /\ row[i] \in Row
    BY DEF RowInv
  <2>2. Total(i) \in Nat /\ Total(i) > 0
    BY <2>1, TotalType DEF RowOK, Row
  <2> QED BY <2>1, <2>2 DEF RowOK, Row, Lifecycle!ChecksHold
<1> QED BY <1>1, RowInvariant, PTL

\* A collectible invoice is owed money. (transition(), remaining())
THEOREM OwedWhileCollectible == Spec => []CollectibleMeansOwed
<1>1. RowInv => CollectibleMeansOwed
  <2> SUFFICES ASSUME RowInv, NEW i \in Ids, row[i].state \in {"sent", "partially_paid"}
               PROVE  row[i].paid < Total(i)
    BY DEF CollectibleMeansOwed, Lifecycle!CollectibleMeansOwed, Lifecycle!is_collectible
  <2>1. RowOK(i) /\ row[i] \in Row
    BY DEF RowInv
  <2>2. Total(i) \in Nat /\ Total(i) > 0
    BY <2>1, TotalType DEF RowOK, Row
  <2> QED BY <2>1, <2>2 DEF RowOK, Row
<1> QED BY <1>1, RowInvariant, PTL

\* The total of every invoice in the table is the exact sum of its lines.
\* (money.rs, the line items of create())
THEOREM TotalsAreRight == Spec => []TotalsAreExact
<1>1. ArithmeticIsExact
  BY TotalIsExact, InvoicesAssumption DEF ArithmeticIsExact
<1>2. RowInv => TotalsAreExact
  <2> SUFFICES ASSUME RowInv, NEW i \in Ids, row[i].state # "absent"
               PROVE  Total(i) = Exact(Lines[i])
    BY <1>1 DEF TotalsAreExact
  <2>1. Total(i) # Err /\ Lines[i] \in Seq(LineItem)
    BY InvoicesAssumption DEF RowInv, RowOK, Row
  <2> QED BY <2>1, TotalIsExact DEF Total
<1> QED BY <1>2, RowInvariant, PTL

-----------------------------------------------------------------------------
(* The rows and the lifecycle they implement.                              *)

ImplementsLifecycle ==
    /\ \A i \in Ids : Lifecycle(i)!Init
    /\ [][\A i \in Ids : [Lifecycle(i)!Next]_(Lifecycle(i)!vars)]_vars

LEMMA LifecycleStep ==
    ASSUME RowInv, [Next]_vars, NEW i \in Ids
    PROVE  [Lifecycle(i)!Next]_(Lifecycle(i)!vars)
<1> USE DEF Lifecycle!Next, Lifecycle!vars
<1>1. row \in [Ids -> Row] /\ RowOK(i)
  BY DEF RowInv
<1>2. CASE row'[i].state = row[i].state /\ row'[i].paid = row[i].paid
  BY <1>2
<1>3. CASE Created(i)
  BY <1>1, <1>3, MovedRow DEF Created, RowOK, Lifecycle!Create
<1>4. CASE Sent(i)
  BY <1>1, <1>4, MovedRow DEF Sent, Lifecycle!Send, Lifecycle!Take, Lifecycle!transition,
     Lifecycle!SendEvent, Lifecycle!is_collectible
<1>5. CASE Voided(i)
  BY <1>1, <1>5, MovedRow DEF Voided, Lifecycle!Void, Lifecycle!Take, Lifecycle!transition,
     Lifecycle!VoidEvent, Lifecycle!is_collectible
<1>6. CASE Paid(i)
  <2>1. PICK paid \in Nat :
           /\ row[i].paid < paid /\ paid <= Total(i) /\ Total(i) # Err
           /\ Moved(i, IF paid = Total(i) THEN "paid" ELSE "partially_paid", paid)
    BY <1>6, PaidRow
  <2>2. row[i].paid \in Nat /\ Total(i) \in Nat
    BY <1>1, <2>1, TotalType DEF Row
  <2>3. PICK amount \in 1 .. Total(i) - row[i].paid : paid = row[i].paid + amount
    <3>1. /\ paid - row[i].paid \in 1 .. Total(i) - row[i].paid
          /\ paid = row[i].paid + (paid - row[i].paid)
      BY <2>1, <2>2
    <3> QED BY <3>1
  <2>4. /\ row'[i].state = IF paid = Total(i) THEN "paid" ELSE "partially_paid"
        /\ row'[i].paid = paid
    BY <1>1, <2>1, MovedRow
  <2>5. (paid >= Total(i)) <=> paid = Total(i)
    BY <2>1, <2>2
  <2>6. row[i].state \in {"sent", "partially_paid"}
    BY <1>6 DEF Paid, is_collectible
  <2> QED BY <2>3, <2>4, <2>5, <2>6 DEF Lifecycle!Pay, Lifecycle!Take, Lifecycle!transition,
          Lifecycle!PaymentSettled, Lifecycle!is_collectible
<1>7. ASSUME NEW j \in Ids, Created(j) \/ Sent(j) \/ Voided(j) \/ Paid(j), j # i
      PROVE  row'[i] = row[i]
  BY <1>1, <1>7, MovedRow DEF Created, Sent, Voided, Paid
<1>8. ASSUME NEW j \in Ids, Started(j)
      PROVE  row'[i].state = row[i].state /\ row'[i].paid = row[i].paid
  BY <1>1, <1>8 DEF Started, Row
<1> QED BY <1>2, <1>3, <1>4, <1>5, <1>6, <1>7, <1>8, NextRowStep DEF RowStep

\* Whatever the order of transactions, each invoice row lives the life of the
\* transition table. (transition() of state_machine.rs)
THEOREM RowsLiveTheLifecycle == Spec => ImplementsLifecycle
<1>1. Init => \A i \in Ids : Lifecycle(i)!Init
  BY DEF Init, Lifecycle!Init
<1>2. RowInv /\ [Next]_vars => [\A i \in Ids : [Lifecycle(i)!Next]_(Lifecycle(i)!vars)]_vars
  BY LifecycleStep
<1> QED BY <1>1, <1>2, RowInvariant, PTL DEF Spec, ImplementsLifecycle

-----------------------------------------------------------------------------
(* The order of the rows in a list.                                        *)

LEMMA NewerIsAnOrder ==
    ASSUME row \in [Ids -> Row], NEW i \in Ids, NEW j \in Ids
    PROVE  /\ ~(Newer(i, j) /\ Newer(j, i))
           /\ i # j => Newer(i, j) \/ Newer(j, i)
           /\ \A k \in Ids : Newer(i, j) /\ Newer(j, k) => Newer(i, k)
<1>1. \A k \in Ids : k \in Int /\ row[k].created \in Int
  BY InvoicesAssumption DEF Row
<1> QED BY <1>1 DEF Newer

LEMMA IdsAreFinite ==
    ASSUME NEW S, S \subseteq Ids
    PROVE  IsFiniteSet(S) /\ Cardinality(S) \in Nat
BY InvoicesAssumption, FS_Subset, FS_CardinalityType

LEMMA OldestIsLast ==
    ASSUME row \in [Ids -> Row], NEW S, S \subseteq Ids, S # {}
    PROVE  /\ Oldest(S) \in S
           /\ \A j \in S \ {Oldest(S)} : Newer(j, Oldest(S))
<1> DEFINE After(i) == {j \in S : Newer(i, j)}
<1>1. PICK i \in S : \A k \in S : After(k) \subseteq After(i) => After(k) = After(i)
  <2> DEFINE F == {After(i) : i \in S}
  <2>1. F \subseteq SUBSET S /\ F # {} /\ IsFiniteSet(S)
    BY IdsAreFinite
  <2> HIDE DEF F, After
  <2>2. PICK X \in F : \A Y \in F : Y \subseteq X => Y = X
    BY <2>1, SmallestSet
  <2>3. PICK i \in S : X = After(i)
    BY <2>2 DEF F
  <2>4. \A k \in S : After(k) \in F
    BY DEF F
  <2> QED BY <2>2, <2>3, <2>4
<1>2. \A k \in S \ {i} : Newer(k, i)
  <2> SUFFICES ASSUME NEW k \in S \ {i}, Newer(i, k) PROVE FALSE
    BY NewerIsAnOrder
  <2>1. k \in After(i) /\ k \notin After(k)
    BY NewerIsAnOrder
  <2>2. After(k) \subseteq After(i)
    BY NewerIsAnOrder
  <2> QED BY <1>1, <2>1, <2>2
<1> QED BY <1>2 DEF Oldest

LEMMA FirstExists ==
    ASSUME row \in [Ids -> Row], NEW S, S \subseteq Ids, S # {}
    PROVE  \E i \in S : \A j \in S \ {i} : Newer(i, j)
<1> DEFINE Before(i) == {j \in S : Newer(j, i)}
<1>1. PICK i \in S : \A k \in S : Before(k) \subseteq Before(i) => Before(k) = Before(i)
  <2> DEFINE F == {Before(i) : i \in S}
  <2>1. F \subseteq SUBSET S /\ F # {} /\ IsFiniteSet(S)
    BY IdsAreFinite
  <2> HIDE DEF F, Before
  <2>2. PICK X \in F : \A Y \in F : Y \subseteq X => Y = X
    BY <2>1, SmallestSet
  <2>3. PICK i \in S : X = Before(i)
    BY <2>2 DEF F
  <2>4. \A k \in S : Before(k) \in F
    BY DEF F
  <2> QED BY <2>2, <2>3, <2>4
<1>2. \A k \in S \ {i} : Newer(i, k)
  <2> SUFFICES ASSUME NEW k \in S \ {i}, Newer(k, i) PROVE FALSE
    BY NewerIsAnOrder
  <2>1. k \in Before(i) /\ k \notin Before(k)
    BY NewerIsAnOrder
  <2>2. Before(k) \subseteq Before(i)
    BY NewerIsAnOrder
  <2> QED BY <1>1, <2>1, <2>2
<1> QED BY <1>2

\* What a LIMIT leaves out is older than what it lets through.
LEMMA NewestIsPrefix ==
    ASSUME row \in [Ids -> Row], NEW S, S \subseteq Ids, NEW n \in Nat,
           NEW i \in Newest(S, n), NEW j \in S \ Newest(S, n)
    PROVE  Newer(i, j)
<1> DEFINE Before(k) == {m \in S : Newer(m, k)}
<1>1. Cardinality(Before(i)) < n /\ ~(Cardinality(Before(j)) < n) /\ i \in S /\ i # j
  BY DEF Newest
<1>2. Before(i) \subseteq S /\ Before(j) \subseteq S /\ i \in Ids /\ j \in Ids
  BY <1>1
<1>3. CASE Newer(j, i)
  <2>1. Before(j) \subseteq Before(i)
    BY <1>1, <1>2, <1>3, NewerIsAnOrder
  <2> HIDE DEF Before
  <2>2. Before(i) \subseteq Ids /\ Before(j) \subseteq Ids
    BY <1>2
  <2>3. /\ Cardinality(Before(i)) \in Nat /\ Cardinality(Before(j)) \in Nat
        /\ Cardinality(Before(j)) <= Cardinality(Before(i))
    BY <2>1, <2>2, IdsAreFinite, FS_Subset
  <2> QED BY <1>1, <2>3
<1> QED BY <1>1, <1>2, <1>3, NewerIsAnOrder

\* A LIMIT that is not reached leaves nothing out.
LEMMA NewestOfFew ==
    ASSUME row \in [Ids -> Row], NEW S, S \subseteq Ids, NEW n \in Nat, Cardinality(S) <= n
    PROVE  Newest(S, n) = S
<1> SUFFICES ASSUME NEW i \in S PROVE Cardinality({j \in S : Newer(j, i)}) < n
  BY DEF Newest
<1> DEFINE Before == {j \in S : Newer(j, i)}
<1>1. Before \subseteq S /\ i \notin Before
  BY NewerIsAnOrder
<1>2. Before # S
  BY <1>1
<1> HIDE DEF Before
<1>3. /\ Cardinality(S) \in Nat /\ Cardinality(Before) \in Nat
      /\ Cardinality(Before) <= Cardinality(S) /\ Cardinality(Before) # Cardinality(S)
  BY <1>1, <1>2, IdsAreFinite, FS_Subset
<1> QED BY <1>3 DEF Before

\* LIMIT n + 1 tells whether there are more than n rows: if it returns no more
\* than n, it has returned all. (has_more of list())
LEMMA OneMoreTells ==
    ASSUME row \in [Ids -> Row], NEW S, S \subseteq Ids, NEW n \in Nat,
           Cardinality(Newest(S, n + 1)) <= n
    PROVE  Newest(S, n + 1) = S
<1> DEFINE rows == Newest(S, n + 1)
           rest == S \ rows
<1>1. rows \subseteq S
  BY DEF Newest
<1>2. SUFFICES ASSUME rest # {} PROVE FALSE
  BY <1>1
<1>3. PICK i \in rest : \A j \in rest \ {i} : Newer(i, j)
  BY <1>2, FirstExists
<1>4. {j \in S : Newer(j, i)} \subseteq rows
  BY <1>3, NewerIsAnOrder
<1>5. ~(Cardinality({j \in S : Newer(j, i)}) < n + 1)
  BY DEF Newest
<1>6. /\ Cardinality({j \in S : Newer(j, i)}) \in Nat /\ Cardinality(rows) \in Nat
      /\ Cardinality({j \in S : Newer(j, i)}) <= Cardinality(rows)
  BY <1>1, <1>4, IdsAreFinite, FS_Subset
<1> QED BY <1>5, <1>6

-----------------------------------------------------------------------------
(* The pages of a list.                                                    *)

\* A page after a cursor: what was sent before is not on it, and what it leaves
\* owed is behind the new cursor.
LEMMA PageKeeps ==
    ASSUME RowInv, NEW filter, NEW n \in Nat, NEW cursor \in Ids \cup {None}, NEW due,
           got \in [Ids -> Nat],
           Page(filter, n, cursor, due),
           due \subseteq {i \in Ids : Matches(i, filter) /\ Older(i, cursor)},
           cursor # None => row[cursor].created > 0,
           \A i \in Ids : got[i] > 0 =>
              /\ got[i] = 1 /\ row[i].created > 0
              /\ cursor # None /\ (i = cursor \/ Newer(i, cursor))
    PROVE  PageInv'
<1> DEFINE all == {i \in Ids : Matches(i, filter) /\ Older(i, cursor)}
           rows == Newest(all, n + 1)
           data == Newest(rows, n)
           next == IF data = {} THEN cursor ELSE Oldest(data)
<1>1. row \in [Ids -> Row] /\ None \notin Ids
  BY InvoicesAssumption DEF RowInv
<1>2. /\ pager' = [at |-> IF Cardinality(rows) > n THEN "more" ELSE "done",
                   filter |-> filter, limit |-> n, cursor |-> next]
      /\ got' = [i \in Ids |-> got[i] + IF i \in data THEN 1 ELSE 0]
      /\ owed' = due \ data
      /\ row' = row
  BY DEF Page, table
<1>3. \A i \in all : i \in Ids /\ row[i].created > 0 /\ Older(i, cursor)
  BY DEF Matches, RowInv, RowOK
<1>4. rows \subseteq all /\ data \subseteq rows /\ data \subseteq Ids
  BY DEF Newest
<1>5. \A i \in data : got[i] = 0 /\ i # cursor
  <2> SUFFICES ASSUME NEW i \in data PROVE got[i] = 0 /\ i # cursor
    OBVIOUS
  <2>1. i \in Ids /\ Older(i, cursor)
    BY <1>3, <1>4
  <2>2. ~(cursor # None /\ (i = cursor \/ Newer(i, cursor)))
    BY <1>1, <2>1, NewerIsAnOrder DEF Older
  <2> QED BY <1>1, <2>1, <2>2
<1>6. ASSUME data # {}
      PROVE  /\ next \in data
             /\ \A j \in data \ {next} : Newer(j, next)
             /\ cursor # None => Newer(cursor, next)
  <2>1. next = Oldest(data)
    BY <1>6
  <2>2. next \in data /\ \A j \in data \ {next} : Newer(j, next)
    BY <1>1, <1>4, <1>6, <2>1, OldestIsLast
  <2>3. Older(next, cursor)
    BY <1>3, <1>4, <2>2
  <2> QED BY <2>2, <2>3 DEF Older
<1> HIDE DEF next
<1>7. next # None => row[next].created > 0
  <2>1. CASE data = {}
    BY <2>1 DEF next
  <2>2. CASE data # {}
    BY <1>3, <1>4, <1>6, <2>2
  <2> QED BY <2>1, <2>2
<1>8. ASSUME NEW i \in Ids, got'[i] > 0
      PROVE  got'[i] = 1 /\ row[i].created > 0 /\ next # None /\ (i = next \/ Newer(i, next))
  <2>1. CASE i \in data
    BY <1>1, <1>2, <1>3, <1>4, <1>5, <1>6, <2>1
  <2>2. CASE i \notin data
    <3>1. got'[i] = got[i] /\ got[i] > 0
      BY <1>2, <1>8, <2>2
    <3>2. CASE data = {}
      BY <3>1, <3>2 DEF next
    <3>3. CASE data # {}
      <4>1. next \in Ids /\ cursor \in Ids /\ Newer(cursor, next)
        BY <1>4, <1>6, <3>1, <3>3
      <4> QED BY <1>1, <3>1, <4>1, NewerIsAnOrder
    <3> QED BY <3>2, <3>3
  <2> QED BY <2>1, <2>2
<1>9. ASSUME NEW i \in owed' PROVE Matches(i, filter) /\ Older(i, next)
  <2>1. i \in all /\ i \notin data
    BY <1>2, <1>9
  <2>2. CASE data = {}
    BY <2>1, <2>2 DEF next
  <2>3. CASE data # {}
    <3>1. next \in data /\ next \in rows /\ next \in Ids
      BY <1>4, <1>6, <2>3
    <3>2. CASE i \in rows
      BY <1>1, <1>4, <2>1, <3>1, <3>2, NewestIsPrefix DEF Older
    <3>3. CASE i \notin rows
      BY <1>1, <2>1, <3>1, <3>3, NewestIsPrefix DEF Older
    <3> QED BY <2>1, <3>2, <3>3
  <2> QED BY <2>2, <2>3
<1>10. ASSUME ~(Cardinality(rows) > n) PROVE owed' = {}
  <2>1. Cardinality(rows) <= n
    BY <1>4, <1>10, IdsAreFinite
  <2>2. rows = all
    BY <1>1, <2>1, OneMoreTells
  <2>3. data = all
    BY <1>1, <2>1, <2>2, NewestOfFew
  <2> QED BY <1>2, <2>3
<1>11. /\ pager'.cursor = next /\ pager'.filter = filter
       /\ pager'.at \in {"more", "done"}
       /\ pager'.at = "done" => ~(Cardinality(rows) > n)
  BY <1>2
<1> HIDE DEF all, rows, data
<1>12. \A i \in Ids : got'[i] > 0 => got'[i] = 1 /\ row'[i].created > 0 /\ Passed(i)'
  BY <1>2, <1>8, <1>11 DEF Passed, Newer
<1>13. \A i \in owed' : (Matches(i, pager.filter) /\ Older(i, pager.cursor))'
  BY <1>2, <1>9, <1>11 DEF Matches, overdue, is_collectible, Older, Newer
<1> QED BY <1>2, <1>7, <1>10, <1>11, <1>12, <1>13 DEF PageInv

LEMMA TypeInit == Init => TypeOK /\ PageInv
<1>1. Init => PageInv
  BY DEF Init, PageInv
<1>2. Init => TypeOK
  BY RowInit, InvoicesAssumption DEF Init, TypeOK, RowInv
<1> QED BY <1>1, <1>2

LEMMA LimitType == ASSUME NEW asked \in Limits PROVE limit(asked) \in 0 .. MAX_LIMIT
BY InvoicesAssumption DEF limit, clamp

LEMMA PageType ==
    ASSUME TypeOK, NEW filter \in Filters \cup {None}, NEW n \in 0 .. MAX_LIMIT,
           NEW cursor \in Ids \cup {None}, NEW due \in SUBSET Ids, Page(filter, n, cursor, due)
    PROVE  TypeOK'
<1> DEFINE rows == Newest({i \in Ids : Matches(i, filter) /\ Older(i, cursor)}, n + 1)
           data == Newest(rows, n)
           next == IF data = {} THEN cursor ELSE Oldest(data)
<1>1. data \subseteq Ids
  BY DEF Newest
<1>2. next \in Ids \cup {None}
  BY <1>1, OldestIsLast DEF TypeOK
<1>3. /\ pager' = [at |-> IF Cardinality(rows) > n THEN "more" ELSE "done",
                   filter |-> filter, limit |-> n, cursor |-> next]
      /\ got' = [i \in Ids |-> got[i] + IF i \in data THEN 1 ELSE 0]
      /\ owed' = due \ data
      /\ row' = row /\ clock' = clock
  BY DEF Page, table
<1> HIDE DEF rows, data, next
<1>4. got' \in [Ids -> Nat]
  BY <1>3 DEF TypeOK
<1> QED BY <1>2, <1>3, <1>4 DEF TypeOK

\* A writer leaves the client's cursor alone, and the place of every row.
LEMMA WritersKeepPlaces ==
    ASSUME RowInv, TypeOK, NEW i \in Ids,
           \/ begin(i) \/ create(i) \/ send(i) \/ void(i)
           \/ \E amount \in 1 .. remaining(Total(i), row[i].paid) : settle(i, amount)
    PROVE  /\ pager' = pager /\ got' = got /\ owed' \subseteq owed
           /\ \A j \in Ids : row[j].created > 0 => row'[j].created = row[j].created
           /\ \A j \in owed' : Matches(j, pager.filter) => Matches(j, pager.filter)'
<1>1. CASE begin(i)
  <2>1. \A j \in Ids : Matches(j, pager.filter) => j # i
    BY <1>1 DEF begin, RowInv, RowOK, Matches
  <2>2. \A j \in Ids \ {i} : row'[j] = row[j]
    BY <1>1 DEF begin, TypeOK
  <2>3. pager' = pager /\ got' = got /\ owed' = owed
    BY <1>1 DEF begin, client
  <2>4. owed \subseteq Ids
    BY DEF TypeOK
  <2> QED BY <1>1, <2>1, <2>2, <2>3, <2>4 DEF begin, Matches, overdue, is_collectible
<1>2. ASSUME NEW state, NEW paid, Write(i, state, paid)
      PROVE  /\ pager' = pager /\ got' = got /\ owed' \subseteq owed
             /\ \A j \in Ids : row'[j].created = row[j].created
             /\ \A j \in owed' : Matches(j, pager.filter)'
  <2>1. /\ pager' = pager /\ got' = got
        /\ owed' = {j \in owed : Matches(j, pager.filter)'}
        /\ Moved(i, state, paid)
    BY <1>2 DEF Write, Moved
  <2> QED BY <2>1, MovedRow DEF TypeOK
<1>3. CASE ~begin(i)
  <2>1. \E state, paid : Write(i, state, paid)
    BY <1>3 DEF create, send, void, settle, Take
  <2> QED BY <1>2, <2>1
<1> QED BY <1>1, <1>3

LEMMA TypeStep == RowInv' /\ TypeOK /\ PageInv /\ RowInv /\ [Next]_vars => TypeOK' /\ PageInv'
<1> SUFFICES ASSUME RowInv, RowInv', TypeOK, PageInv, [Next]_vars PROVE TypeOK' /\ PageInv'
  OBVIOUS
<1>1. CASE UNCHANGED vars
  BY <1>1 DEF vars, table, client, TypeOK, PageInv, Passed, Matches, overdue,
     is_collectible, Older, Newer
<1>2. ASSUME NEW i \in Ids,
             \/ begin(i) \/ create(i) \/ send(i) \/ void(i)
             \/ \E amount \in 1 .. remaining(Total(i), row[i].paid) : settle(i, amount)
      PROVE  TypeOK' /\ PageInv'
  <2>1. /\ pager' = pager /\ got' = got /\ owed' \subseteq owed
        /\ \A j \in Ids : row[j].created > 0 => row'[j].created = row[j].created
        /\ \A j \in owed' : Matches(j, pager.filter) => Matches(j, pager.filter)'
    BY <1>2, WritersKeepPlaces
  <2>2. TypeOK'
    BY <2>1 DEF TypeOK, RowInv
  <2>3. owed \subseteq Ids /\ pager.cursor \in Ids \cup {None} /\ None \notin Ids
    BY InvoicesAssumption DEF TypeOK
  <2>4. pager.cursor # None => row[pager.cursor].created > 0 /\ row'[pager.cursor].created > 0
    BY <2>1, <2>3 DEF PageInv
  <2>5. \A j \in Ids : row[j].created > 0 /\ pager.cursor # None =>
           /\ Newer(j, pager.cursor)' <=> Newer(j, pager.cursor)
           /\ Newer(pager.cursor, j)' <=> Newer(pager.cursor, j)
    BY <2>1, <2>3, <2>4 DEF Newer
  <2>6. \A j \in owed' : (Matches(j, pager.filter) /\ Older(j, pager.cursor))'
    <3>1. \A j \in owed' : /\ j \in Ids /\ row[j].created > 0 /\ Older(j, pager.cursor)
                           /\ Matches(j, pager.filter)'
      BY <2>1, <2>3 DEF PageInv, Matches, RowInv, RowOK
    <3> QED BY <2>1, <2>5, <3>1 DEF Older
  <2>7. \A j \in Ids : got'[j] > 0 => got'[j] = 1 /\ row'[j].created > 0 /\ Passed(j)'
    BY <2>1, <2>3, <2>5 DEF PageInv, Passed
  <2>8. /\ pager'.at = "idle" =>
              pager'.cursor = None /\ owed' = {} /\ \A j \in Ids : got'[j] = 0
        /\ pager'.at = "done" => owed' = {}
    BY <2>1 DEF PageInv
  <2> QED BY <2>1, <2>2, <2>4, <2>6, <2>7, <2>8 DEF PageInv
<1>3. ASSUME NEW filter \in Filters, NEW asked \in Limits, list(filter, asked)
      PROVE  TypeOK' /\ PageInv'
  <2>1. /\ pager.at = "idle"
        /\ Page(filter, limit(asked), None, {i \in Ids : Matches(i, filter)})
    BY <1>3 DEF list
  <2>2. limit(asked) \in 0 .. MAX_LIMIT /\ limit(asked) \in Nat
    BY LimitType
  <2>3. \A i \in Ids : got[i] = 0
    BY <2>1 DEF PageInv
  <2>4. got \in [Ids -> Nat]
    BY DEF TypeOK
  <2>5. TypeOK'
    BY <2>1, <2>2, PageType
  <2>6. {i \in Ids : Matches(i, filter)} \subseteq
           {i \in Ids : Matches(i, filter) /\ Older(i, None)}
    BY DEF Older
  <2>7. PageInv'
    BY <2>1, <2>2, <2>3, <2>4, <2>6, PageKeeps
  <2> QED BY <2>5, <2>7
<1>4. CASE list_after
  <2>1. Page(pager.filter, pager.limit, pager.cursor, owed)
    BY <1>4 DEF list_after
  <2>2. /\ pager.limit \in 0 .. MAX_LIMIT /\ pager.limit \in Nat
        /\ pager.filter \in Filters \cup {None} /\ pager.cursor \in Ids \cup {None}
        /\ owed \subseteq Ids /\ got \in [Ids -> Nat]
    BY DEF TypeOK
  <2>3. TypeOK'
    BY <2>1, <2>2, PageType
  <2>4. /\ owed \subseteq {i \in Ids : Matches(i, pager.filter) /\ Older(i, pager.cursor)}
        /\ pager.cursor # None => row[pager.cursor].created > 0
        /\ \A i \in Ids : got[i] > 0 =>
              /\ got[i] = 1 /\ row[i].created > 0
              /\ pager.cursor # None /\ (i = pager.cursor \/ Newer(i, pager.cursor))
    BY <2>2 DEF PageInv, Passed
  <2>5. PageInv'
    BY <2>1, <2>2, <2>4, PageKeeps
  <2> QED BY <2>3, <2>5
<1> QED BY <1>1, <1>2, <1>3, <1>4 DEF Next

\* While invoices are created, sent, paid and voided between two pages, what a
\* client was sent lies before its cursor and what it is owed behind it.
\* (the keyset comparison of list())
THEOREM PagesAddUp == Spec => [](TypeOK /\ PageInv)
<1>1. TypeOK /\ PageInv /\ RowInv /\ RowInv' /\ [Next]_vars => (TypeOK /\ PageInv)'
  BY TypeStep
<1> QED BY <1>1, TypeInit, RowInvariant, PTL DEF Spec

\* Every variable keeps its type; a page is never larger than MAX_LIMIT.
\* (Pagination::limit)
THEOREM TypeCorrect == Spec => []TypeOK
BY PagesAddUp, PTL

\* A client that follows has_more is sent every invoice that was there and
\* matched all along, and none twice, for any number of invoices, pages of any
\* size and timestamps in any order. (list() of invoices.rs)
THEOREM NothingIsMissed == Spec => []ListedOnce
<1>1. TypeOK /\ PageInv => ListedOnce
  BY DEF TypeOK, PageInv, ListedOnce
<1> QED BY <1>1, PagesAddUp, PTL


-----------------------------------------------------------------------------
(* How much a page sends.                                                  *)

\* ORDER BY ... LIMIT n returns n rows, or all there are.
LEMMA NewestCount ==
    ASSUME row \in [Ids -> Row], NEW S, S \subseteq Ids, NEW n \in Nat
    PROVE  /\ Cardinality(Newest(S, n)) <= n
           /\ Cardinality(S) >= n => Cardinality(Newest(S, n)) = n
<1> DEFINE data == Newest(S, n)
           Before(i) == {j \in S : Newer(j, i)}
<1>1. data \subseteq S /\ \A i \in S : i \in data <=> Cardinality(Before(i)) < n
  BY DEF Newest
<1>2. /\ IsFiniteSet(data) /\ Cardinality(data) \in Nat /\ Cardinality(S) \in Nat
      /\ \A i : IsFiniteSet(Before(i)) /\ Cardinality(Before(i)) \in Nat
  <2>1. data \subseteq Ids /\ \A i : Before(i) \subseteq Ids
    BY <1>1
  <2> HIDE DEF data, Before
  <2> QED BY <2>1, IdsAreFinite
<1>3. Cardinality(data) <= n
  <2>1. CASE data = {}
    BY <2>1, FS_EmptySet
  <2>2. CASE data # {}
    <3>1. PICK o \in data : \A j \in data \ {o} : Newer(j, o)
      BY <1>1, <2>2, OldestIsLast
    <3>2. data \ {o} \subseteq Before(o)
      BY <1>1, <3>1
    <3> HIDE DEF data, Before
    <3>3. Cardinality(data \ {o}) = Cardinality(data) - 1
      BY <1>2, FS_RemoveElement
    <3>4. Cardinality(data \ {o}) <= Cardinality(Before(o))
      BY <1>2, <3>2, FS_Subset
    <3> QED BY <1>1, <1>2, <3>3, <3>4
  <2> QED BY <2>1, <2>2
<1>4. ASSUME data # S PROVE Cardinality(data) >= n
  <2>1. PICK i \in S \ data : \A j \in (S \ data) \ {i} : Newer(i, j)
    <3>1. S \ data # {} /\ S \ data \subseteq Ids
      BY <1>1, <1>4
    <3> HIDE DEF data
    <3> QED BY <3>1, FirstExists
  <2>2. Before(i) \subseteq data
    BY <1>1, <2>1, NewerIsAnOrder
  <2> HIDE DEF data, Before
  <2>3. Cardinality(Before(i)) <= Cardinality(data)
    BY <1>2, <2>2, FS_Subset
  <2> QED BY <1>1, <1>2, <2>1, <2>3
<1> QED BY <1>2, <1>3, <1>4

\* The invoices a step sends to the client.
Sending == {i \in Ids : got'[i] # got[i]}

LEMMA PageEffect ==
    ASSUME row \in [Ids -> Row], got \in [Ids -> Nat], NEW filter, NEW n \in Nat, NEW cursor,
           NEW due, Page(filter, n, cursor, due)
    PROVE  /\ Cardinality(Sending) <= n
           /\ pager'.at = "more" => Cardinality(Sending) = n
           /\ pager'.limit = n
<1> DEFINE all == {i \in Ids : Matches(i, filter) /\ Older(i, cursor)}
           rows == Newest(all, n + 1)
           data == Newest(rows, n)
<1>1. /\ pager'.at = IF Cardinality(rows) > n THEN "more" ELSE "done"
      /\ pager'.limit = n
      /\ got' = [i \in Ids |-> got[i] + IF i \in data THEN 1 ELSE 0]
  BY DEF Page
<1>2. data \subseteq rows /\ rows \subseteq Ids
  BY DEF Newest
<1> HIDE DEF data, rows
<1>3. Sending = data
  BY <1>1, <1>2 DEF Sending
<1>4. /\ Cardinality(rows) \in Nat /\ Cardinality(data) <= n
      /\ Cardinality(rows) >= n => Cardinality(data) = n
  BY <1>2, IdsAreFinite, NewestCount DEF data
<1> QED BY <1>1, <1>3, <1>4

\* Whatever limit a client asks for, zero, negative, absent or absurd, the pages
\* it gets have a size of at least one and at most MAX_LIMIT. (Pagination::limit)
LimitInRange == pager.at # "idle" => pager.limit \in 1 .. MAX_LIMIT

LEMMA LimitIsPositive == ASSUME NEW asked \in Limits PROVE limit(asked) \in 1 .. MAX_LIMIT
BY InvoicesAssumption DEF limit, clamp

LEMMA LimitStep ==
    TypeOK /\ LimitInRange /\ [Next]_vars => LimitInRange'
<1> SUFFICES ASSUME TypeOK, LimitInRange, [Next]_vars PROVE LimitInRange'
  OBVIOUS
<1>1. ASSUME NEW filter \in Filters, NEW asked \in Limits, list(filter, asked)
      PROVE  LimitInRange'
  BY <1>1, LimitIsPositive DEF list, Page, LimitInRange
<1>2. CASE list_after
  BY <1>2 DEF list_after, Page, LimitInRange
<1>3. CASE pager' = pager
  BY <1>3 DEF LimitInRange
<1> QED
  BY <1>1, <1>2, <1>3 DEF Next, vars, client, begin, create, send, void, settle, Take, Write

Asked == list_after \/ \E filter \in Filters, asked \in Limits : list(filter, asked)

\* A page never sends more than the limit, a page that says has_more sends
\* exactly as many as that, and nothing but a page sends anything.  As no
\* invoice is sent twice (ListedOnce), a client that follows has_more is through
\* a table of n invoices after at most n + 1 pages, however rows come and go.
\* (LIMIT limit + 1 and has_more of list())
PagesAreFull ==
    [][/\ Cardinality(Sending) <= MAX_LIMIT
       /\ Asked /\ pager'.at = "more" =>
             pager'.limit >= 1 /\ Cardinality(Sending) = pager'.limit
       /\ ~Asked => Sending = {}]_vars

LEMMA PageSends ==
    ASSUME TypeOK, LimitInRange, Asked
    PROVE  /\ Cardinality(Sending) <= MAX_LIMIT
           /\ pager'.at = "more" => pager'.limit >= 1 /\ Cardinality(Sending) = pager'.limit
<1>1. PICK n \in 1 .. MAX_LIMIT : \E filter, cursor, due : Page(filter, n, cursor, due)
  <2>1. CASE list_after
    <3>1. pager.limit \in 1 .. MAX_LIMIT
      BY <2>1 DEF list_after, LimitInRange
    <3>2. Page(pager.filter, pager.limit, pager.cursor, owed)
      BY <2>1 DEF list_after
    <3> QED BY <3>1, <3>2
  <2>2. ASSUME NEW filter \in Filters, NEW asked \in Limits, list(filter, asked)
        PROVE  \E n \in 1 .. MAX_LIMIT : \E f, cursor, due : Page(f, n, cursor, due)
    <3>1. limit(asked) \in 1 .. MAX_LIMIT
      BY LimitIsPositive
    <3>2. Page(filter, limit(asked), None, {i \in Ids : Matches(i, filter)})
      BY <2>2 DEF list
    <3> HIDE DEF Page
    <3> QED BY <3>1, <3>2
  <2> QED BY <2>1, <2>2 DEF Asked
<1>2. /\ n \in Nat /\ n >= 1 /\ n <= MAX_LIMIT /\ MAX_LIMIT \in Nat
      /\ row \in [Ids -> Row] /\ got \in [Ids -> Nat]
  BY InvoicesAssumption DEF TypeOK
<1>3. Sending \subseteq Ids
  BY DEF Sending
<1> QED BY <1>1, <1>2, <1>3, PageEffect, IdsAreFinite

\* Following has_more always gets on: no page is empty while it promises more,
\* and one that does not send anything is the last.
THEOREM EveryPageAdvances == Spec => []LimitInRange /\ PagesAreFull
<1>1. Init => LimitInRange
  BY DEF Init, LimitInRange
<1>2. TypeOK /\ LimitInRange /\ [Next]_vars =>
        [/\ Cardinality(Sending) <= MAX_LIMIT
         /\ Asked /\ pager'.at = "more" =>
               pager'.limit >= 1 /\ Cardinality(Sending) = pager'.limit
         /\ ~Asked => Sending = {}]_vars
  <2> SUFFICES ASSUME TypeOK, LimitInRange, [Next]_vars
               PROVE  /\ Cardinality(Sending) <= MAX_LIMIT
                      /\ Asked /\ pager'.at = "more" =>
                            pager'.limit >= 1 /\ Cardinality(Sending) = pager'.limit
                      /\ ~Asked => Sending = {}
    OBVIOUS
  <2>1. CASE Asked
    BY <2>1, PageSends
  <2>2. CASE ~Asked
    <3>1. got' = got
      BY <2>2 DEF Asked, Next, vars, client, begin, create, send, void, settle, Take, Write
    <3>2. Sending = {}
      BY <3>1 DEF Sending
    <3> QED BY <2>2, <3>2, FS_EmptySet, InvoicesAssumption
  <2> QED BY <2>1, <2>2
<1> QED BY <1>1, <1>2, LimitStep, TypeCorrect, PTL DEF Spec, PagesAreFull

=============================================================================
