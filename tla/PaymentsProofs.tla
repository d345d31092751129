--------------------------- MODULE PaymentsProofs ---------------------------
(***************************************************************************)
(* Proofs about Payments, for any number of requests, invoices, keys,      *)
(* processors and reconciler replicas, any totals and any retry limit.     *)
(***************************************************************************)
EXTENDS Payments, TLAPS

-----------------------------------------------------------------------------
(* Type correctness *)

LEMMA EmitType ==
    ASSUME outbox \in [Event -> Nat], NEW kind, NEW x,
           [kind |-> kind, about |-> x] \in Event, emit(kind, x)
    PROVE  outbox' \in [Event -> Nat]
<1> DEFINE e == [kind |-> kind, about |-> x]
<1>1. e \in Event /\ outbox' = [outbox EXCEPT ![e] = @ + 1]
  BY DEF emit
<1> HIDE DEF e
<1> QED BY <1>1

LEMMA RequestEvent ==
    ASSUME NEW r \in Requests, NEW kind \in {"invoice.paid", "invoice.payment_failed"}
    PROVE  [kind |-> kind, about |-> r] \in Event
BY DEF Event

LEMMA InvoiceEvent ==
    ASSUME NEW i \in Invoices,
           NEW kind \in {"invoice.created", "invoice.sent", "invoice.voided"}
    PROVE  [kind |-> kind, about |-> i] \in Event
BY DEF Event

\* The updates of an attempt row.
LEMMA AttemptUpdate ==
    ASSUME attempt \in [Requests -> Attempt], NEW r \in Requests
    PROVE  /\ [attempt EXCEPT ![r].status = "succeeded"] \in [Requests -> Attempt]
           /\ \A c \in {"declined", "reconciliation_exhausted"} :
                 Failed(r, c) \in [Requests -> Attempt]
BY DEF Attempt, Failed

\* What settle() leaves well-typed, whatever the outcome.
LEMMA SettleType ==
    ASSUME TypeOK, NEW r \in Requests, NEW o, settle(r, o)
    PROVE  /\ invoice' \in [Invoices -> [state : InvoiceStates, paid : Nat]]
           /\ attempt' \in [Requests -> Attempt]
           /\ outbox' \in [Event -> Nat]
<1> USE DEF TypeOK, Params, InvoiceOf
<1>1. CASE o = "succeeded" /\ SettleSucceeded(r)
  <2>1. CASE attempt[r].status = "pending"
    <3>1. attempt' \in [Requests -> Attempt]
      <4>1. attempt' = [attempt EXCEPT ![r].status = "succeeded"]
        BY <1>1, <2>1 DEF SettleSucceeded
      <4>2. attempt \in [Requests -> Attempt]
        OBVIOUS
      <4> QED BY <4>1, <4>2, AttemptUpdate
    <3>2. outbox' \in [Event -> Nat]
      BY <1>1, <2>1, EmitType, RequestEvent DEF SettleSucceeded
    <3>3. Credited(InvoiceOf(r), attempt[r].amount)
            \in [Invoices -> [state : InvoiceStates, paid : Nat]]
      BY DEF Credited, Attempt, InvoiceStates
    <3> QED BY <1>1, <2>1, <3>1, <3>2, <3>3 DEF SettleSucceeded
  <2>2. CASE attempt[r].status # "pending"
    BY <1>1, <2>2 DEF SettleSucceeded
  <2> QED BY <2>1, <2>2
<1>2. CASE o = "failed" /\ SettleFailed(r)
  <2>1. attempt' \in [Requests -> Attempt]
    BY <1>2, AttemptUpdate DEF SettleFailed
  <2>2. outbox' \in [Event -> Nat]
    BY <1>2, EmitType, RequestEvent DEF SettleFailed
  <2> QED BY <1>2, <2>1, <2>2 DEF SettleFailed
<1>3. CASE o = "unknown" /\ UNCHANGED <<attempt, invoice, outbox>>
  BY <1>3
<1> QED BY <1>1, <1>2, <1>3 DEF settle

LEMMA SettleReplyType ==
    ASSUME TypeOK, NEW r \in Requests, NEW o \in {"unknown", "succeeded", "failed"},
           NEW seen
    PROVE  SettleReply(r, o, seen) \in Reply
BY DEF TypeOK, SettleReply, Reply, Attempt

LEMMA NoReplyType == NoReply \in Reply
BY DEF NoReply, Reply

LEMMA TypeInit == Init => TypeOK
<1> SUFFICES ASSUME Init PROVE TypeOK
  OBVIOUS
<1> USE PaymentsAssumption, NoReplyType
<1>1. attempt \in [Requests -> Attempt]
  BY DEF Init, NoAttempt, Attempt
<1>2. idem \in [Keys -> [hash : Hashes \cup {None}, reply : Reply]]
  BY DEF Init
<1>3. invoice \in [Invoices -> [state : InvoiceStates, paid : Nat]]
  BY DEF Init, InvoiceStates
<1>4. batch \in [Workers -> [Requests -> Nat]]
  BY DEF Init, NoBatch
<1> QED BY <1>1, <1>2, <1>3, <1>4 DEF Init, TypeOK

LEMMA RefuseType ==
    ASSUME TypeOK, NEW r \in Requests, NEW s \in {404, 409, 422},
           NEW c \in {"not_found", "invoice_already_paid", "invalid_state_transition",
                      "nothing_to_pay", "payment_in_progress",
                      "request_in_progress", "idempotency_key_reuse"},
           Refuse(r, s, c)
    PROVE  TypeOK'
<1>1. [status |-> s, code |-> c, attempt |-> None] \in Reply
  BY DEF Reply
<1> QED BY <1>1 DEF TypeOK, Refuse, Answer, rows, psp, workers

LEMMA TypeNext == TypeOK /\ [Next]_vars => TypeOK'
<1> SUFFICES ASSUME TypeOK, [Next]_vars PROVE TypeOK'
  OBVIOUS
<1> USE PaymentsAssumption
<1>1. ASSUME NEW i \in Invoices, create(i) \/ send(i) \/ void(i) PROVE TypeOK'
  <2>1. PICK to \in InvoiceStates,
             event \in {"invoice.created", "invoice.sent", "invoice.voided"} :
          \E from : MoveInvoice(i, from, to, event)
    BY <1>1 DEF create, send, void, InvoiceStates
  <2>2. invoice' \in [Invoices -> [state : InvoiceStates, paid : Nat]]
    <3>1. invoice' = [invoice EXCEPT ![i].state = to]
      BY <2>1 DEF MoveInvoice
    <3>2. invoice \in [Invoices -> [state : InvoiceStates, paid : Nat]]
      BY DEF TypeOK
    <3> QED BY <3>1, <3>2
  <2>3. outbox' \in [Event -> Nat]
    BY <2>1, EmitType, InvoiceEvent DEF MoveInvoice, TypeOK
  <2> QED BY <2>1, <2>2, <2>3 DEF MoveInvoice, TypeOK, psp, clients, workers
<1>2. ASSUME NEW r \in Requests, PayKnownKey(r) PROVE TypeOK'
  <2>1. KeyOf(r) \in Keys
    BY DEF TypeOK, Params, KeyOf
  <2>2. CASE /\ Answer(r, idem[KeyOf(r)].reply)
             /\ UNCHANGED <<rows, psp, req, workers>>
    BY <2>1, <2>2 DEF Answer, TypeOK, rows, psp, workers
  <2> QED BY <1>2, <2>2, RefuseType DEF PayKnownKey
<1>3. ASSUME NEW r \in Requests, PayRefused(r) PROVE TypeOK'
  BY <1>3, RefuseType DEF PayRefused
<1>4. ASSUME NEW r \in Requests, PayClaim(r) PROVE TypeOK'
  <2>1. hash_request(r) \in Hashes /\ KeyOf(r) \in Keys
    BY DEF TypeOK, Params, KeyOf, hash_request, Hashes
  <2>2. AmountDue(InvoiceOf(r)) \in Nat
    BY DEF TypeOK, AmountDue, remaining, Params, InvoiceOf
  <2>3. attempt' \in [Requests -> Attempt]
    <3>1. attempt' = [attempt EXCEPT ![r] =
                [@ EXCEPT !.status = "pending", !.amount = AmountDue(InvoiceOf(r))]]
      BY <1>4 DEF PayClaim
    <3>2. ASSUME NEW a \in Attempt, NEW n \in Nat
          PROVE  [a EXCEPT !.status = "pending", !.amount = n] \in Attempt
      BY DEF Attempt
    <3>3. attempt \in [Requests -> Attempt]
      BY DEF TypeOK
    <3> QED BY <2>2, <3>1, <3>2, <3>3
  <2>4. idem' \in [Keys -> [hash : Hashes \cup {None}, reply : Reply]]
    <3>1. idem' = [idem EXCEPT ![KeyOf(r)].hash = hash_request(r)]
      BY <1>4 DEF PayClaim
    <3> QED BY <2>1, <3>1 DEF TypeOK
  <2> QED BY <1>4, <2>3, <2>4 DEF PayClaim, TypeOK, psp, workers
<1>5. ASSUME NEW r \in Requests, PayCharge(r) PROVE TypeOK'
  BY <1>5 DEF PayCharge, TypeOK, rows, workers
<1>6. ASSUME NEW r \in Requests, PaySettle(r) PROVE TypeOK'
  <2>1. PICK o \in Outcomes(r), seen \in {"pending", attempt[r].status} :
          /\ settle(r, o)
          /\ idem' = [idem EXCEPT ![KeyOf(r)].reply = SettleReply(r, o, seen)]
          /\ Answer(r, SettleReply(r, o, seen))
    BY <1>6 DEF PaySettle
  <2>2. o \in {"unknown", "succeeded", "failed"}
    BY DEF Outcomes, TypeOK
  <2>3. SettleReply(r, o, seen) \in Reply
    BY <2>2, SettleReplyType
  <2>4. idem' \in [Keys -> [hash : Hashes \cup {None}, reply : Reply]]
    BY <2>1, <2>3 DEF TypeOK
  <2>5. handler' \in [Requests -> {"idle", "claimed", "charging", "done"}]
        /\ reply' \in [Requests -> Reply]
    BY <2>1, <2>3 DEF Answer, TypeOK
  <2> QED BY <1>6, <2>1, <2>4, <2>5, SettleType DEF PaySettle, TypeOK, psp, workers
<1>7. ASSUME NEW r \in Requests, PayLost(r) PROVE TypeOK'
  BY <1>7 DEF PayLost, TypeOK, rows, psp, workers
<1>8. ASSUME NEW r \in Requests, PspProcess(r) PROVE TypeOK'
  BY <1>8 DEF PspProcess, TypeOK, rows, clients, workers
<1>9. ASSUME NEW w \in Workers, NEW S \in SUBSET Requests, claim(w, S) PROVE TypeOK'
  <2>1. attempt' \in [Requests -> Attempt]
    <3>1. attempt' = [x \in Requests |->
                         IF x \in S
                         THEN [attempt[x] EXCEPT !.reconcile_attempts = @ + 1]
                         ELSE attempt[x]]
      BY <1>9 DEF claim
    <3>2. ASSUME NEW a \in Attempt
          PROVE  [a EXCEPT !.reconcile_attempts = @ + 1] \in Attempt
      BY DEF Attempt
    <3>3. \A x \in Requests : attempt[x] \in Attempt
      BY DEF TypeOK
    <3> QED BY <3>1, <3>2, <3>3
  <2>2. batch' \in [Workers -> [Requests -> Nat]]
    <3> DEFINE b == [x \in Requests |->
                       IF x \in S THEN attempt[x].reconcile_attempts + 1 ELSE 0]
    <3>1. batch' = [batch EXCEPT ![w] = b]
      BY <1>9 DEF claim
    <3>2. b \in [Requests -> Nat]
      BY DEF TypeOK, Attempt
    <3> HIDE DEF b
    <3> QED BY <3>1, <3>2 DEF TypeOK
  <2> QED BY <1>9, <2>1, <2>2 DEF claim, TypeOK, psp, clients
<1>10. ASSUME NEW w \in Workers, NEW r \in Requests, Visit(w, r)
       PROVE  batch' \in [Workers -> [Requests -> Nat]]
  BY <1>10 DEF Visit, TypeOK
<1>11. ASSUME NEW w \in Workers, NEW r \in Requests, give_up(w, r) PROVE TypeOK'
  <2>1. attempt' \in [Requests -> Attempt]
    BY <1>11, AttemptUpdate DEF give_up, TypeOK
  <2> QED BY <1>10, <1>11, <2>1 DEF give_up, TypeOK, psp, clients
<1>12. ASSUME NEW w \in Workers, NEW r \in Requests, Resubmit(w, r) PROVE TypeOK'
  BY <1>10, <1>12 DEF Resubmit, TypeOK, rows, clients
<1>13. ASSUME NEW w \in Workers, Reconciled(w) PROVE TypeOK'
  <2>1. busy[w] \in Requests
    BY <1>13 DEF Reconciled, TypeOK
  <2> QED BY <1>13, <2>1, SettleType DEF Reconciled, TypeOK, psp, clients
<1>14. ASSUME NEW w \in Workers, Unresolved(w) PROVE TypeOK'
  BY <1>14 DEF Unresolved, TypeOK, rows, psp, clients
<1>15. ASSUME NEW w \in Workers, WorkerFault(w) PROVE TypeOK'
  <2>1. NoBatch \in [Requests -> Nat]
    BY DEF NoBatch
  <2>2. batch' \in [Workers -> [Requests -> Nat]]
    BY <1>10, <1>15, <2>1 DEF WorkerFault, TypeOK
  <2>3. busy' \in [Workers -> Requests \cup {None}]
    BY <1>15 DEF WorkerFault, TypeOK
  <2>4. faults' \in 0 .. MaxFaults
    BY <1>15 DEF WorkerFault, TypeOK
  <2> QED BY <1>15, <2>2, <2>3, <2>4 DEF WorkerFault, TypeOK, rows, psp, clients
<1>16. CASE UNCHANGED vars
  BY <1>16 DEF TypeOK, vars, rows, psp, clients, workers
<1> QED
  BY <1>1, <1>2, <1>3, <1>4, <1>5, <1>6, <1>7, <1>8, <1>9, <1>11, <1>12,
     <1>13, <1>14, <1>15, <1>16 DEF Next

\* Every variable keeps its type: the status, code and state columns only ever
\* hold the values their CHECK constraints list, and counters stay natural.
THEOREM TypeCorrect == Spec => []TypeOK
<1>1. Init => TypeOK
  BY TypeInit
<1>2. TypeOK /\ [Next]_vars => TypeOK'
  BY TypeNext
<1> QED BY <1>1, <1>2, PTL DEF Spec

-----------------------------------------------------------------------------
(* What the steps do to the rows.  Every step is one of six changes.       *)

\* Nothing but the retry counter of an attempt changes.
Kept(x) ==
    /\ attempt'[x].status = attempt[x].status
    /\ attempt'[x].code = attempt[x].code
    /\ attempt'[x].amount = attempt[x].amount

\* The provider never forgets or changes an outcome.
LedgerGrows == \A x \in Requests : ledger[x] # "none" => ledger'[x] = ledger[x]

RowsKept ==
    /\ \A x \in Requests : Kept(x)
    /\ invoice' = invoice /\ req' = req /\ LedgerGrows

InvoiceMoved(i) ==
    /\ invoice[i].state \notin {"paid", "partially_paid"}
    /\ invoice'[i].state \notin {"paid", "partially_paid"}
    /\ invoice[i].state = "void" => invoice'[i].state = "void"
    /\ invoice'[i].state \in {"absent", "draft"} => invoice[i].state \in {"absent", "draft"}
    /\ invoice'[i].paid = invoice[i].paid
    /\ \A j \in Invoices \ {i} : invoice'[j] = invoice[j]
    /\ attempt' = attempt /\ req' = req /\ ledger' = ledger

Inserted(r) ==
    /\ ~Exists(r)
    /\ is_collectible(InvoiceOf(r))
    /\ ~InProgress(InvoiceOf(r))
    /\ attempt'[r].status = "pending"
    /\ attempt'[r].code = attempt[r].code
    /\ attempt'[r].amount = AmountDue(InvoiceOf(r))
    /\ \A x \in Requests \ {r} : Kept(x)
    /\ invoice' = invoice /\ req' = req /\ ledger' = ledger

Won(r) ==
    /\ attempt[r].status = "pending" /\ ledger[r] = "succeeded"
    /\ attempt'[r].status = "succeeded" /\ attempt'[r].code = attempt[r].code
    /\ \A x \in Requests \ {r} : Kept(x)
    /\ invoice' = IF is_collectible(InvoiceOf(r))
                  THEN Credited(InvoiceOf(r), attempt[r].amount)
                  ELSE invoice
    /\ req' = req /\ ledger' = ledger

Lost(r, c) ==
    /\ attempt[r].status = "pending"
    /\ attempt'[r].status = "failed" /\ attempt'[r].code = c
    /\ c = "declined" => ledger[r] = "failed"
    /\ c \in {"declined", "reconciliation_exhausted"}
    /\ \A x \in Requests \ {r} : Kept(x)
    /\ invoice' = invoice /\ req' = req /\ ledger' = ledger

LEMMA KeptSame ==
    ASSUME attempt' = attempt
    PROVE  \A x \in Requests : Kept(x)
BY DEF Kept

\* The attempt rows after an update of one of them.
LEMMA UpdateEffect ==
    ASSUME attempt \in [Requests -> Attempt], NEW r \in Requests,
           NEW s, NEW c, NEW n
    PROVE  /\ LET a == [attempt EXCEPT ![r].status = s] IN
              /\ a[r].status = s /\ a[r].code = attempt[r].code
              /\ \A x \in Requests \ {r} : a[x] = attempt[x]
           /\ LET a == Failed(r, c) IN
              /\ a[r].status = "failed" /\ a[r].code = c
              /\ \A x \in Requests \ {r} : a[x] = attempt[x]
           /\ LET a == [attempt EXCEPT ![r] = [@ EXCEPT !.status = s, !.amount = n]] IN
              /\ a[r].status = s /\ a[r].amount = n /\ a[r].code = attempt[r].code
              /\ \A x \in Requests \ {r} : a[x] = attempt[x]
BY DEF Failed, Attempt

\* settle() with an outcome the provider gave, or with an unknown one.
LEMMA SettleEffect ==
    ASSUME TypeOK, NEW r \in Requests, NEW o \in Outcomes(r), settle(r, o),
           req' = req, ledger' = ledger
    PROVE  RowsKept \/ Won(r) \/ Lost(r, "declined")
<1>0. attempt \in [Requests -> Attempt]
  BY DEF TypeOK
<1>1. CASE o = "succeeded" /\ SettleSucceeded(r)
  <2>1. ledger[r] = "succeeded"
    BY <1>1 DEF Outcomes, TypeOK
  <2>2. CASE attempt[r].status = "pending"
    <3>1. attempt' = [attempt EXCEPT ![r].status = "succeeded"]
      BY <1>1, <2>2 DEF SettleSucceeded
    <3>2. /\ attempt'[r].status = "succeeded" /\ attempt'[r].code = attempt[r].code
          /\ \A x \in Requests \ {r} : attempt'[x] = attempt[x]
      BY <1>0, <3>1, UpdateEffect
    <3> QED BY <1>1, <2>1, <2>2, <3>2 DEF SettleSucceeded, Won, Kept
  <2>3. CASE attempt[r].status # "pending"
    BY <1>1, <2>3 DEF SettleSucceeded, RowsKept, Kept, LedgerGrows
  <2> QED BY <2>2, <2>3
<1>2. CASE o = "failed" /\ SettleFailed(r)
  <2>1. ledger[r] = "failed"
    BY <1>2 DEF Outcomes, TypeOK
  <2>2. CASE attempt[r].status = "pending"
    <3>1. attempt' = Failed(r, "declined") /\ invoice' = invoice
      BY <1>2, <2>2 DEF SettleFailed
    <3>2. /\ attempt'[r].status = "failed" /\ attempt'[r].code = "declined"
          /\ \A x \in Requests \ {r} : attempt'[x] = attempt[x]
      BY <1>0, <3>1, UpdateEffect
    <3> QED BY <2>1, <2>2, <3>1, <3>2 DEF Lost, Kept
  <2>3. CASE attempt[r].status # "pending"
    BY <1>2, <2>3 DEF SettleFailed, RowsKept, Kept, LedgerGrows
  <2> QED BY <2>2, <2>3
<1>3. CASE o = "unknown" /\ UNCHANGED <<attempt, invoice, outbox>>
  BY <1>3 DEF RowsKept, Kept, LedgerGrows
<1> QED BY <1>1, <1>2, <1>3 DEF settle

RowStep ==
    \/ RowsKept
    \/ \E i \in Invoices : InvoiceMoved(i)
    \/ \E r \in Requests : Inserted(r) \/ Won(r)
    \/ \E r \in Requests, c \in {"declined", "reconciliation_exhausted"} : Lost(r, c)

LEMMA NextRowStep == TypeOK /\ WorkIsRecorded /\ [Next]_vars => RowStep
<1> SUFFICES ASSUME TypeOK, WorkIsRecorded, [Next]_vars PROVE RowStep
  OBVIOUS
<1>0. attempt \in [Requests -> Attempt]
  BY DEF TypeOK
<1>a. ASSUME attempt' = attempt, invoice' = invoice, req' = req, ledger' = ledger
      PROVE  RowStep
  BY <1>a DEF RowStep, RowsKept, Kept, LedgerGrows
<1>1. ASSUME NEW i \in Invoices, create(i) \/ send(i) \/ void(i) PROVE RowStep
  <2>1. PICK from, to, event :
          /\ MoveInvoice(i, from, to, event)
          /\ to \in {"draft", "sent", "void"}
          /\ from \in {{"absent"}, {"draft"}, {"draft", "sent"}}
          /\ to = "draft" => from = {"absent"}
    BY <1>1 DEF create, send, void
  <2>2. invoice' = [invoice EXCEPT ![i].state = to]
    BY <2>1 DEF MoveInvoice
  <2>3. invoice \in [Invoices -> [state : InvoiceStates, paid : Nat]]
    BY DEF TypeOK
  <2>4. /\ invoice'[i].state = to /\ invoice'[i].paid = invoice[i].paid
        /\ \A j \in Invoices \ {i} : invoice'[j] = invoice[j]
    BY <2>2, <2>3
  <2>5. attempt' = attempt /\ req' = req /\ ledger' = ledger
    BY <2>1 DEF MoveInvoice, psp, clients
  <2>6. invoice[i].state \in {"absent", "draft", "sent"}
    BY <2>1 DEF MoveInvoice
  <2>7. to = "draft" => invoice[i].state = "absent"
    BY <2>1 DEF MoveInvoice
  <2>8. InvoiceMoved(i)
    <3>1. to \in {"draft", "sent", "void"}
      BY <2>1
    <3> QED BY <2>4, <2>5, <2>6, <2>7, <3>1 DEF InvoiceMoved
  <2> QED BY <2>8 DEF RowStep
<1>2. ASSUME NEW r \in Requests, PayKnownKey(r) PROVE RowStep
  BY <1>2, <1>a DEF PayKnownKey, Refuse, Answer, rows, psp
<1>3. ASSUME NEW r \in Requests, PayRefused(r) PROVE RowStep
  BY <1>3, <1>a DEF PayRefused, Refuse, rows, psp
<1>4. ASSUME NEW r \in Requests, PayClaim(r) PROVE RowStep
  <2>1. attempt' = [attempt EXCEPT ![r] =
              [@ EXCEPT !.status = "pending", !.amount = AmountDue(InvoiceOf(r))]]
    BY <1>4 DEF PayClaim
  <2>2. /\ attempt'[r].status = "pending"
        /\ attempt'[r].amount = AmountDue(InvoiceOf(r))
        /\ attempt'[r].code = attempt[r].code
        /\ \A x \in Requests \ {r} : attempt'[x] = attempt[x]
    BY <1>0, <2>1, UpdateEffect
  <2>3. ~Exists(r) /\ is_collectible(InvoiceOf(r)) /\ ~InProgress(InvoiceOf(r))
    BY <1>4 DEF PayClaim, WorkIsRecorded
  <2>4. invoice' = invoice /\ req' = req /\ ledger' = ledger
    BY <1>4 DEF PayClaim, psp
  <2> QED BY <2>2, <2>3, <2>4 DEF RowStep, Inserted, Kept
<1>5. ASSUME NEW r \in Requests, PayCharge(r) PROVE RowStep
  BY <1>5, <1>a DEF PayCharge, rows
<1>6. ASSUME NEW r \in Requests, PaySettle(r) PROVE RowStep
  <2>1. PICK o \in Outcomes(r) : settle(r, o)
    BY <1>6 DEF PaySettle
  <2>2. req' = req /\ ledger' = ledger
    BY <1>6 DEF PaySettle, psp
  <2> QED BY <2>1, <2>2, SettleEffect DEF RowStep
<1>7. ASSUME NEW r \in Requests, PayLost(r) PROVE RowStep
  BY <1>7, <1>a DEF PayLost, rows, psp
<1>8. ASSUME NEW r \in Requests, PspProcess(r) PROVE RowStep
  <2>1. LedgerGrows
    BY <1>8 DEF PspProcess, LedgerGrows, TypeOK
  <2> QED BY <1>8, <2>1 DEF PspProcess, RowStep, RowsKept, Kept, rows, clients
<1>9. ASSUME NEW w \in Workers, NEW S \in SUBSET Requests, claim(w, S) PROVE RowStep
  <2>1. \A x \in Requests : Kept(x)
    BY <1>0, <1>9 DEF claim, Kept, Attempt
  <2> QED BY <1>9, <2>1 DEF claim, RowStep, RowsKept, LedgerGrows, psp, clients
<1>10. ASSUME NEW w \in Workers, NEW r \in Requests, give_up(w, r) PROVE RowStep
  <2>1. invoice' = invoice /\ req' = req /\ ledger' = ledger
    BY <1>10 DEF give_up, psp, clients
  <2>2. CASE attempt[r].status = "pending"
    <3>1. attempt' = Failed(r, "reconciliation_exhausted")
      BY <1>10, <2>2 DEF give_up
    <3>2. /\ attempt'[r].status = "failed"
          /\ attempt'[r].code = "reconciliation_exhausted"
          /\ \A x \in Requests \ {r} : attempt'[x] = attempt[x]
      BY <1>0, <3>1, UpdateEffect
    <3> QED BY <2>1, <2>2, <3>2 DEF RowStep, Lost, Kept
  <2>3. CASE attempt[r].status # "pending"
    BY <1>10, <1>a, <2>1, <2>3 DEF give_up
  <2> QED BY <2>2, <2>3
<1>11. ASSUME NEW w \in Workers, NEW r \in Requests, Resubmit(w, r) PROVE RowStep
  BY <1>11, <1>a DEF Resubmit, rows, clients
<1>12. ASSUME NEW w \in Workers, Reconciled(w) PROVE RowStep
  <2>1. busy[w] \in Requests
    BY <1>12 DEF Reconciled, TypeOK
  <2>2. PICK o \in Outcomes(busy[w]) : settle(busy[w], o)
    BY <1>12 DEF Reconciled
  <2>3. req' = req /\ ledger' = ledger
    BY <1>12 DEF Reconciled, psp, clients
  <2> QED BY <2>1, <2>2, <2>3, SettleEffect DEF RowStep
<1>13. ASSUME NEW w \in Workers, Unresolved(w) PROVE RowStep
  BY <1>13, <1>a DEF Unresolved, rows, psp, clients
<1>14. ASSUME NEW w \in Workers, WorkerFault(w) PROVE RowStep
  BY <1>14, <1>a DEF WorkerFault, rows, psp, clients
<1>15. CASE UNCHANGED vars
  BY <1>15, <1>a DEF vars, rows, psp, clients
<1> QED
  BY <1>1, <1>2, <1>3, <1>4, <1>5, <1>6, <1>7, <1>8, <1>9, <1>10, <1>11,
     <1>12, <1>13, <1>14, <1>15 DEF Next

-----------------------------------------------------------------------------
(* Each of the six changes preserves the invariant on the rows.            *)

LEMMA TotalIsPositive == \A i \in Invoices : Total[i] \in Nat /\ Total[i] > 0
BY PaymentsAssumption

LEMMA InvoiceOfType ==
    ASSUME TypeOK, NEW r \in Requests PROVE InvoiceOf(r) \in Invoices
BY DEF TypeOK, Params, InvoiceOf

LEMMA InvoiceOfKept ==
    ASSUME req' = req, NEW r PROVE InvoiceOf(r)' = InvoiceOf(r)
BY DEF InvoiceOf

LEMMA KeptRowInv == TypeOK /\ RowInv /\ RowsKept => RowInv'
<1> SUFFICES ASSUME TypeOK, RowInv, RowsKept PROVE RowInv'
  OBVIOUS
<1> USE DEF RowsKept, Kept
<1>1. CodesMatch'
  BY DEF RowInv, CodesMatch
<1>2. OneLivePerInvoice'
  BY DEF RowInv, OneLivePerInvoice, Live, InvoiceOf
<1>3. SuccessEndsInvoice'
  BY DEF RowInv, SuccessEndsInvoice, InvoiceOf
<1>4. PaidHasSuccess'
  BY DEF RowInv, PaidHasSuccess, InvoiceOf
<1>5. AllOrNothing'
  BY DEF RowInv, AllOrNothing
<1>6. FullAmount'
  BY DEF RowInv, FullAmount, InvoiceOf
<1>7. VerdictsAreTrue'
  BY DEF RowInv, VerdictsAreTrue, LedgerGrows
<1>8. LiveWasSent'
  BY DEF RowInv, LiveWasSent, Live, InvoiceOf
<1> QED BY <1>1, <1>2, <1>3, <1>4, <1>5, <1>6, <1>7, <1>8 DEF RowInv

LEMMA MovedRowInv ==
    ASSUME TypeOK, RowInv, NEW i \in Invoices, InvoiceMoved(i)
    PROVE  RowInv'
<1> USE DEF InvoiceMoved
<1>1. CodesMatch' /\ OneLivePerInvoice' /\ FullAmount' /\ VerdictsAreTrue'
  BY DEF RowInv, CodesMatch, OneLivePerInvoice, FullAmount, VerdictsAreTrue, Live, InvoiceOf
<1>2. SuccessEndsInvoice'
  <2> SUFFICES ASSUME NEW r \in Requests, attempt[r].status = "succeeded"
               PROVE  invoice'[InvoiceOf(r)].state \in {"paid", "void"}
    BY DEF SuccessEndsInvoice, InvoiceOf
  <2>1. InvoiceOf(r) \in Invoices /\ invoice[InvoiceOf(r)].state \in {"paid", "void"}
    BY InvoiceOfType DEF RowInv, SuccessEndsInvoice
  <2> QED BY <2>1
<1>3. PaidHasSuccess'
  BY DEF RowInv, PaidHasSuccess, InvoiceOf
<1>4. AllOrNothing'
  BY DEF RowInv, AllOrNothing
<1>5. LiveWasSent'
  <2> SUFFICES ASSUME NEW r \in Requests, Live(r)
               PROVE  invoice'[InvoiceOf(r)].state \notin {"absent", "draft"}
    BY DEF LiveWasSent, Live, InvoiceOf
  <2>1. InvoiceOf(r) \in Invoices
        /\ invoice[InvoiceOf(r)].state \notin {"absent", "draft"}
    BY InvoiceOfType DEF RowInv, LiveWasSent
  <2> QED BY <2>1
<1> QED BY <1>1, <1>2, <1>3, <1>4, <1>5 DEF RowInv

\* A new pending attempt is the only live one of its invoice, and it is for
\* the whole total because nothing has been paid.
LEMMA InsertedRowInv ==
    ASSUME TypeOK, RowInv, NEW r \in Requests, Inserted(r)
    PROVE  RowInv'
<1> USE DEF Inserted, Kept
<1>0. InvoiceOf(r) \in Invoices
  BY InvoiceOfType
<1>1. CodesMatch'
  BY DEF RowInv, CodesMatch, Exists
<1>2. OneLivePerInvoice'
  <2>1. \A x \in Requests : Live(x) => InvoiceOf(x) # InvoiceOf(r)
    <3> SUFFICES ASSUME NEW x \in Requests, Live(x), InvoiceOf(x) = InvoiceOf(r)
                 PROVE  FALSE
      OBVIOUS
    <3>1. attempt[x].status # "pending"
      BY DEF InProgress, Pending
    <3>2. invoice[InvoiceOf(r)].state \in {"paid", "void"}
      BY <3>1 DEF RowInv, SuccessEndsInvoice, Live
    <3> QED BY <3>2 DEF is_collectible
  <2>2. \A x \in Requests \ {r} : Live(x)' = Live(x)
    BY DEF Live
  <2> QED BY <2>1, <2>2 DEF RowInv, OneLivePerInvoice, InvoiceOf
<1>3. SuccessEndsInvoice'
  BY DEF RowInv, SuccessEndsInvoice, InvoiceOf
<1>4. PaidHasSuccess'
  BY DEF RowInv, PaidHasSuccess, InvoiceOf, Exists
<1>5. AllOrNothing'
  BY DEF RowInv, AllOrNothing
<1>6. FullAmount'
  <2>1. AmountDue(InvoiceOf(r)) = Total[InvoiceOf(r)]
    <3>1. invoice[InvoiceOf(r)].paid = 0
      BY <1>0 DEF RowInv, AllOrNothing, is_collectible
    <3>2. Total[InvoiceOf(r)] \in Nat /\ Total[InvoiceOf(r)] > 0
      BY <1>0, TotalIsPositive
    <3> QED BY <3>1, <3>2 DEF AmountDue, remaining
  <2> QED BY <2>1 DEF RowInv, FullAmount, InvoiceOf
<1>7. VerdictsAreTrue'
  BY DEF RowInv, VerdictsAreTrue, Exists
<1>8. LiveWasSent'
  BY DEF RowInv, LiveWasSent, Live, InvoiceOf, is_collectible
<1> QED BY <1>1, <1>2, <1>3, <1>4, <1>5, <1>6, <1>7, <1>8 DEF RowInv

\* A collectible invoice is paid in full by the attempt that won; one that was
\* voided meanwhile stays as it was.
LEMMA WonRowInv ==
    ASSUME TypeOK, RowInv, NEW r \in Requests, Won(r)
    PROVE  RowInv'
<1> DEFINE i == InvoiceOf(r)
<1> USE DEF Won, Kept
<1>0. i \in Invoices /\ invoice \in [Invoices -> [state : InvoiceStates, paid : Nat]]
  BY InvoiceOfType DEF TypeOK
<1>a. \A j \in Invoices \ {i} : invoice'[j] = invoice[j]
  BY <1>0 DEF Credited
<1>b. \/ is_collectible(i) /\ invoice'[i] = [state |-> "paid", paid |-> Total[i]]
      \/ ~is_collectible(i) /\ invoice'[i] = invoice[i]
  <2>1. CASE is_collectible(i)
    <3>1. attempt[r].amount = Total[i]
      BY DEF RowInv, FullAmount
    <3>2. invoice[i].paid = 0
      BY <1>0, <2>1 DEF RowInv, AllOrNothing, is_collectible
    <3>3. Total[i] \in Nat
      BY <1>0, TotalIsPositive
    <3>4. invoice[i].paid + attempt[r].amount = Total[i] /\ Total[i] >= Total[i]
      BY <3>1, <3>2, <3>3
    <3>5. invoice' = [invoice EXCEPT ![i] = [state |-> "paid", paid |-> Total[i]]]
      BY <2>1, <3>4 DEF Credited
    <3> QED BY <1>0, <2>1, <3>5
  <2>2. CASE ~is_collectible(i)
    BY <2>2
  <2> QED BY <2>1, <2>2
<1>1. CodesMatch'
  BY DEF RowInv, CodesMatch
<1>2. OneLivePerInvoice'
  <2>1. \A x \in Requests : Live(x)' = Live(x)
    BY DEF Live
  <2> QED BY <2>1 DEF RowInv, OneLivePerInvoice, InvoiceOf
<1>3. SuccessEndsInvoice'
  <2> SUFFICES ASSUME NEW x \in Requests, attempt'[x].status = "succeeded"
               PROVE  invoice'[InvoiceOf(x)].state \in {"paid", "void"}
    BY DEF SuccessEndsInvoice, InvoiceOf
  <2>0. InvoiceOf(x) \in Invoices
    BY InvoiceOfType
  <2>1. CASE x = r
    <3>1. invoice[i].state \notin {"absent", "draft"}
      BY DEF RowInv, LiveWasSent, Live
    <3>2. CASE is_collectible(i)
      BY <1>b, <2>1, <3>2
    <3>3. CASE ~is_collectible(i)
      BY <1>0, <1>b, <2>1, <3>1, <3>3 DEF is_collectible, InvoiceStates
    <3> QED BY <3>2, <3>3
  <2>2. CASE x # r
    <3>1. invoice[InvoiceOf(x)].state \in {"paid", "void"}
      BY <2>2 DEF RowInv, SuccessEndsInvoice
    <3> QED BY <1>a, <1>b, <2>0, <3>1 DEF is_collectible
  <2> QED BY <2>1, <2>2
<1>4. PaidHasSuccess'
  <2> SUFFICES ASSUME NEW j \in Invoices, invoice'[j].state = "paid"
               PROVE  \E x \in Requests : InvoiceOf(x) = j /\ attempt'[x].status = "succeeded"
    BY DEF PaidHasSuccess, InvoiceOf
  <2>1. CASE j = i
    BY <2>1
  <2>2. CASE j # i
    <3>1. invoice[j].state = "paid"
      BY <1>a, <2>2
    <3> QED BY <3>1 DEF RowInv, PaidHasSuccess
  <2> QED BY <2>1, <2>2
<1>5. AllOrNothing'
  <2> SUFFICES ASSUME NEW j \in Invoices
               PROVE  /\ invoice'[j].state # "partially_paid"
                      /\ invoice'[j].paid = IF invoice'[j].state = "paid" THEN Total[j] ELSE 0
    BY DEF AllOrNothing
  <2>1. CASE invoice'[j] = invoice[j]
    BY <2>1 DEF RowInv, AllOrNothing
  <2>2. CASE j = i /\ invoice'[i] = [state |-> "paid", paid |-> Total[i]]
    BY <2>2
  <2> QED BY <1>a, <1>b, <2>1, <2>2
<1>6. FullAmount'
  BY DEF RowInv, FullAmount, InvoiceOf
<1>7. VerdictsAreTrue'
  BY DEF RowInv, VerdictsAreTrue, CodesMatch
<1>8. LiveWasSent'
  <2> SUFFICES ASSUME NEW x \in Requests, Live(x)'
               PROVE  invoice'[InvoiceOf(x)].state \notin {"absent", "draft"}
    BY DEF LiveWasSent, InvoiceOf
  <2>1. InvoiceOf(x) \in Invoices
    BY InvoiceOfType
  <2>2. invoice[InvoiceOf(x)].state \notin {"absent", "draft"}
    BY DEF RowInv, LiveWasSent, Live
  <2> QED BY <1>a, <1>b, <2>1, <2>2
<1> QED BY <1>1, <1>2, <1>3, <1>4, <1>5, <1>6, <1>7, <1>8 DEF RowInv

LEMMA LostRowInv ==
    ASSUME TypeOK, RowInv, NEW r \in Requests, NEW c, Lost(r, c)
    PROVE  RowInv'
<1> USE DEF Lost, Kept
<1>1. CodesMatch'
  BY DEF RowInv, CodesMatch
<1>2. OneLivePerInvoice'
  <2>1. \A x \in Requests : Live(x)' => Live(x)
    BY DEF Live
  <2> QED BY <2>1 DEF RowInv, OneLivePerInvoice, InvoiceOf
<1>3. SuccessEndsInvoice'
  BY DEF RowInv, SuccessEndsInvoice, InvoiceOf
<1>4. PaidHasSuccess'
  BY DEF RowInv, PaidHasSuccess, InvoiceOf
<1>5. AllOrNothing'
  BY DEF RowInv, AllOrNothing
<1>6. FullAmount'
  BY DEF RowInv, FullAmount, InvoiceOf
<1>7. VerdictsAreTrue'
  BY DEF RowInv, VerdictsAreTrue
<1>8. LiveWasSent'
  BY DEF RowInv, LiveWasSent, Live, InvoiceOf
<1> QED BY <1>1, <1>2, <1>3, <1>4, <1>5, <1>6, <1>7, <1>8 DEF RowInv

LEMMA RowInvStep == TypeOK /\ WorkIsRecorded /\ RowInv /\ [Next]_vars => RowInv'
BY NextRowStep, KeptRowInv, MovedRowInv, InsertedRowInv, WonRowInv, LostRowInv
   DEF RowStep

-----------------------------------------------------------------------------
(* Whoever works on an attempt works on a committed row.                   *)

\* A settlement inserts nothing.
LEMMA SettleInsertsNothing ==
    ASSUME TypeOK, NEW r \in Requests, NEW o \in Outcomes(r), settle(r, o),
           req' = req, ledger' = ledger
    PROVE  \A x \in Requests : Exists(x)' <=> Exists(x)
BY SettleEffect DEF RowsKept, Won, Lost, Kept, Exists

LEMMA WorkStep == TypeOK /\ WorkIsRecorded /\ [Next]_vars => WorkIsRecorded'
<1> SUFFICES ASSUME TypeOK, WorkIsRecorded, [Next]_vars PROVE WorkIsRecorded'
  OBVIOUS
<1>0. /\ \A x \in Requests : handler[x] = "idle" => ~Exists(x)
      /\ \A x \in Requests : handler[x] \in {"claimed", "charging"} => Exists(x)
      /\ \A w \in Workers, x \in Requests : batch[w][x] > 0 => Exists(x)
      /\ \A w \in Workers : busy[w] # None => Exists(busy[w])
      /\ \A x \in Requests : x \in onWire => Exists(x)
      /\ \A x \in Requests : ledger[x] # "none" => Exists(x)
  BY DEF WorkIsRecorded, ChargesAreRecorded
<1>a. /\ handler \in [Requests -> {"idle", "claimed", "charging", "done"}]
      /\ batch \in [Workers -> [Requests -> Nat]]
      /\ busy \in [Workers -> Requests \cup {None}]
      /\ ledger \in [Requests -> {"none", "succeeded", "failed"}]
      /\ attempt \in [Requests -> Attempt]
  BY DEF TypeOK
<1>b. \A w \in Workers : busy[w] # None => busy[w] \in Requests
  BY <1>a
<1>c. ASSUME \A x \in Requests : Exists(x)' <=> Exists(x), UNCHANGED <<handler, batch, busy, psp>>
      PROVE  WorkIsRecorded'
  BY <1>0, <1>b, <1>c DEF WorkIsRecorded, ChargesAreRecorded, psp
<1>d. attempt' = attempt => \A x \in Requests : Exists(x)' <=> Exists(x)
  BY DEF Exists
<1>1. ASSUME NEW i \in Invoices, create(i) \/ send(i) \/ void(i) PROVE WorkIsRecorded'
  BY <1>1, <1>c, <1>d DEF create, send, void, MoveInvoice, clients, workers
<1>e. ASSUME NEW r \in Requests, NEW s \in {"charging", "done"},
             s = "charging" => Exists(r),
             handler' = [handler EXCEPT ![r] = s],
             \A x \in Requests : Exists(x)' <=> Exists(x),
             UNCHANGED <<batch, busy, ledger>>, onWire' \subseteq onWire \cup {r},
             onWire' # onWire => Exists(r)
      PROVE  WorkIsRecorded'
  BY <1>0, <1>a, <1>b, <1>e DEF WorkIsRecorded, ChargesAreRecorded
<1>2. ASSUME NEW r \in Requests, PayKnownKey(r) PROVE WorkIsRecorded'
  BY <1>2, <1>a, <1>d, <1>e DEF PayKnownKey, Refuse, Answer, rows, psp, workers
<1>3. ASSUME NEW r \in Requests, PayRefused(r) PROVE WorkIsRecorded'
  BY <1>3, <1>a, <1>d, <1>e DEF PayRefused, Refuse, Answer, rows, psp, workers
<1>4. ASSUME NEW r \in Requests, PayClaim(r) PROVE WorkIsRecorded'
  <2>1. attempt' = [attempt EXCEPT ![r] =
              [@ EXCEPT !.status = "pending", !.amount = AmountDue(InvoiceOf(r))]]
    BY <1>4 DEF PayClaim
  <2>2. /\ attempt'[r].status = "pending"
        /\ \A x \in Requests \ {r} : attempt'[x] = attempt[x]
    BY <1>a, <2>1, UpdateEffect
  <2>3. Exists(r)' /\ \A x \in Requests \ {r} : Exists(x)' <=> Exists(x)
    BY <2>2 DEF Exists
  <2>4. handler'[r] = "claimed" /\ \A x \in Requests \ {r} : handler'[x] = handler[x]
    BY <1>4, <1>a DEF PayClaim
  <2>5. UNCHANGED <<psp, workers>>
    BY <1>4 DEF PayClaim
  <2> QED
    BY <1>0, <1>b, <2>3, <2>4, <2>5 DEF WorkIsRecorded, ChargesAreRecorded, psp, workers
<1>5. ASSUME NEW r \in Requests, PayCharge(r) PROVE WorkIsRecorded'
  <2>1. Exists(r)
    BY <1>0, <1>5 DEF PayCharge
  <2>2. \A x \in Requests : Exists(x)' <=> Exists(x)
    BY <1>5, <1>d DEF PayCharge, rows
  <2>3. /\ handler' = [handler EXCEPT ![r] = "charging"]
        /\ UNCHANGED <<batch, busy, ledger>> /\ onWire' \subseteq onWire \cup {r}
    BY <1>5 DEF PayCharge, workers
  <2> QED BY <2>1, <2>2, <2>3, <1>e
<1>6. ASSUME NEW r \in Requests, PaySettle(r) PROVE WorkIsRecorded'
  <2>1. PICK o \in Outcomes(r) : settle(r, o)
    BY <1>6 DEF PaySettle
  <2>2. \A x \in Requests : Exists(x)' <=> Exists(x)
    BY <1>6, <2>1, SettleInsertsNothing DEF PaySettle, psp
  <2>3. /\ handler' = [handler EXCEPT ![r] = "done"]
        /\ UNCHANGED <<batch, busy, ledger, onWire>>
    BY <1>6 DEF PaySettle, Answer, psp, workers
  <2> QED BY <2>2, <2>3, <1>e
<1>7. ASSUME NEW r \in Requests, PayLost(r) PROVE WorkIsRecorded'
  BY <1>7, <1>d, <1>e DEF PayLost, rows, psp, workers
<1>8. ASSUME NEW r \in Requests, PspProcess(r) PROVE WorkIsRecorded'
  <2>1. Exists(r) /\ \A x \in Requests \ {r} : ledger'[x] = ledger[x]
    BY <1>0, <1>8, <1>a DEF PspProcess
  <2>2. UNCHANGED <<handler, batch, busy>> /\ onWire' \subseteq onWire
        /\ \A x \in Requests : Exists(x)' <=> Exists(x)
    BY <1>8, <1>d DEF PspProcess, rows, clients, workers
  <2> QED BY <1>0, <1>b, <2>1, <2>2 DEF WorkIsRecorded, ChargesAreRecorded
<1>9. ASSUME NEW w \in Workers, NEW S \in SUBSET Requests, claim(w, S) PROVE WorkIsRecorded'
  <2>1. \A x \in Requests : Exists(x)' <=> Exists(x)
    BY <1>9, <1>a DEF claim, Exists, Attempt
  <2>2. \A x \in S : Exists(x)
    BY <1>9 DEF claim, Pending, Exists
  <2>3. \A x \in Requests : batch'[w][x] > 0 => x \in S
    BY <1>9, <1>a DEF claim
  <2>4. \A v \in Workers \ {w} : batch'[v] = batch[v]
    BY <1>9, <1>a DEF claim
  <2>5. UNCHANGED <<handler, busy, psp>>
    BY <1>9 DEF claim, clients
  <2> QED
    BY <1>0, <1>b, <2>1, <2>2, <2>3, <2>4, <2>5 DEF WorkIsRecorded, ChargesAreRecorded, psp
<1>10. ASSUME NEW w \in Workers, NEW r \in Requests, Visit(w, r)
       PROVE  /\ Exists(r)
              /\ \A v \in Workers, x \in Requests : batch'[v][x] > 0 => batch[v][x] > 0
  BY <1>0, <1>10, <1>a DEF Visit
<1>11. ASSUME NEW w \in Workers, NEW r \in Requests, give_up(w, r) PROVE WorkIsRecorded'
  <2>1. \A x \in Requests : Exists(x)' <=> Exists(x)
    <3>1. CASE attempt[r].status = "pending"
      <4>1. attempt' = Failed(r, "reconciliation_exhausted")
        BY <1>11, <3>1 DEF give_up
      <4>2. /\ attempt'[r].status = "failed"
            /\ \A x \in Requests \ {r} : attempt'[x] = attempt[x]
        BY <1>a, <4>1, UpdateEffect
      <4> QED BY <3>1, <4>2 DEF Exists
    <3>2. CASE attempt[r].status # "pending"
      BY <1>11, <1>d, <3>2 DEF give_up
    <3> QED BY <3>1, <3>2
  <2>2. \A v \in Workers, x \in Requests : batch'[v][x] > 0 => batch[v][x] > 0
    BY <1>10, <1>11 DEF give_up
  <2>3. UNCHANGED <<handler, busy, psp>>
    BY <1>11 DEF give_up, clients
  <2> QED BY <1>0, <1>b, <2>1, <2>2, <2>3 DEF WorkIsRecorded, ChargesAreRecorded, psp
<1>12. ASSUME NEW w \in Workers, NEW r \in Requests, Resubmit(w, r) PROVE WorkIsRecorded'
  <2>1. Exists(r) /\ \A v \in Workers, x \in Requests : batch'[v][x] > 0 => batch[v][x] > 0
    BY <1>10, <1>12 DEF Resubmit
  <2>2. \A x \in Requests : Exists(x)' <=> Exists(x)
    BY <1>12, <1>d DEF Resubmit, rows
  <2>3. \A v \in Workers : busy'[v] = busy[v] \/ busy'[v] = r
    BY <1>12, <1>a DEF Resubmit
  <2>4. UNCHANGED <<handler, ledger>> /\ onWire' = onWire \cup {r}
    BY <1>12 DEF Resubmit, clients
  <2> QED BY <1>0, <1>b, <2>1, <2>2, <2>3, <2>4 DEF WorkIsRecorded, ChargesAreRecorded
<1>f. ASSUME NEW w \in Workers, busy' = [busy EXCEPT ![w] = None],
             \A x \in Requests : Exists(x)' <=> Exists(x),
             UNCHANGED <<handler, batch, psp>>
      PROVE  WorkIsRecorded'
  BY <1>0, <1>a, <1>b, <1>f DEF WorkIsRecorded, ChargesAreRecorded, psp
<1>13. ASSUME NEW w \in Workers, Reconciled(w) PROVE WorkIsRecorded'
  <2>1. busy[w] \in Requests
    BY <1>13, <1>b DEF Reconciled
  <2>2. PICK o \in Outcomes(busy[w]) : settle(busy[w], o)
    BY <1>13 DEF Reconciled
  <2>3. \A x \in Requests : Exists(x)' <=> Exists(x)
    BY <1>13, <2>1, <2>2, SettleInsertsNothing DEF Reconciled, psp, clients
  <2> QED BY <1>13, <1>f, <2>3 DEF Reconciled, clients
<1>14. ASSUME NEW w \in Workers, Unresolved(w) PROVE WorkIsRecorded'
  BY <1>14, <1>d, <1>f DEF Unresolved, rows, clients
<1>15. ASSUME NEW w \in Workers, WorkerFault(w) PROVE WorkIsRecorded'
  <2>1. \A v \in Workers, x \in Requests : batch'[v][x] > 0 => batch[v][x] > 0
    BY <1>10, <1>15, <1>a DEF WorkerFault, NoBatch
  <2>2. \A v \in Workers : busy'[v] = busy[v] \/ busy'[v] = None
    BY <1>15, <1>a DEF WorkerFault
  <2>3. UNCHANGED <<handler, psp>> /\ \A x \in Requests : Exists(x)' <=> Exists(x)
    BY <1>15, <1>d DEF WorkerFault, rows, clients
  <2> QED BY <1>0, <1>b, <2>1, <2>2, <2>3 DEF WorkIsRecorded, ChargesAreRecorded, psp
<1>16. CASE UNCHANGED vars
  BY <1>16, <1>c, <1>d DEF vars, rows, clients, workers
<1> QED
  BY <1>1, <1>2, <1>3, <1>4, <1>5, <1>6, <1>7, <1>8, <1>9, <1>11, <1>12,
     <1>13, <1>14, <1>15, <1>16 DEF Next

-----------------------------------------------------------------------------
(* The theorems                                                            *)

LEMMA InvInit == Init => PaymentInv
<1> SUFFICES ASSUME Init PROVE PaymentInv
  OBVIOUS
<1>1. WorkIsRecorded
  BY DEF Init, WorkIsRecorded, ChargesAreRecorded, Exists, NoAttempt, NoBatch
<1>2. CodesMatch /\ OneLivePerInvoice /\ SuccessEndsInvoice /\ LiveWasSent
  BY DEF Init, CodesMatch, OneLivePerInvoice, SuccessEndsInvoice, LiveWasSent,
         Live, NoAttempt
<1>3. PaidHasSuccess /\ AllOrNothing
  BY DEF Init, PaidHasSuccess, AllOrNothing
<1>4. FullAmount /\ VerdictsAreTrue
  BY DEF Init, FullAmount, VerdictsAreTrue, NoAttempt
<1> QED BY <1>1, <1>2, <1>3, <1>4 DEF PaymentInv, RowInv

\* The invariant behind the safety properties: handlers, reconcilers and the
\* provider only work on committed attempts, an invoice has at most one live
\* attempt, and its money and state follow from that attempt.
THEOREM InvariantHolds == Spec => []PaymentInv
<1>1. Init => PaymentInv
  BY InvInit
<1>2. TypeOK /\ PaymentInv /\ [Next]_vars => PaymentInv'
  BY WorkStep, RowInvStep DEF PaymentInv
<1> QED BY <1>1, <1>2, TypeCorrect, PTL DEF Spec

\* Charged once: two attempts the provider was paid for, and that no person
\* was asked about, cannot belong to one invoice.
THEOREM NeverChargedTwice == Spec => []ChargedOnce
<1>1. TypeOK /\ PaymentInv => ChargedOnce
  <2> SUFFICES ASSUME TypeOK, PaymentInv, NEW i \in Invoices,
                      NEW r1 \in AttemptsOf(i), NEW r2 \in AttemptsOf(i),
                      ledger[r1] = "succeeded", ~HandedOff(r1),
                      ledger[r2] = "succeeded", ~HandedOff(r2)
               PROVE  r1 = r2
    BY DEF ChargedOnce
  <2>1. ASSUME NEW r \in AttemptsOf(i), ledger[r] = "succeeded", ~HandedOff(r)
        PROVE  Live(r) /\ r \in Requests /\ InvoiceOf(r) = i
    <3>1. r \in Requests /\ InvoiceOf(r) = i /\ attempt[r].status # "none"
      BY DEF AttemptsOf, Exists
    <3>2. attempt[r].code # "declined"
      BY <2>1, <3>1 DEF PaymentInv, RowInv, VerdictsAreTrue
    <3>3. attempt[r].status # "failed"
      BY <2>1, <3>1, <3>2 DEF HandedOff, TypeOK, Attempt, PaymentInv, RowInv, CodesMatch
    <3> QED BY <3>1, <3>3 DEF Live, TypeOK, Attempt
  <2> QED BY <2>1 DEF PaymentInv, RowInv, OneLivePerInvoice
<1> QED BY <1>1, TypeCorrect, InvariantHolds, PTL

\* No charge without a row: what the provider was asked, the database knows.
THEOREM NoChargeIsLost == Spec => []ChargesAreRecorded
BY InvariantHolds, PTL DEF PaymentInv, WorkIsRecorded

\* Succeeded and declined are only ever recorded on the provider's word.
THEOREM VerdictsHold == Spec => []VerdictsAreTrue
BY InvariantHolds, PTL DEF PaymentInv, RowInv

\* The invoice's money and state are those of its succeeded attempts.
THEOREM MoneyIsAccountedFor == Spec => []MoneyMatchesAttempts
<1>1. PaymentInv => MoneyMatchesAttempts
  <2> SUFFICES ASSUME PaymentInv, NEW i \in Invoices
               PROVE  LET wins == {r \in AttemptsOf(i) : attempt[r].status = "succeeded"} IN
                      /\ invoice[i].state # "partially_paid"
                      /\ invoice[i].paid = IF invoice[i].state = "paid" THEN Total[i] ELSE 0
                      /\ invoice[i].state = "paid" => \E r \in wins : wins = {r}
                      /\ wins # {} => invoice[i].state \in {"paid", "void"}
    BY DEF MoneyMatchesAttempts
  <2> DEFINE wins == {r \in AttemptsOf(i) : attempt[r].status = "succeeded"}
  <2>1. \A r : r \in wins <=> r \in Requests /\ InvoiceOf(r) = i
                              /\ attempt[r].status = "succeeded"
    BY DEF AttemptsOf, Exists
  <2>2. \A r1, r2 \in wins : r1 = r2
    BY <2>1 DEF PaymentInv, RowInv, OneLivePerInvoice, Live
  <2>3. wins # {} => invoice[i].state \in {"paid", "void"}
    BY <2>1 DEF PaymentInv, RowInv, SuccessEndsInvoice
  <2>4. invoice[i].state = "paid" => \E r \in wins : wins = {r}
    <3> SUFFICES ASSUME invoice[i].state = "paid" PROVE \E r \in wins : wins = {r}
      OBVIOUS
    <3>1. PICK r \in Requests : InvoiceOf(r) = i /\ attempt[r].status = "succeeded"
      BY DEF PaymentInv, RowInv, PaidHasSuccess
    <3>2. r \in wins
      BY <2>1, <3>1
    <3> HIDE DEF wins
    <3> QED BY <2>2, <3>2
  <2> QED BY <2>3, <2>4 DEF PaymentInv, RowInv, AllOrNothing
<1> QED BY <1>1, InvariantHolds, PTL

\* Once settled, an attempt is never rewritten, by whatever step.
THEOREM SettledStays == Spec => SettledIsFinal
<1>1. TypeOK /\ PaymentInv /\ [Next]_vars =>
        [\A r \in Requests :
           attempt[r].status \in {"succeeded", "failed"} =>
              /\ attempt'[r].status = attempt[r].status
              /\ attempt'[r].code = attempt[r].code]_vars
  <2> SUFFICES ASSUME TypeOK, PaymentInv, [Next]_vars,
                      NEW r \in Requests, attempt[r].status \in {"succeeded", "failed"}
               PROVE  /\ attempt'[r].status = attempt[r].status
                      /\ attempt'[r].code = attempt[r].code
    OBVIOUS
  <2>1. RowStep
    BY NextRowStep DEF PaymentInv
  <2>2. RowsKept \/ (\E i \in Invoices : InvoiceMoved(i)) \/ Kept(r)
    BY <2>1 DEF RowStep, Inserted, Won, Lost, Exists
  <2> QED BY <2>2 DEF RowsKept, InvoiceMoved, Kept
<1> QED BY <1>1, TypeCorrect, InvariantHolds, PTL DEF Spec, SettledIsFinal


-----------------------------------------------------------------------------
(* The reconciler's tickets.  The count a claim returns with an attempt is *)
(* a ticket: one visit of that attempt, by the worker that claimed it.     *)

\* No two replicas ever hold the same ticket for an attempt, and none holds
\* one the row has not counted: a crash that loses a batch loses its tickets,
\* it does not hand them out again. (UPDATE ... SET reconcile_attempts + 1 ...
\* RETURNING, in the claim of reconcile_once())
TicketsDiffer ==
    /\ \A w \in Workers, r \in Requests : batch[w][r] <= attempt[r].reconcile_attempts
    /\ \A w1, w2 \in Workers, r \in Requests :
          w1 # w2 /\ batch[w1][r] > 0 => batch[w1][r] # batch[w2][r]

\* A ticket is drawn by counting the row up by one, and a replica that asks the
\* provider again hands in one of the first MaxReconcile.  As tickets differ,
\* the provider is asked again at most MaxReconcile times about one attempt,
\* over all replicas, sweeps and restarts. (reconcile_once(), reconcile_one())
TicketsAreFresh ==
    [][\A w \in Workers, r \in Requests :
         LET n == attempt[r].reconcile_attempts IN
         /\ attempt'[r].reconcile_attempts \in {n, n + 1}
         /\ batch'[w][r] \notin {0, batch[w][r]} =>
               batch'[w][r] = n + 1 /\ attempt'[r].reconcile_attempts = n + 1
         /\ busy[w] # r /\ busy'[w] = r =>
               batch[w][r] \in 1 .. MaxReconcile /\ batch'[w][r] = 0]_vars

\* The provider is asked by handing in a ticket that is not exhausted.
HandsIn(w, r) == batch[w][r] \in 1 .. MaxReconcile /\ batch'[w][r] = 0

TicketsKept ==
    /\ \A x \in Requests : attempt'[x].reconcile_attempts = attempt[x].reconcile_attempts
    /\ \A v \in Workers, x \in Requests : batch'[v][x] \in {0, batch[v][x]}
    /\ \A v \in Workers, x \in Requests : busy[v] # x /\ busy'[v] = x => HandsIn(v, x)

TicketsDrawn(w, S) ==
    /\ \A x \in Requests : attempt'[x].reconcile_attempts =
          IF x \in S THEN attempt[x].reconcile_attempts + 1 ELSE attempt[x].reconcile_attempts
    /\ \A x \in Requests : batch'[w][x] =
          IF x \in S THEN attempt[x].reconcile_attempts + 1 ELSE 0
    /\ \A v \in Workers \ {w} : batch'[v] = batch[v]
    /\ busy' = busy

TicketStep ==
    TicketsKept \/ \E w \in Workers, S \in SUBSET Requests : TicketsDrawn(w, S)

\* A settlement and a give-up count nothing.
LEMMA UpdateCounts ==
    ASSUME attempt \in [Requests -> Attempt], NEW r \in Requests, NEW x \in Requests,
           NEW s, NEW c, NEW n
    PROVE  LET count == attempt[x].reconcile_attempts IN
           /\ [attempt EXCEPT ![r].status = s][x].reconcile_attempts = count
           /\ Failed(r, c)[x].reconcile_attempts = count
           /\ [attempt EXCEPT ![r] =
                 [@ EXCEPT !.status = s, !.amount = n]][x].reconcile_attempts = count
BY DEF Failed, Attempt

LEMMA SettleCounts ==
    ASSUME attempt \in [Requests -> Attempt], NEW r \in Requests, NEW o, settle(r, o),
           NEW x \in Requests
    PROVE  attempt'[x].reconcile_attempts = attempt[x].reconcile_attempts
<1>1. \/ attempt' = attempt
      \/ attempt' = [attempt EXCEPT ![r].status = "succeeded"]
      \/ attempt' = Failed(r, "declined")
  BY DEF settle, SettleSucceeded, SettleFailed
<1>2. CASE attempt' = [attempt EXCEPT ![r].status = "succeeded"]
  BY <1>2, UpdateCounts
<1>3. CASE attempt' = Failed(r, "declined")
  BY <1>3, UpdateCounts
<1> QED BY <1>1, <1>2, <1>3

LEMMA NextTicketStep == TypeOK /\ [Next]_vars => TicketStep
<1> SUFFICES ASSUME TypeOK, [Next]_vars PROVE TicketStep
  OBVIOUS
<1>0. /\ attempt \in [Requests -> Attempt]
      /\ batch \in [Workers -> [Requests -> Nat]]
      /\ busy \in [Workers -> Requests \cup {None}]
      /\ None \notin Requests
      /\ MaxReconcile \in Nat
  BY PaymentsAssumption DEF TypeOK
<1>a. ASSUME \A x \in Requests : attempt'[x].reconcile_attempts = attempt[x].reconcile_attempts,
             UNCHANGED <<batch, busy>>
      PROVE  TicketStep
  BY <1>a DEF TicketStep, TicketsKept
<1>b. ASSUME attempt' = attempt, UNCHANGED <<batch, busy>> PROVE TicketStep
  BY <1>a, <1>b
<1>c. ASSUME NEW w \in Workers, NEW r \in Requests, Visit(w, r)
      PROVE  /\ \A v \in Workers, x \in Requests : batch'[v][x] \in {0, batch[v][x]}
             /\ batch[w][r] > 0 /\ batch'[w][r] = 0
  BY <1>0, <1>c DEF Visit
<1>1. ASSUME NEW i \in Invoices, create(i) \/ send(i) \/ void(i) PROVE TicketStep
  BY <1>1, <1>b DEF create, send, void, MoveInvoice, workers
<1>2. ASSUME NEW r \in Requests, PayKnownKey(r) PROVE TicketStep
  BY <1>2, <1>b DEF PayKnownKey, Refuse, rows, workers
<1>3. ASSUME NEW r \in Requests, PayRefused(r) PROVE TicketStep
  BY <1>3, <1>b DEF PayRefused, Refuse, rows, workers
<1>4. ASSUME NEW r \in Requests, PayClaim(r) PROVE TicketStep
  <2>1. attempt' = [attempt EXCEPT ![r] =
              [@ EXCEPT !.status = "pending", !.amount = AmountDue(InvoiceOf(r))]]
    BY <1>4 DEF PayClaim
  <2>2. \A x \in Requests : attempt'[x].reconcile_attempts = attempt[x].reconcile_attempts
    BY <1>0, <2>1, UpdateCounts
  <2> QED BY <1>4, <1>a, <2>2 DEF PayClaim, workers
<1>5. ASSUME NEW r \in Requests, PayCharge(r) PROVE TicketStep
  BY <1>5, <1>b DEF PayCharge, rows, workers
<1>6. ASSUME NEW r \in Requests, PaySettle(r) PROVE TicketStep
  <2>1. PICK o : settle(r, o)
    BY <1>6 DEF PaySettle
  <2> QED BY <1>0, <1>6, <1>a, <2>1, SettleCounts DEF PaySettle, workers
<1>7. ASSUME NEW r \in Requests, PayLost(r) PROVE TicketStep
  BY <1>7, <1>b DEF PayLost, rows, workers
<1>8. ASSUME NEW r \in Requests, PspProcess(r) PROVE TicketStep
  BY <1>8, <1>b DEF PspProcess, rows, workers
<1>9. ASSUME NEW w \in Workers, NEW S \in SUBSET Requests, claim(w, S) PROVE TicketStep
  <2>1. \A x \in Requests : attempt'[x].reconcile_attempts =
          IF x \in S THEN attempt[x].reconcile_attempts + 1 ELSE attempt[x].reconcile_attempts
    BY <1>0, <1>9 DEF claim, Attempt
  <2>2. \A x \in Requests : batch'[w][x] =
          IF x \in S THEN attempt[x].reconcile_attempts + 1 ELSE 0
    BY <1>0, <1>9 DEF claim
  <2>3. \A v \in Workers \ {w} : batch'[v] = batch[v]
    BY <1>0, <1>9 DEF claim
  <2> QED BY <1>9, <2>1, <2>2, <2>3 DEF claim, TicketStep, TicketsDrawn
<1>10. ASSUME NEW w \in Workers, NEW r \in Requests, give_up(w, r) PROVE TicketStep
  <2>1. \A x \in Requests : attempt'[x].reconcile_attempts = attempt[x].reconcile_attempts
    BY <1>0, <1>10, UpdateCounts DEF give_up
  <2> QED BY <1>10, <1>c, <2>1 DEF give_up, TicketStep, TicketsKept
<1>11. ASSUME NEW w \in Workers, NEW r \in Requests, Resubmit(w, r) PROVE TicketStep
  <2>1. attempt' = attempt /\ Visit(w, r) /\ ~Exhausted(w, r)
        /\ busy' = [busy EXCEPT ![w] = r]
    BY <1>11 DEF Resubmit, rows
  <2>2. HandsIn(w, r)
    <3>1. batch[w][r] \in Nat /\ batch[w][r] <= MaxReconcile
      BY <1>0, <2>1 DEF Exhausted
    <3> QED BY <1>0, <1>c, <2>1, <3>1 DEF HandsIn
  <2>3. \A v \in Workers : busy'[v] = IF v = w THEN r ELSE busy[v]
    BY <1>0, <2>1
  <2> QED BY <1>c, <2>1, <2>2, <2>3 DEF TicketStep, TicketsKept
<1>d. ASSUME NEW w \in Workers, busy' = [busy EXCEPT ![w] = None], batch' = batch,
             \A x \in Requests : attempt'[x].reconcile_attempts = attempt[x].reconcile_attempts
      PROVE  TicketStep
  <2>1. \A v \in Workers : busy'[v] \in {None, busy[v]}
    BY <1>0, <1>d
  <2> QED BY <1>0, <1>d, <2>1 DEF TicketStep, TicketsKept
<1>12. ASSUME NEW w \in Workers, Reconciled(w) PROVE TicketStep
  <2>1. busy[w] \in Requests
    BY <1>0, <1>12 DEF Reconciled
  <2>2. PICK o : settle(busy[w], o)
    BY <1>12 DEF Reconciled
  <2>3. \A x \in Requests : attempt'[x].reconcile_attempts = attempt[x].reconcile_attempts
    BY <1>0, <2>1, <2>2, SettleCounts
  <2> QED BY <1>12, <1>d, <2>3 DEF Reconciled
<1>13. ASSUME NEW w \in Workers, Unresolved(w) PROVE TicketStep
  BY <1>13, <1>d DEF Unresolved, rows
<1>14. ASSUME NEW w \in Workers, WorkerFault(w) PROVE TicketStep
  <2>1. attempt' = attempt
    BY <1>14 DEF WorkerFault, rows
  <2>2. \A v \in Workers, x \in Requests : batch'[v][x] \in {0, batch[v][x]}
    BY <1>0, <1>14, <1>c DEF WorkerFault, NoBatch
  <2>3. \A v \in Workers : busy'[v] \in {None, busy[v]}
    BY <1>0, <1>14 DEF WorkerFault
  <2> QED BY <1>0, <2>1, <2>2, <2>3 DEF TicketStep, TicketsKept
<1>15. CASE UNCHANGED vars
  BY <1>15, <1>b DEF vars, rows, workers
<1> QED
  BY <1>1, <1>2, <1>3, <1>4, <1>5, <1>6, <1>7, <1>8, <1>9, <1>10, <1>11,
     <1>12, <1>13, <1>14, <1>15 DEF Next

\* No two replicas ever hold the same ticket for one attempt, whatever batches
\* were lost to restarts in between.
THEOREM TicketsAreUnique == Spec => []TicketsDiffer
<1>1. Init => TicketsDiffer
  BY DEF Init, NoBatch, NoAttempt, TicketsDiffer
<1>2. TypeOK /\ TicketsDiffer /\ [Next]_vars => TicketsDiffer'
  <2> SUFFICES ASSUME TypeOK, TicketsDiffer, TicketStep PROVE TicketsDiffer'
    BY NextTicketStep
  <2>0. /\ batch \in [Workers -> [Requests -> Nat]]
        /\ \A x \in Requests : attempt[x].reconcile_attempts \in Nat
    BY DEF TypeOK, Attempt
  <2>1. CASE TicketsKept
    BY <2>0, <2>1 DEF TicketsKept, TicketsDiffer
  <2>2. ASSUME NEW w \in Workers, NEW S \in SUBSET Requests, TicketsDrawn(w, S)
        PROVE  TicketsDiffer'
    <3>1. \A v \in Workers, x \in Requests :
             batch'[v][x] <= attempt'[x].reconcile_attempts
      BY <2>0, <2>2 DEF TicketsDrawn, TicketsDiffer
    <3>2. \A v \in Workers \ {w}, x \in Requests :
             batch'[v][x] > 0 => batch'[v][x] # batch'[w][x]
      BY <2>0, <2>2 DEF TicketsDrawn, TicketsDiffer
    <3>3. \A v \in Workers \ {w}, x \in Requests :
             batch'[w][x] > 0 => batch'[w][x] # batch'[v][x]
      BY <2>0, <2>2 DEF TicketsDrawn, TicketsDiffer
    <3>4. \A v1, v2 \in Workers \ {w}, x \in Requests :
             v1 # v2 /\ batch'[v1][x] > 0 => batch'[v1][x] # batch'[v2][x]
      BY <2>2 DEF TicketsDrawn, TicketsDiffer
    <3> QED BY <3>1, <3>2, <3>3, <3>4 DEF TicketsDiffer
  <2> QED BY <2>1, <2>2 DEF TicketStep
<1> QED BY <1>1, <1>2, TypeCorrect, PTL DEF Spec

\* Every ticket is new to the row, and asking the provider again costs one of
\* the first MaxReconcile.
THEOREM TicketsAreDrawnAndSpent == Spec => TicketsAreFresh
<1>1. TypeOK /\ [Next]_vars =>
        [\A w \in Workers, r \in Requests :
           LET n == attempt[r].reconcile_attempts IN
           /\ attempt'[r].reconcile_attempts \in {n, n + 1}
           /\ batch'[w][r] \notin {0, batch[w][r]} =>
                 batch'[w][r] = n + 1 /\ attempt'[r].reconcile_attempts = n + 1
           /\ busy[w] # r /\ busy'[w] = r =>
                 batch[w][r] \in 1 .. MaxReconcile /\ batch'[w][r] = 0]_vars
  BY NextTicketStep DEF TicketStep, TicketsKept, TicketsDrawn, HandsIn
<1> QED BY <1>1, TypeCorrect, PTL DEF Spec, TicketsAreFresh

=============================================================================
