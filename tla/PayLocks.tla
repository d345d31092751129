------------------------------ MODULE PayLocks ------------------------------
(***************************************************************************)
(* The transactions of the pay path, statement by statement: which rows    *)
(* each locks, in which order, and what it waits for                       *)
(* (crates/api/src/routes/payments.rs, reconciler.rs, invoices.rs).        *)
(*                                                                         *)
(* Payments takes one transaction to be one step.  Here a transaction is a *)
(* series of statements, each of which sees the rows committed when it     *)
(* runs (READ COMMITTED); the variables of Payments are those committed    *)
(* rows, and what a transaction has written is known to it alone until its *)
(* commit.  Several invoices, keys and attempts are several rows.          *)
(***************************************************************************)
EXTENDS Payments

\* A transaction is named for whose it is.
ASSUME LocksAssumption ==
    /\ Requests \cap Workers = {}
    /\ Requests \cap Invoices = {}
    /\ Workers \cap Invoices = {}

VARIABLE tx     \* the open transaction of each handler, reconciler, invoice

locksVars == <<vars, tx>>

-----------------------------------------------------------------------------
(* Transactions and row locks (PostgreSQL)                                 *)

Txs == Requests \cup Workers \cup Invoices

Rows == [table : {"key"}, id : Keys] \cup [table : {"invoice"}, id : Invoices]
        \cup [table : {"attempt"}, id : Requests]

KeyRow(r) == [table |-> "key", id |-> KeyOf(r)]
InvoiceRow(i) == [table |-> "invoice", id |-> i]
AttemptRow(a) == [table |-> "attempt", id |-> a]

\* The statements, each named for the row it is about.
Stages == {"none", "gone", "claim key", "known key", "claim invoice", "claim attempt",
           "settle attempt", "reload", "settle invoice", "settle key", "commit"}

NoTx == [stage |-> "none", about |-> None, due |-> 0, outcome |-> "none",
         seen |-> "none", locks |-> {}]

TxTypeOK ==
    tx \in [Txs -> [stage : Stages, about : Requests \cup {None}, due : Nat,
                    outcome : {"none", "unknown", "succeeded", "failed", "exhausted"},
                    seen : {"none", "pending", "succeeded", "failed"},
                    locks : SUBSET Rows]]

LocksInit == Init /\ tx = [t \in Txs |-> NoTx]

Open(t) == tx[t].stage \notin {"none", "gone"}
Holds(t, row) == row \in tx[t].locks
Locked(row) == \E t \in Txs : Holds(t, row)

\* The rows the next statement of t may have to wait for. An INSERT into a
\* unique index waits for whoever is writing an entry with the same value; an
\* UPDATE does not wait for a row its WHERE does not match.
Wants(t) ==
    LET a == tx[t].about IN
    CASE tx[t].stage \in {"claim key", "settle key"} -> {KeyRow(a)}
      [] tx[t].stage = "claim invoice" -> {InvoiceRow(InvoiceOf(a))}
      [] tx[t].stage = "claim attempt" ->
            {AttemptRow(b) : b \in {b \in Requests : InvoiceOf(b) = InvoiceOf(a)}}
      [] tx[t].stage = "settle attempt" /\ a \in Pending -> {AttemptRow(a)}
      [] tx[t].stage = "settle invoice" /\ is_collectible(InvoiceOf(a)) ->
            {InvoiceRow(InvoiceOf(a))}
      [] OTHER -> {}

WaitsFor(t) == {u \in Txs \ {t} : tx[u].locks \cap Wants(t) # {}}

\* t's next statement runs, with the lock it takes, if any.
Statement(t, stage) == tx[t].stage = stage /\ WaitsFor(t) = {}
Go(t, stage, locks) ==
    tx' = [tx EXCEPT ![t] = [@ EXCEPT !.stage = stage, !.locks = tx[t].locks \cup locks]]
Close(t, stage) == tx' = [tx EXCEPT ![t] = [NoTx EXCEPT !.stage = stage]]

-----------------------------------------------------------------------------
(* Phase 1. What it writes, the key and a pending attempt, waits in tx for *)
(* the commit; a refusal rolls back, which gives every lock back.          *)

PayBegin(r) ==
    /\ handler[r] = "idle"
    /\ tx[r] = NoTx
    /\ tx' = [tx EXCEPT ![r] = [@ EXCEPT !.stage = "claim key", !.about = r]]
    /\ UNCHANGED vars

\* INSERT INTO idempotency_keys ... ON CONFLICT DO NOTHING
ClaimKey(r) ==
    /\ Statement(r, "claim key")
    /\ IF idem[KeyOf(r)].hash = None
       THEN Go(r, "claim invoice", {KeyRow(r)})
       ELSE Go(r, "known key", {})
    /\ UNCHANGED vars

\* SELECT ... FROM idempotency_keys. Keys are never deleted, so the row that
\* was in the way of the INSERT is there.
ReadKey(r) == Statement(r, "known key") /\ PayKnownKey(r) /\ Close(r, "none")

Payable(i) == is_collectible(i) /\ AmountDue(i) > 0

\* Mutant of LockedForPay: the amount is paid minus total.
LockedForPay_reversed(r) ==
    tx' = [tx EXCEPT ![r] = [@ EXCEPT !.stage = "claim attempt",
                                      !.due = invoice[InvoiceOf(r)].paid - Total[InvoiceOf(r)],
                                      !.locks = tx[r].locks \cup {InvoiceRow(InvoiceOf(r))}]]

LockedForPay(r) ==
    tx' = [tx EXCEPT ![r] = [@ EXCEPT !.stage = "claim attempt",
                                      !.due = AmountDue(InvoiceOf(r)),
                                      !.locks = tx[r].locks \cup {InvoiceRow(InvoiceOf(r))}]]

\* Mutant of LockInvoice: a plain SELECT.
LockInvoice_plain(r) ==
    /\ tx[r].stage = "claim invoice"
    /\ \/ ~Payable(InvoiceOf(r)) /\ PayRefused(r) /\ Close(r, "none")
       \/ /\ Payable(InvoiceOf(r))
          /\ tx' = [tx EXCEPT ![r] = [@ EXCEPT !.stage = "claim attempt",
                                               !.due = AmountDue(InvoiceOf(r))]]
          /\ UNCHANGED vars

\* SELECT ... FROM invoices ... FOR UPDATE, and the checks on what it read
LockInvoice(r) ==
    /\ Statement(r, "claim invoice")
    /\ \/ ~Payable(InvoiceOf(r)) /\ PayRefused(r) /\ Close(r, "none")
       \/ Payable(InvoiceOf(r)) /\ LockedForPay(r) /\ UNCHANGED vars

\* INSERT INTO payment_attempts, under one_pending_per_invoice
InsertAttempt(r) ==
    /\ Statement(r, "claim attempt")
    /\ \/ InProgress(InvoiceOf(r)) /\ PayRefused(r) /\ Close(r, "none")
       \/ ~InProgress(InvoiceOf(r)) /\ Go(r, "commit", {AttemptRow(r)}) /\ UNCHANGED vars

Committing(t) == tx[t].stage = "commit"

\* Mutant of CommitClaim: the transaction stays open across the charge.
CommitClaim_afterCharge(r) ==
    /\ handler[r] = "idle"
    /\ Committing(r)
    /\ \/ /\ r \notin onWire /\ ledger[r] = "none"
          /\ onWire' = onWire \cup {r}
          /\ UNCHANGED <<rows, ledger, clients, workers, tx>>
       \/ /\ ledger[r] # "none"
          /\ handler' = [handler EXCEPT ![r] = "charging"]
          /\ idem' = [idem EXCEPT ![KeyOf(r)].hash = hash_request(r)]
          /\ attempt' = [attempt EXCEPT ![r] =
                            [@ EXCEPT !.status = "pending", !.amount = tx[r].due]]
          /\ Close(r, "none")
          /\ UNCHANGED <<invoice, outbox, psp, req, reply, workers>>

CommitClaim(r) ==
    /\ handler[r] = "idle"
    /\ Committing(r)
    /\ idem' = [idem EXCEPT ![KeyOf(r)].hash = hash_request(r)]
    /\ attempt' = [attempt EXCEPT ![r] =
                      [@ EXCEPT !.status = "pending", !.amount = tx[r].due]]
    /\ handler' = [handler EXCEPT ![r] = "claimed"]
    /\ Close(r, "none")
    /\ UNCHANGED <<invoice, outbox, psp, req, reply, workers>>

\* The client hangs up, or a statement fails: a transaction rolls back.
Drop(r) ==
    /\ Open(r)
    /\ \/ handler[r] = "idle" /\ Close(r, "gone") /\ UNCHANGED vars
       \/ PayLost(r) /\ Close(r, "none")

-----------------------------------------------------------------------------
(* settle() in its two callers, and give_up().                             *)

Begin(t, a, outcome) ==
    /\ tx[t] = NoTx
    /\ tx' = [tx EXCEPT ![t] =
                 [@ EXCEPT !.about = a, !.outcome = outcome,
                           !.stage = IF outcome = "unknown" THEN "reload" ELSE "settle attempt"]]
    /\ UNCHANGED vars

PayReturned(r) == handler[r] = "charging" /\ \E o \in Outcomes(r) : Begin(r, r, o)

WorkerReturned(w) ==
    /\ busy[w] # None
    /\ \E o \in Outcomes(busy[w]) \ {"unknown"} : Begin(w, busy[w], o)

GiveUp(w) ==
    /\ busy[w] = None
    /\ \E r \in Requests :
          batch[w][r] > 0 /\ Exhausted(w, r) /\ Begin(w, r, "exhausted")

\* The request path stores its answer in the transaction that settled.
LastStage(t) == IF t \in Requests THEN "settle key" ELSE "commit"

\* Mutant of AfterAttempt: a decline writes the invoice row too.
AfterAttempt_touch(t, won) ==
    IF won /\ tx[t].outcome \in {"succeeded", "failed"} THEN "settle invoice" ELSE LastStage(t)

AfterAttempt(t, won) ==
    IF won /\ tx[t].outcome = "succeeded" THEN "settle invoice" ELSE LastStage(t)

\* UPDATE payment_attempts ... WHERE id = $1 AND status = 'pending'
UpdateAttempt(t) ==
    LET won == tx[t].about \in Pending IN
    /\ Statement(t, "settle attempt")
    /\ Go(t, AfterAttempt(t, won), IF won THEN {AttemptRow(tx[t].about)} ELSE {})
    /\ UNCHANGED vars

\* SELECT ... FROM payment_attempts, when there is no outcome
Reload(r) ==
    /\ Statement(r, "reload")
    /\ tx' = [tx EXCEPT ![r] = [@ EXCEPT !.stage = "settle key", !.seen = attempt[r].status]]
    /\ UNCHANGED vars

\* UPDATE invoices ... AND state IN ('sent', 'partially_paid')
UpdateInvoice(t) ==
    LET i == InvoiceOf(tx[t].about) IN
    /\ Statement(t, "settle invoice")
    /\ Go(t, LastStage(t), IF is_collectible(i) THEN {InvoiceRow(i)} ELSE {})
    /\ UNCHANGED vars

\* UPDATE idempotency_keys SET response_status, response_body
UpdateKey(r) ==
    /\ Statement(r, "settle key")
    /\ Go(r, "commit", {KeyRow(r)})
    /\ UNCHANGED vars

\* The rows as the settling transaction leaves them: a row it has not locked
\* it has not written.
Settled(t) ==
    LET a == tx[t].about
        o == tx[t].outcome
        i == InvoiceOf(a)
    IN
    /\ attempt' = IF ~Holds(t, AttemptRow(a)) THEN attempt
                  ELSE CASE o = "succeeded" -> [attempt EXCEPT ![a].status = "succeeded"]
                         [] o = "failed" -> Failed(a, "declined")
                         [] OTHER -> Failed(a, "reconciliation_exhausted")
    /\ invoice' = IF o = "succeeded" /\ Holds(t, InvoiceRow(i))
                  THEN Credited(i, attempt[a].amount)
                  ELSE invoice
    /\ \/ o = "succeeded" /\ Holds(t, AttemptRow(a)) /\ emit("invoice.paid", a)
       \/ o = "failed" /\ emit("invoice.payment_failed", a)
       \/ /\ o \in {"unknown", "exhausted"} \/ (o = "succeeded" /\ ~Holds(t, AttemptRow(a)))
          /\ UNCHANGED outbox

CommitSettle(r) ==
    LET a == SettleReply(r, tx[r].outcome, tx[r].seen) IN
    /\ handler[r] = "charging"
    /\ Committing(r)
    /\ Settled(r)
    /\ idem' = [idem EXCEPT ![KeyOf(r)].reply = a]
    /\ Answer(r, a)
    /\ Close(r, "none")
    /\ UNCHANGED <<psp, req, workers>>

CommitReconciled(w) ==
    /\ tx[w].outcome \in {"succeeded", "failed"}
    /\ Committing(w)
    /\ Settled(w)
    /\ busy' = [busy EXCEPT ![w] = None]
    /\ Close(w, "none")
    /\ UNCHANGED <<idem, psp, clients, batch, faults>>

CommitGiveUp(w) ==
    /\ tx[w].outcome = "exhausted"
    /\ Committing(w)
    /\ Settled(w)
    /\ batch' = [batch EXCEPT ![w][tx[w].about] = 0]
    /\ Close(w, "none")
    /\ UNCHANGED <<idem, psp, clients, busy, faults>>

-----------------------------------------------------------------------------
(* The reconciler's claim, and the invoice handlers.                       *)

\* UPDATE ... WHERE id IN (SELECT ... FOR UPDATE SKIP LOCKED): it passes over
\* the rows others have locked, and never waits.
Sweep(w, S) ==
    /\ tx[w] = NoTx
    /\ busy[w] = None /\ batch[w] = NoBatch
    /\ S # {} /\ S \subseteq {a \in Pending : ~Locked(AttemptRow(a))}
    /\ Cardinality(S) <= BatchLimit
    /\ Go(w, "commit", {AttemptRow(a) : a \in S})
    /\ UNCHANGED vars

CommitSweep(w) ==
    LET count == [a \in Requests |-> IF Holds(w, AttemptRow(a))
                                     THEN attempt[a].reconcile_attempts + 1 ELSE 0]
    IN
    /\ tx[w].outcome = "none"
    /\ Committing(w)
    /\ batch' = [batch EXCEPT ![w] = count]
    /\ attempt' = [a \in Requests |->
                      IF count[a] > 0
                      THEN [attempt[a] EXCEPT !.reconcile_attempts = count[a]]
                      ELSE attempt[a]]
    /\ Close(w, "none")
    /\ UNCHANGED <<invoice, idem, outbox, psp, clients, busy, faults>>

\* Nobody holds a draft across statements, so this is one step.
SendInvoice(i) == ~Locked(InvoiceRow(i)) /\ send(i) /\ UNCHANGED tx

\* UPDATE invoices SET state = 'void' WHERE ... AND amount_paid_cents = 0
UpdateVoid(i) ==
    /\ tx[i] = NoTx
    /\ invoice[i].state \in {"draft", "sent"} /\ invoice[i].paid = 0
    /\ ~Locked(InvoiceRow(i))
    /\ Go(i, "commit", {InvoiceRow(i)})
    /\ UNCHANGED vars

CommitVoid(i) ==
    /\ Committing(i)
    /\ invoice' = [invoice EXCEPT ![i].state = "void"]
    /\ emit("invoice.voided", i)
    /\ Close(i, "none")
    /\ UNCHANGED <<attempt, idem, psp, clients, workers>>

\* The replica dies, or a transaction of it fails: what it had not committed is
\* rolled back, and its locks are gone.
WorkerLost(w) ==
    /\ \/ WorkerFault(w) /\ (tx[w].outcome = "exhausted" => batch'[w][tx[w].about] = 0)
       \/ tx[w].outcome = "none" /\ Committing(w) /\ UNCHANGED vars
    /\ Close(w, "none")

-----------------------------------------------------------------------------
(* Deadlocks: PostgreSQL rolls one of the waiting transactions back.       *)

Waiting == {t \in Txs : Open(t) /\ WaitsFor(t) # {}}
AllWait(S) == S # {} /\ \A t \in S : WaitsFor(t) \cap S # {}
Deadlock(S) == AllWait(S) /\ \A T \in SUBSET S : AllWait(T) => T = S

\* The victim's error is a 500 for a client; for a reconciler the attempt
\* stays pending.
Victim(t) ==
    \/ t \in Requests /\ Drop(t)
    \/ t \in Workers /\ Unresolved(t) /\ Close(t, "none")

Detect == \E S \in SUBSET Waiting : Deadlock(S) /\ \E t \in S : Victim(t)

TxStep(t) ==
    \/ /\ t \in Requests
       /\ \/ ClaimKey(t) \/ ReadKey(t) \/ LockInvoice(t) \/ InsertAttempt(t)
          \/ CommitClaim(t) \/ Reload(t) \/ UpdateKey(t) \/ CommitSettle(t)
    \/ /\ t \in Requests \cup Workers
       /\ UpdateAttempt(t) \/ UpdateInvoice(t)
    \/ /\ t \in Workers
       /\ CommitReconciled(t) \/ CommitGiveUp(t) \/ CommitSweep(t)
    \/ t \in Invoices /\ CommitVoid(t)

Idling(w) == tx[w] = NoTx /\ UNCHANGED tx

LocksNext ==
    \/ \E t \in Txs : TxStep(t)
    \/ \E r \in Requests :
          \/ PayBegin(r) \/ PayReturned(r) \/ Drop(r)
          \/ (PayCharge(r) \/ (~Open(r) /\ PayLost(r)) \/ PspProcess(r)) /\ UNCHANGED tx
    \/ \E w \in Workers :
          \/ WorkerReturned(w) \/ GiveUp(w) \/ WorkerLost(w)
          \/ \E S \in SUBSET Requests : Sweep(w, S)
          \/ Idling(w) /\ ((\E r \in Requests : Resubmit(w, r)) \/ Unresolved(w))
    \/ \E i \in Invoices : (create(i) /\ UNCHANGED tx) \/ SendInvoice(i) \/ UpdateVoid(i)
    \/ Detect

LocksSpec == LocksInit /\ [][LocksNext]_locksVars

-----------------------------------------------------------------------------
(* What a transaction has locked, and what it may rely on because of it:   *)
(* the inductive invariant behind the properties.                          *)

Resting(t) == tx[t].stage \in {"none", "gone"} /\ tx[t].locks = {}

\* Phase 1. The key it claims is new, and the invoice it has read FOR UPDATE is
\* as it was read.
Claiming(t) ==
    LET i == InvoiceOf(t)
        stage == tx[t].stage
    IN
    /\ t \in Requests /\ tx[t].about = t /\ tx[t].outcome = "none"
    /\ handler[t] = "idle"
    /\ stage \in {"claim key", "known key", "claim invoice", "claim attempt", "commit"}
    /\ stage \in {"claim key", "known key"} => tx[t].locks = {}
    /\ stage = "known key" => idem[KeyOf(t)].hash # None
    /\ stage \in {"claim invoice", "claim attempt", "commit"} => idem[KeyOf(t)].hash = None
    /\ stage = "claim invoice" => tx[t].locks = {KeyRow(t)}
    /\ stage \in {"claim attempt", "commit"} => Payable(i) /\ tx[t].due = AmountDue(i)
    /\ stage = "claim attempt" => tx[t].locks = {KeyRow(t), InvoiceRow(i)}
    /\ stage = "commit" =>
          tx[t].locks = {KeyRow(t), InvoiceRow(i), AttemptRow(t)} /\ ~InProgress(i)

\* Who settles an attempt, and on whose word.
Settler(t, a) ==
    \/ t \in Requests /\ a = t /\ handler[t] = "charging" /\ tx[t].outcome \in Outcomes(t)
    \/ t \in Workers /\ busy[t] = a /\ tx[t].outcome \in Outcomes(a) \ {"unknown"}
    \/ /\ t \in Workers /\ tx[t].outcome = "exhausted"
       /\ busy[t] = None /\ batch[t][a] > 0 /\ Exhausted(t, a)

\* The rows a settlement has locked once its UPDATEs have run: those its WHERE
\* clauses still match, until it commits.
Matched(t) ==
    LET a == tx[t].about
        won == tx[t].outcome # "unknown" /\ a \in Pending
    IN {row \in {AttemptRow(a)} : won}
       \cup {row \in {InvoiceRow(InvoiceOf(a))} :
                won /\ tx[t].outcome = "succeeded" /\ is_collectible(InvoiceOf(a))}

Settling(t) ==
    LET a == tx[t].about
        stage == tx[t].stage
    IN
    /\ a \in Requests /\ Settler(t, a)
    /\ stage \in {"settle attempt", "reload", "settle invoice", "settle key", "commit"}
    /\ stage = "settle attempt" => tx[t].locks = {} /\ tx[t].outcome # "unknown"
    /\ stage = "reload" => tx[t].locks = {} /\ tx[t].outcome = "unknown"
    /\ stage = "settle invoice" =>
          tx[t].locks = {AttemptRow(a)} /\ a \in Pending /\ tx[t].outcome = "succeeded"
    /\ stage = "settle key" => t \in Requests /\ tx[t].locks = Matched(t)
    /\ stage = "commit" =>
          tx[t].locks = Matched(t) \cup {row \in {KeyRow(a)} : t \in Requests}
    /\ (stage \in {"settle key", "commit"} /\ tx[t].outcome = "unknown") =>
          tx[t].seen \in {"pending", attempt[a].status}

Sweeping(t) ==
    /\ t \in Workers /\ tx[t].stage = "commit" /\ tx[t].outcome = "none"
    /\ busy[t] = None /\ batch[t] = NoBatch
    /\ \E S \in SUBSET Pending :
          /\ S # {} /\ Cardinality(S) <= BatchLimit
          /\ tx[t].locks = {AttemptRow(a) : a \in S}

Voiding(t) ==
    /\ t \in Invoices /\ tx[t].stage = "commit" /\ tx[t].outcome = "none"
    /\ tx[t].locks = {InvoiceRow(t)}
    /\ invoice[t].state \in {"draft", "sent"} /\ invoice[t].paid = 0

Shape(t) == Resting(t) \/ Claiming(t) \/ Settling(t) \/ Sweeping(t) \/ Voiding(t)

\* No two transactions hold the same row.
Exclusive == \A t, u \in Txs : t # u => tx[t].locks \cap tx[u].locks = {}

LockInv == (\A t \in Txs : Shape(t)) /\ Exclusive

-----------------------------------------------------------------------------
(* Properties *)

\* The only deadlock of the pay path is a claim that waits on the pending
\* index for a settlement that waits for the claim's invoice row: claimants
\* queue, settlers never wait for one another in a circle, and neither a
\* decline, nor giving up, nor the sweep is ever part of one.
\* (phase 1 of pay(), settle(), claim(), give_up(), void())
OnlySuccessMeetsClaim ==
    \A S \in SUBSET Waiting : Deadlock(S) =>
        \E r \in Requests, t \in Requests \cup Workers :
            /\ S = {r, t}
            /\ tx[r].stage = "claim attempt"
            /\ tx[t].stage = "settle invoice" /\ tx[t].outcome = "succeeded"

\* One transaction is one step: whatever the statements, waits, rollbacks and
\* deadlocks, what is committed and what clients are told is a behaviour of
\* Payments, and all that is proved of Payments holds here. (FOR UPDATE in
\* phase 1, and the conditions the UPDATEs of settle() re-test)
ImplementsPayments == Init /\ [][UNCHANGED vars \/ Next]_vars

\* What the next statement of t asks of the rows and of its handler.
Prepared(t) ==
    LET stage == tx[t].stage IN
    \/ /\ t \in Requests /\ handler[t] = "idle"
       /\ \/ stage \in {"claim key", "commit"}
          \/ stage = "known key" /\ idem[KeyOf(t)].hash # None
          \/ stage = "claim invoice" /\ idem[KeyOf(t)].hash = None
          \/ /\ stage = "claim attempt" /\ idem[KeyOf(t)].hash = None
             /\ Payable(InvoiceOf(t))
    \/ /\ t \in Requests /\ handler[t] = "charging"
       /\ stage \in {"settle attempt", "reload", "settle invoice", "settle key", "commit"}
       /\ stage = "commit" => tx[t].outcome # "none"
    \/ /\ t \in Workers
       /\ stage \in {"settle attempt", "settle invoice", "commit"}
       /\ stage = "commit" => tx[t].outcome # "unknown"
    \/ t \in Invoices /\ stage = "commit"

CanStep(t) == WaitsFor(t) = {} /\ Prepared(t)

\* An open transaction waits for row locks and for nothing else, so that, with
\* the deadlocks found, every one ends while providers, clients and timers do
\* nothing. (the split of pay() into three phases)
OnlyLocksAreWaitedFor ==
    \A t \in Txs : Open(t) =>
        /\ WaitsFor(t) # {} \/ CanStep(t)
        /\ CanStep(t) <=> ENABLED TxStep(t)

\* The database never stands still with transactions open: one of them can run
\* its next statement, or some wait in a circle, which PostgreSQL breaks, at
\* the cost of a claim that has committed nothing. (the order in which phase 1
\* and settle() lock their rows)
NoStandstill ==
    (\E t \in Txs : Open(t)) =>
        \/ \E t \in Txs : Open(t) /\ CanStep(t)
        \/ \E S \in SUBSET Waiting :
              Deadlock(S) /\ \E r \in S \cap Requests : handler[r] = "idle"
=============================================================================
