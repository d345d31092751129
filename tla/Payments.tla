------------------------------ MODULE Payments ------------------------------
(***************************************************************************)
(* The pay path of the invoicing service: the three-phase /pay handler     *)
(* (crates/api/src/routes/payments.rs), the reconciler that finishes what  *)
(* a handler could not (crates/api/src/reconciler.rs), the invoice         *)
(* handlers that race with both (crates/api/src/routes/invoices.rs), the   *)
(* database rows they share, and the payment provider with its ledger.     *)
(*                                                                         *)
(* One pay request creates at most one payment attempt, so attempts are    *)
(* named by the request that created them: the attempt id, which is also   *)
(* the provider's idempotency reference, is the request.                   *)
(*                                                                         *)
(* One database transaction is one step: phase 1 holds the invoice row     *)
(* FOR UPDATE from its read to its commit, and every UPDATE of the other   *)
(* transactions re-tests its WHERE on the row as it is at write time.      *)
(* Wall-clock limits (5 s provider timeout, 60 s staleness) are abstracted *)
(* to "at any time", so timeouts may race with late answers.               *)
(***************************************************************************)
EXTENDS Integers, FiniteSets

CONSTANTS
    Requests,         \* POST /invoices/{id}/pay calls; also attempt ids
    Invoices,
    Keys,             \* Idempotency-Key values of one business
    Cards,            \* card tokens, trimmed
    Processors,       \* names in the registry of the build that serves /pay
    DefaultProcessor,
    Retired,          \* processors the reconciler's build no longer has
    Workers,          \* reconciler loops, one per replica
    Total,            \* total_cents of each invoice
    MaxReconcile,     \* config.reconciler_max_attempts
    BatchLimit,       \* LIMIT of the reconciler's claim
    MaxFaults,        \* bound on reconciler crashes and failed transactions
    None

Params == [invoice : Invoices, key : Keys, card : Cards,
           processor : Processors \cup {None}]

Hashes == Invoices \X Cards \X (Processors \cup {None})

\* What the code guarantees of its configuration and inputs.
ASSUME PaymentsAssumption ==
    /\ DefaultProcessor \in Processors
    /\ Retired \subseteq Processors
    /\ Total \in [Invoices -> Nat \ {0}]
    /\ MaxReconcile \in Nat
    /\ BatchLimit \in Nat
    /\ MaxFaults \in Nat
    /\ None \notin Requests \cup Hashes

VARIABLES
    \* durable: database rows
    invoice,    \* invoices: state and amount_paid_cents
    attempt,    \* payment_attempts
    idem,       \* idempotency_keys: request_hash and the stored response
    outbox,     \* how often each event was emitted (crates/api/src/events.rs)
    \* the provider
    onWire,     \* references with a charge call the provider may yet process
    ledger,     \* the provider's record of each reference
    \* volatile: handlers and reconciler loops
    req,        \* the parameters of each request
    handler,    \* where each /pay handler is
    reply,      \* what each client was answered
    batch,      \* claimed attempts a worker has yet to visit, with their count
    busy,       \* the attempt a worker is waiting on the provider for
    faults

rows == <<invoice, attempt, idem, outbox>>
psp == <<onWire, ledger>>
clients == <<req, handler, reply>>
workers == <<batch, busy, faults>>
vars == <<rows, psp, clients, workers>>

-----------------------------------------------------------------------------
(* Types *)

InvoiceStates == {"absent", "draft", "sent", "partially_paid", "paid", "void"}

Attempt == [status : {"none", "pending", "succeeded", "failed"},
            code : {"none", "declined", "reconciliation_exhausted"},
            amount : Nat, reconcile_attempts : Nat]

Reply == [status : {0, 200, 202, 402, 404, 409, 422},
          code : {"none", "declined", "reconciliation_exhausted",
                  "not_found", "invoice_already_paid", "invalid_state_transition",
                  "nothing_to_pay", "payment_in_progress",
                  "request_in_progress", "idempotency_key_reuse"},
          attempt : Requests \cup {None}]

Event == [kind : {"invoice.created", "invoice.sent", "invoice.voided"},
          about : Invoices]
         \cup
         [kind : {"invoice.paid", "invoice.payment_failed"}, about : Requests]

TypeOK ==
    /\ invoice \in [Invoices -> [state : InvoiceStates, paid : Nat]]
    /\ attempt \in [Requests -> Attempt]
    /\ idem \in [Keys -> [hash : Hashes \cup {None}, reply : Reply]]
    /\ outbox \in [Event -> Nat]
    /\ onWire \subseteq Requests
    /\ ledger \in [Requests -> {"none", "succeeded", "failed"}]
    /\ req \in [Requests -> Params]
    /\ handler \in [Requests -> {"idle", "claimed", "charging", "done"}]
    /\ reply \in [Requests -> Reply]
    /\ batch \in [Workers -> [Requests -> Nat]]
    /\ busy \in [Workers -> Requests \cup {None}]
    /\ faults \in 0 .. MaxFaults

NoAttempt == [status |-> "none", code |-> "none",
              amount |-> 0, reconcile_attempts |-> 0]
NoReply == [status |-> 0, code |-> "none", attempt |-> None]
NoBatch == [r \in Requests |-> 0]

Init ==
    /\ invoice = [i \in Invoices |-> [state |-> "absent", paid |-> 0]]
    /\ attempt = [r \in Requests |-> NoAttempt]
    /\ idem = [k \in Keys |-> [hash |-> None, reply |-> NoReply]]
    /\ outbox = [e \in Event |-> 0]
    /\ onWire = {}
    /\ ledger = [r \in Requests |-> "none"]
    /\ req \in [Requests -> Params]
    /\ handler = [r \in Requests |-> "idle"]
    /\ reply = [r \in Requests |-> NoReply]
    /\ batch = [w \in Workers |-> NoBatch]
    /\ busy = [w \in Workers |-> None]
    /\ faults = 0

-----------------------------------------------------------------------------
(* Invoice handlers: each is one transaction, its UPDATE guarded in SQL.   *)

emit(kind, x) == outbox' = [outbox EXCEPT ![[kind |-> kind, about |-> x]] = @ + 1]

MoveInvoice(i, from, to, event) ==
    /\ invoice[i].state \in from
    /\ invoice' = [invoice EXCEPT ![i].state = to]
    /\ emit(event, i)
    /\ UNCHANGED <<attempt, idem, psp, clients, workers>>

create(i) == MoveInvoice(i, {"absent"}, "draft", "invoice.created")

send(i) == MoveInvoice(i, {"draft"}, "sent", "invoice.sent")

void(i) ==
    /\ invoice[i].paid = 0
    /\ MoveInvoice(i, {"draft", "sent"}, "void", "invoice.voided")

-----------------------------------------------------------------------------
(* POST /invoices/{id}/pay, phase 1: claim. One transaction; every refusal *)
(* rolls it back, so the key is spent only when an attempt is inserted.    *)

InvoiceOf(r) == req[r].invoice
KeyOf(r) == req[r].key

\* The provider the request is charged through.
ProcessorOf(r) ==
    IF req[r].processor = None THEN DefaultProcessor ELSE req[r].processor

\* The processor enters the hash as sent: an omitted one as "", here None.
hash_request(r) == <<req[r].invoice, req[r].card, req[r].processor>>

\* Mutant of is_collectible: settle's UPDATE does not exclude a void invoice.
is_collectible_void(i) == invoice[i].state \in {"sent", "partially_paid", "void"}

is_collectible(i) == invoice[i].state \in {"sent", "partially_paid"}

remaining(total, paid) == IF paid >= total THEN 0 ELSE total - paid

AmountDue(i) == remaining(Total[i], invoice[i].paid)

Pending == {r \in Requests : attempt[r].status = "pending"}

\* Mutant of InProgress: no partial unique index on pending attempts.
InProgress_noIndex(i) == FALSE

InProgress(i) == \E r \in Pending : InvoiceOf(r) = i

Answer(r, a) ==
    /\ handler' = [handler EXCEPT ![r] = "done"]
    /\ reply' = [reply EXCEPT ![r] = a]

Refuse(r, status, code) ==
    /\ Answer(r, [status |-> status, code |-> code, attempt |-> None])
    /\ UNCHANGED <<rows, psp, req, workers>>

\* The key was claimed before: refuse another meaning, replay a stored
\* answer, or say that the first request is still being processed.
PayKnownKey(r) ==
    LET row == idem[KeyOf(r)] IN
    /\ handler[r] = "idle"
    /\ row.hash # None
    /\ \/ /\ row.hash # hash_request(r)
          /\ Refuse(r, 422, "idempotency_key_reuse")
       \/ /\ row.hash = hash_request(r)
          /\ row.reply.status # 0
          /\ Answer(r, row.reply)
          /\ UNCHANGED <<rows, psp, req, workers>>
       \/ /\ row.hash = hash_request(r)
          /\ row.reply.status = 0
          /\ Refuse(r, 409, "request_in_progress")

\* The key is new but the invoice cannot be paid now.
PayRefused(r) ==
    LET i == InvoiceOf(r) IN
    /\ handler[r] = "idle"
    /\ idem[KeyOf(r)].hash = None
    /\ \/ invoice[i].state = "absent" /\ Refuse(r, 404, "not_found")
       \/ invoice[i].state = "paid" /\ Refuse(r, 409, "invoice_already_paid")
       \/ invoice[i].state \in {"draft", "void"}
          /\ Refuse(r, 409, "invalid_state_transition")
       \/ is_collectible(i) /\ AmountDue(i) <= 0 /\ Refuse(r, 409, "nothing_to_pay")
       \/ is_collectible(i) /\ AmountDue(i) > 0 /\ InProgress(i)
          /\ Refuse(r, 409, "payment_in_progress")

\* Mutant of PayClaim: the key is only written together with the answer.
PayClaim_lateKey(r) ==
    LET i == InvoiceOf(r) IN
    /\ handler[r] = "idle"
    /\ idem[KeyOf(r)].hash = None
    /\ is_collectible(i)
    /\ AmountDue(i) > 0
    /\ ~InProgress(i)
    /\ attempt' = [attempt EXCEPT ![r] = [@ EXCEPT !.status = "pending", !.amount = AmountDue(i)]]
    /\ handler' = [handler EXCEPT ![r] = "claimed"]
    /\ UNCHANGED <<invoice, outbox, idem, psp, req, reply, workers>>

\* The key and a pending attempt commit together.
PayClaim(r) ==
    LET i == InvoiceOf(r) IN
    /\ handler[r] = "idle"
    /\ idem[KeyOf(r)].hash = None
    /\ is_collectible(i)
    /\ AmountDue(i) > 0
    /\ ~InProgress(i)
    /\ idem' = [idem EXCEPT ![KeyOf(r)].hash = hash_request(r)]
    /\ attempt' = [attempt EXCEPT ![r] = [@ EXCEPT !.status = "pending", !.amount = AmountDue(i)]]
    /\ handler' = [handler EXCEPT ![r] = "claimed"]
    /\ UNCHANGED <<invoice, outbox, psp, req, reply, workers>>

-----------------------------------------------------------------------------
(* Phase 2 and the provider. The provider keys its ledger by reference: it *)
(* charges a reference once and replays the outcome ever after. A call it  *)
(* never receives is one that stays on the wire.                           *)

PayCharge(r) ==
    /\ handler[r] = "claimed"
    /\ handler' = [handler EXCEPT ![r] = "charging"]
    /\ onWire' = onWire \cup {r}
    /\ UNCHANGED <<rows, ledger, req, reply, workers>>

PspProcess(r) ==
    /\ r \in onWire
    /\ onWire' = onWire \ {r}
    /\ \/ /\ ledger[r] = "none"
          /\ \E o \in {"succeeded", "failed"} : ledger' = [ledger EXCEPT ![r] = o]
       \/ ledger[r] # "none" /\ UNCHANGED ledger
    /\ UNCHANGED <<rows, clients, workers>>

\* What a charge call can return: a timeout, a dropped connection or garbage
\* at any time, and the recorded outcome once there is one.
Outcomes(r) == {"unknown"} \cup ({ledger[r]} \ {"none"})

-----------------------------------------------------------------------------
(* settle(): the one definition of what an outcome does to the rows.       *)

\* The invoice row after a payment of the attempt's amount.
Credited(i, amount) ==
    LET paid == invoice[i].paid + amount IN
    [invoice EXCEPT ![i] =
        [state |-> IF paid >= Total[i] THEN "paid" ELSE "partially_paid", paid |-> paid]]

\* Mutant of SettleSucceeded: the event is emitted even when another
\* settler had already settled the attempt.
SettleSucceeded_reEmit(r) ==
    /\ emit("invoice.paid", r)
    /\ \/ /\ attempt[r].status = "pending"
          /\ attempt' = [attempt EXCEPT ![r].status = "succeeded"]
          /\ invoice' = IF is_collectible(InvoiceOf(r))
                        THEN Credited(InvoiceOf(r), attempt[r].amount)
                        ELSE invoice
       \/ attempt[r].status # "pending" /\ UNCHANGED <<attempt, invoice>>

SettleSucceeded(r) ==
    \/ /\ attempt[r].status = "pending"
       /\ attempt' = [attempt EXCEPT ![r].status = "succeeded"]
       /\ invoice' = IF is_collectible(InvoiceOf(r))
                     THEN Credited(InvoiceOf(r), attempt[r].amount)
                     ELSE invoice
       /\ emit("invoice.paid", r)
    \/ attempt[r].status # "pending" /\ UNCHANGED <<attempt, invoice, outbox>>

Failed(r, code) ==
    [attempt EXCEPT ![r] = [@ EXCEPT !.status = "failed", !.code = code]]

SettleFailed(r) ==
    /\ attempt' = IF attempt[r].status = "pending"
                  THEN Failed(r, "declined")
                  ELSE attempt
    /\ emit("invoice.payment_failed", r)
    /\ UNCHANGED invoice

\* Mutant of settle: an unknown outcome is recorded as a decline.
settle_unknownFails(r, outcome) ==
    \/ outcome = "succeeded" /\ SettleSucceeded(r)
    \/ outcome \in {"failed", "unknown"} /\ SettleFailed(r)

settle(r, outcome) ==
    \/ outcome = "succeeded" /\ SettleSucceeded(r)
    \/ outcome = "failed" /\ SettleFailed(r)
    \/ outcome = "unknown" /\ UNCHANGED <<attempt, invoice, outbox>>

\* Mutant of SettleReply: a timeout is answered as a decline.
SettleReply_timeout402(r, outcome, seen) ==
    [status |-> IF outcome = "succeeded" THEN 200 ELSE 402,
     code |-> IF outcome = "succeeded" THEN "none" ELSE "declined",
     attempt |-> r]

\* The status and body settle() returns to the request path; without an
\* outcome they are what it saw when it reloaded the attempt.
SettleReply(r, outcome, seen) ==
    LET status == IF outcome = "unknown" THEN seen ELSE outcome IN
    [status |-> CASE status = "succeeded" -> 200
                  [] status = "failed" -> 402
                  [] OTHER -> 202,
     code |-> IF status # "failed" THEN "none"
              ELSE IF outcome = "failed" THEN "declined" ELSE attempt[r].code,
     attempt |-> r]

\* Phase 3: settle, store the answer under the key, commit, answer.  Between
\* the reload and the commit somebody else may settle the attempt, so that
\* what was seen may be older than the commit.
PaySettle(r) ==
    /\ handler[r] = "charging"
    /\ \E o \in Outcomes(r), seen \in {"pending", attempt[r].status} :
          /\ settle(r, o)
          /\ idem' = [idem EXCEPT ![KeyOf(r)].reply = SettleReply(r, o, seen)]
          /\ Answer(r, SettleReply(r, o, seen))
    /\ UNCHANGED <<psp, req, workers>>

\* The process crashes, the client disconnects and the handler is dropped, or
\* a transaction fails and the client gets a 500: what was committed stays.
PayLost(r) ==
    /\ handler[r] \in {"claimed", "charging"}
    /\ handler' = [handler EXCEPT ![r] = "done"]
    /\ UNCHANGED <<rows, psp, req, reply, workers>>

-----------------------------------------------------------------------------
(* The reconciler: claim a batch, then visit its attempts one by one.      *)

\* Mutant of claim: the sweep does not count its retries.
claim_uncounted(w, S) ==
    /\ busy[w] = None
    /\ batch[w] = NoBatch
    /\ S # {} /\ S \subseteq Pending
    /\ Cardinality(S) <= BatchLimit
    /\ batch' = [batch EXCEPT ![w] = [r \in Requests |-> IF r \in S THEN 1 ELSE 0]]
    /\ UNCHANGED <<rows, psp, clients, busy, faults>>

\* UPDATE ... SET reconcile_attempts + 1 WHERE id IN (stale pending rows).
claim(w, S) ==
    /\ busy[w] = None
    /\ batch[w] = NoBatch
    /\ S # {} /\ S \subseteq Pending
    /\ Cardinality(S) <= BatchLimit
    /\ attempt' = [r \in Requests |->
                     IF r \in S
                     THEN [attempt[r] EXCEPT !.reconcile_attempts = @ + 1]
                     ELSE attempt[r]]
    /\ batch' = [batch EXCEPT ![w] =
                    [r \in Requests |->
                       IF r \in S THEN attempt[r].reconcile_attempts + 1 ELSE 0]]
    /\ UNCHANGED <<invoice, idem, outbox, psp, clients, busy, faults>>

Visit(w, r) ==
    /\ busy[w] = None
    /\ batch[w][r] > 0
    /\ batch' = [batch EXCEPT ![w][r] = 0]

Exhausted(w, r) == batch[w][r] > MaxReconcile \/ ProcessorOf(r) \in Retired

\* Mutant of give_up: a status the table's CHECK does not know.
give_up_abandoned(w, r) ==
    /\ Visit(w, r)
    /\ Exhausted(w, r)
    /\ attempt' = [attempt EXCEPT ![r].status = "abandoned"]
    /\ UNCHANGED <<invoice, idem, outbox, psp, clients, busy, faults>>

\* Mutant of give_up: recorded like a decline.
give_up_declined(w, r) ==
    /\ Visit(w, r)
    /\ Exhausted(w, r)
    /\ attempt' = IF attempt[r].status = "pending"
                  THEN Failed(r, "declined")
                  ELSE attempt
    /\ UNCHANGED <<invoice, idem, outbox, psp, clients, busy, faults>>

\* Mutant of give_up: the UPDATE has no AND status = 'pending'.
give_up_unconditional(w, r) ==
    /\ Visit(w, r)
    /\ Exhausted(w, r)
    /\ attempt' = Failed(r, "reconciliation_exhausted")
    /\ UNCHANGED <<invoice, idem, outbox, psp, clients, busy, faults>>

give_up(w, r) ==
    /\ Visit(w, r)
    /\ Exhausted(w, r)
    /\ attempt' = IF attempt[r].status = "pending"
                  THEN Failed(r, "reconciliation_exhausted")
                  ELSE attempt
    /\ UNCHANGED <<invoice, idem, outbox, psp, clients, busy, faults>>

\* Mutant of Resubmit: the retry goes out under a reference of its own, so
\* that the provider takes it for a new charge of another request.
Resubmit_newReference(w, r) ==
    /\ Visit(w, r)
    /\ ~Exhausted(w, r)
    /\ \E fresh \in Requests : /\ ledger[fresh] = "none" /\ fresh # r
                              /\ onWire' = onWire \cup {fresh}
    /\ busy' = [busy EXCEPT ![w] = r]
    /\ UNCHANGED <<rows, ledger, clients, faults>>

\* The same reference to the same provider, whatever became of the attempt
\* since the claim.
Resubmit(w, r) ==
    /\ Visit(w, r)
    /\ ~Exhausted(w, r)
    /\ onWire' = onWire \cup {r}
    /\ busy' = [busy EXCEPT ![w] = r]
    /\ UNCHANGED <<rows, ledger, clients, faults>>

\* A definitive outcome is settled; the idempotency row is not touched.
Reconciled(w) ==
    /\ busy[w] # None
    /\ \E o \in Outcomes(busy[w]) \ {"unknown"} : settle(busy[w], o)
    /\ busy' = [busy EXCEPT ![w] = None]
    /\ UNCHANGED <<idem, psp, clients, batch, faults>>

\* Still unknown, or the settle transaction failed: stays pending.
Unresolved(w) ==
    /\ busy[w] # None
    /\ busy' = [busy EXCEPT ![w] = None]
    /\ UNCHANGED <<rows, psp, clients, batch, faults>>

\* A restart loses the batch; a failed give_up transaction loses one visit.
WorkerFault(w) ==
    /\ faults < MaxFaults
    /\ faults' = faults + 1
    /\ \/ /\ batch[w] # NoBatch \/ busy[w] # None
          /\ batch' = [batch EXCEPT ![w] = NoBatch]
          /\ busy' = [busy EXCEPT ![w] = None]
       \/ \E r \in Requests : Exhausted(w, r) /\ Visit(w, r) /\ UNCHANGED busy
    /\ UNCHANGED <<rows, psp, clients>>

-----------------------------------------------------------------------------

Next ==
    \/ \E i \in Invoices : create(i) \/ send(i) \/ void(i)
    \/ \E r \in Requests :
          \/ PayKnownKey(r) \/ PayRefused(r) \/ PayClaim(r)
          \/ PayCharge(r) \/ PaySettle(r) \/ PayLost(r)
          \/ PspProcess(r)
    \/ \E w \in Workers :
          \/ \E S \in SUBSET Requests : claim(w, S)
          \/ \E r \in Requests : give_up(w, r) \/ Resubmit(w, r)
          \/ Reconciled(w) \/ Unresolved(w) \/ WorkerFault(w)

Spec == Init /\ [][Next]_vars

\* The loops keep sweeping: a worker finishes the batch it holds (the provider
\* client has a timeout), and because a claim takes the rows longest untouched,
\* a pending attempt is not passed over for ever. Handlers, clients and the
\* provider promise nothing.
WorkerStep(w) ==
    \/ \E r \in Requests : give_up(w, r) \/ Resubmit(w, r)
    \/ Reconciled(w) \/ Unresolved(w)

Fairness ==
    /\ \A w \in Workers : WF_vars(WorkerStep(w))
    /\ \A r \in Requests :
          SF_vars(\E w \in Workers, S \in SUBSET Requests : r \in S /\ claim(w, S))

FairSpec == Spec /\ Fairness

-----------------------------------------------------------------------------
(* Safety *)

Exists(r) == attempt[r].status # "none"

\* The reconciler gave the attempt up without an outcome: a person decides.
HandedOff(r) ==
    attempt[r].status = "failed" /\ attempt[r].code = "reconciliation_exhausted"

AttemptsOf(i) == {r \in Requests : Exists(r) /\ InvoiceOf(r) = i}

\* A customer is charged for an invoice at most once, whatever interleaving of
\* handlers, reconcilers, crashes, timeouts and retries: of the attempts that
\* were not handed to a person, the provider has taken money for one at most.
\* (phases 1 to 3 of pay(), the pending index, settle(), reconcile_one())
ChargedOnce ==
    \A i \in Invoices : \A r1, r2 \in AttemptsOf(i) :
        (/\ ledger[r1] = "succeeded" /\ ~HandedOff(r1)
         /\ ledger[r2] = "succeeded" /\ ~HandedOff(r2)) => r1 = r2

\* The provider is never asked to move money the database has no attempt for,
\* so no crash loses track of a charge: phase 1 commits before phase 2, and a
\* retry reuses the reference.
ChargesAreRecorded ==
    \A r \in Requests : r \in onWire \/ ledger[r] # "none" => Exists(r)

\* The money on an invoice is the money of its succeeded attempts, and the
\* state follows it: one success and paid in full, or none and nothing paid.
\* Only a void invoice can have a success that was not applied.  In
\* particular no interleaving reaches partially_paid, because an attempt is
\* for the whole balance.  (the conditional UPDATEs of settle())
MoneyMatchesAttempts ==
    \A i \in Invoices :
        LET wins == {r \in AttemptsOf(i) : attempt[r].status = "succeeded"} IN
        /\ invoice[i].state # "partially_paid"
        /\ invoice[i].paid = IF invoice[i].state = "paid" THEN Total[i] ELSE 0
        /\ invoice[i].state = "paid" => \E r \in wins : wins = {r}
        /\ wins # {} => invoice[i].state \in {"paid", "void"}

\* An attempt is recorded as succeeded or declined only on the provider's
\* word: a timeout, a crash or giving up never passes for either.
VerdictsAreTrue ==
    \A r \in Requests :
        /\ attempt[r].status = "succeeded" => ledger[r] = "succeeded"
        /\ attempt[r].code = "declined" => ledger[r] = "failed"

\* A key is spent exactly when an attempt was committed under it, and on one
\* attempt only: refusals give the key back, crashes do not.
KeySpentOnOneAttempt ==
    \A k \in Keys :
        LET made == {r \in Requests : Exists(r) /\ KeyOf(r) = k} IN
        /\ idem[k].hash = None => made = {}
        /\ idem[k].hash # None =>
              \E r \in made : made = {r} /\ idem[k].hash = hash_request(r)

\* What clients are told, at once or by replay, is true of the provider: 200
\* only if money moved, a decline only if it did not; and all requests with a
\* key that are told about a payment are told the same thing.
AnswersAreTrue ==
    /\ \A r \in Requests : reply[r].attempt # None =>
          LET a == reply[r].attempt IN
          /\ reply[r].status = 200 => ledger[a] = "succeeded"
          /\ reply[r].code = "declined" => ledger[a] = "failed"
          /\ reply[r].code = "reconciliation_exhausted" => HandedOff(a)
    /\ \A r1, r2 \in Requests :
          (/\ KeyOf(r1) = KeyOf(r2)
           /\ reply[r1].attempt # None /\ reply[r2].attempt # None)
             => reply[r1] = reply[r2]

\* invoice.paid is emitted once for each attempt that succeeded and for no
\* other, however many settlers raced; a decline is announced at least once,
\* and never for an attempt the provider charged.
EventsMatchAttempts ==
    \A r \in Requests :
        LET Emitted(kind) == outbox[[kind |-> kind, about |-> r]] IN
        /\ Emitted("invoice.paid") = IF attempt[r].status = "succeeded" THEN 1 ELSE 0
        /\ attempt[r].code = "declined" => Emitted("invoice.payment_failed") > 0
        /\ Emitted("invoice.payment_failed") > 0 => ledger[r] = "failed"

\* Once an attempt has succeeded or failed no later step rewrites it: not a
\* late handler, not another replica, not a batch claimed before.
SettledIsFinal ==
    [][\A r \in Requests :
         attempt[r].status \in {"succeeded", "failed"} =>
            /\ attempt'[r].status = attempt[r].status
            /\ attempt'[r].code = attempt[r].code]_vars

-----------------------------------------------------------------------------
(* The inductive invariant behind the safety properties.                   *)

\* Whoever works on an attempt works on a committed row.
WorkIsRecorded ==
    /\ \A r \in Requests : handler[r] = "idle" => ~Exists(r)
    /\ \A r \in Requests : handler[r] \in {"claimed", "charging"} => Exists(r)
    /\ \A w \in Workers, r \in Requests : batch[w][r] > 0 => Exists(r)
    /\ \A w \in Workers : busy[w] # None => Exists(busy[w])
    /\ ChargesAreRecorded

Live(r) == attempt[r].status \in {"pending", "succeeded"}

CodesMatch ==
    \A r \in Requests : attempt[r].code # "none" <=> attempt[r].status = "failed"

\* The pending index keeps two pending attempts apart; that a success also
\* excludes a pending attempt is because it ends the invoice.
OneLivePerInvoice ==
    \A r1, r2 \in Requests :
        Live(r1) /\ Live(r2) /\ InvoiceOf(r1) = InvoiceOf(r2) => r1 = r2

SuccessEndsInvoice ==
    \A r \in Requests : attempt[r].status = "succeeded" =>
        invoice[InvoiceOf(r)].state \in {"paid", "void"}

\* Only a collectible invoice gets an attempt, and none goes back to draft.
LiveWasSent ==
    \A r \in Requests : Live(r) => invoice[InvoiceOf(r)].state \notin {"absent", "draft"}

PaidHasSuccess ==
    \A i \in Invoices : invoice[i].state = "paid" =>
        \E r \in Requests : InvoiceOf(r) = i /\ attempt[r].status = "succeeded"

AllOrNothing ==
    \A i \in Invoices :
        /\ invoice[i].state # "partially_paid"
        /\ invoice[i].paid = IF invoice[i].state = "paid" THEN Total[i] ELSE 0

FullAmount ==
    \A r \in Requests :
        attempt[r].status = "pending" => attempt[r].amount = Total[InvoiceOf(r)]

RowInv ==
    /\ CodesMatch
    /\ OneLivePerInvoice
    /\ SuccessEndsInvoice
    /\ LiveWasSent
    /\ PaidHasSuccess
    /\ AllOrNothing
    /\ FullAmount
    /\ VerdictsAreTrue

\* Inductive, and strong enough for ChargedOnce and MoneyMatchesAttempts.
PaymentInv == WorkIsRecorded /\ RowInv

\* A key is answered once, by the handler that spent it, and whoever is told
\* about a payment is told what is stored under the key.
AnswersComeFromKeys ==
    /\ \A k \in Keys : idem[k].hash = None => idem[k].reply.attempt = None
    /\ \A r \in Requests : handler[r] \in {"claimed", "charging"} =>
          idem[KeyOf(r)].reply.attempt = None
    /\ \A r \in Requests : reply[r].attempt # None => reply[r] = idem[KeyOf(r)].reply

IsTrue(a) ==
    /\ a.status = 200 => ledger[a.attempt] = "succeeded"
    /\ a.code = "declined" => ledger[a.attempt] = "failed"
    /\ a.code = "reconciliation_exhausted" => HandedOff(a.attempt)

StoredAnswersAreTrue ==
    \A k \in Keys : idem[k].reply.attempt # None => IsTrue(idem[k].reply)

\* With PaymentInv inductive, and strong enough for AnswersAreTrue.
AnswerInv == KeySpentOnOneAttempt /\ AnswersComeFromKeys /\ StoredAnswersAreTrue

-----------------------------------------------------------------------------
(* Liveness *)

\* The loop terminates: with the reconciler running, every pending attempt is
\* settled or handed to a person, even if no handler and no provider answers.
PendingIsResolved ==
    \A r \in Requests :
        attempt[r].status = "pending" ~> attempt[r].status \in {"succeeded", "failed"}

-----------------------------------------------------------------------------
(* What the documentation says that the code does not keep.                *)

\* openapi.yaml, POST /invoices/{id}/void: "once any money has moved the
\* invoice is part of the money trail and cannot be voided".
VoidMeansNoMoneyMoved ==
    \A i \in Invoices : invoice[i].state = "void" =>
        \A r \in AttemptsOf(i) : ledger[r] # "succeeded"

\* payments.rs, on the request_in_progress branch: "Claimed but not finished -
\* the first request is still in flight".
InProgressMeansInFlight ==
    [][\A r \in Requests :
         reply'[r].code = "request_in_progress" /\ reply[r].status = 0 =>
            \E r1 \in Requests : /\ KeyOf(r1) = KeyOf(r)
                                 /\ handler[r1] \in {"claimed", "charging"}]_vars

=============================================================================
