# The invoicing service, specified and checked

TLA+ modules of the invoicing service under `src/`: what its request handlers,
background loops and database do to each other's rows, checked with TLC on
small instances, and proved with TLAPS for every instance where stated.
Paths below are relative to `src/`; `api/` is short for `crates/api/src/`.

## 1. Inventory

One binary serves the HTTP API and spawns two loops per replica
(`api/lib.rs`). Everything shared lives in PostgreSQL; each database
transaction runs as a tenant (row-level security on, claims of the caller) or
as the service (background loops).

| Part | State | Operations | What makes it right |
|---|---|---|---|
| invoice handlers (`api/routes/invoices.rs`), state machine (`api/domain/state_machine.rs`) | `invoices`, `invoice_line_items` | create, send, void, list, get | a row moves only along the transition table, whatever races with it; the CHECKs never fire |
| payment handler (`api/routes/payments.rs`) | `payment_attempts`, `idempotency_keys`, `invoices` | `pay` in three phases: claim (transaction), charge (no transaction), settle (transaction) | no double charge; money on the invoice = money of the attempts; a key means one request; answers are true |
| reconciler (`api/reconciler.rs`) | `reconcile_attempts`, a batch in memory | claim stale pending attempts, resubmit under the same reference, settle, give up | every pending attempt ends; nothing settled is rewritten |
| payment providers (`api/psp/`), mock (`crates/mock-psp`) | the provider's ledger | charge: an outcome, or "unknown" on a timeout, a dropped connection or garbage | one charge for each reference, replayed after; only what happened is reported as an outcome |
| money (`api/domain/money.rs`), lists (`api/routes/models.rs`) | none; a client's cursor | line amounts, sums; pages | totals are exact or refused; a list is complete |
| events (`api/events.rs`) | rows of `webhook_deliveries` | `emit` inside the transaction it announces | an event commits with its cause |
| dispatcher (`api/outbox.rs`) | the rows' status and count, a batch in memory | claim, POST, record, back off, exhaust | no row at two dispatchers; real attempts are counted; every row ends |
| webhook endpoints (`api/routes/webhooks.rs`) | `webhook_endpoints` | create, disable, lists | |
| API keys, tokens (`api/routes/api_keys.rs`, `tokens.rs`, `api/auth/`) | `api_keys`; tokens are held by clients only | create, revoke, mint, authenticate | rights never grow; revocation is final |
| permissions (`api/auth/permissions.rs`, `middleware.rs`; `crates/api/sql/rls.sql`) | none | has_scope, subset check, route table, policies, the background role's grants | the layers agree |
| customers, response bodies, ids, config, errors, pools, docs | | | no behaviour beyond a statement or formatting |

How they interact: `pay` and the reconciler share `settle()` and the attempt
rows; `send`/`void` share the invoice rows with them; all of these call `emit`,
whose rows the dispatchers take; every handler runs behind the middleware and
under the policies. Hard parts: three kinds of actors on one attempt, an
external call between two transactions, answers later than timeouts, crashes
between commit and charge and between claim and result, several replicas of
both loops, row locks taken in two orders, lists read while rows change,
credentials that outlive what they came from. `PROJECT.json` lists
the hazards line by line, with the properties aimed at each.

## 2. Modules

| Module | What it is |
|---|---|
| `InvoiceLifecycle` | abstract: one invoice, the transition table and the CHECK constraints |
| `Payments` | `/pay`, reconciler replicas, invoice handlers, provider; the core |
| `PaymentsLifecycle` | `Payments` implements `InvoiceLifecycle`, for each invoice |
| `PaymentsProofs` | theorems about the rows and the money of `Payments` |
| `PaymentsAnswersProofs` | theorems about its keys, answers, events and refinements: of the lifecycle, and of the provider contract |
| `PayLocks` | the same transactions statement by statement, with row locks; implements `Payments` |
| `PayLocksProofs` | theorems about `PayLocks`: its refinement, what it inherits by it, its deadlock and that nothing else stops it |
| `ProviderContract` | abstract: a reference has one fate, a call returns it or "unknown" |
| `Providers` | both adapters, the wire and the mock provider; implements `ProviderContract` |
| `ProvidersProofs` | theorems about `Providers` |
| `Money` | amounts in integers of a bounded width, and the same unbounded |
| `Invoices` | rows of invoices under their handlers, while a client pages through them; each row is one `InvoiceLifecycle` |
| `InvoicesProofs` | theorems about `Money` and `Invoices`: sums, rows, pages |
| `OutboxRow` | abstract: one delivery row, at most MaxAttempts attempts, then an end |
| `Outbox` | `emit`, endpoints, dispatcher replicas, receivers; implements `OutboxRow` for each row |
| `OutboxProofs` | theorems about `Outbox` |
| `Permissions` | grammar, route table, policies and grants, as operators |
| `Access` | one request or background job through the layers of authorisation |
| `AccessProofs` | theorems about `Permissions` and `Access` |
| `Credentials` | keys and tokens traded for each other, with requests in flight |
| `CredentialsProofs` | theorems about `is_subset_of` and `Credentials` |
| `MC*` | the instances TLC checks: totals, permission lists, symmetry |

### Payments: state and actions

A request makes at most one attempt, so attempts carry the name of their
request, which is also the provider's idempotency reference (`attempt.id` in
the code). The durable variables are rows (`invoice`, `attempt`, `idem`) and
`outbox`, the number of times each event was emitted; `onWire` and `ledger`
belong to the provider; `handler`, `batch` and `busy` are where the code of a
handler or loop is.

| Code | Action |
|---|---|
| `invoices.rs` create, send, void | `create`, `send`, `void` |
| `payments.rs` 148-292, phase 1 | `PayKnownKey` (replay, in progress, reuse), `PayRefused`, `PayClaim` |
| 298-309, phase 2 | `PayCharge`; the provider then does `PspProcess` whenever it likes |
| 311-346, phase 3 | `PaySettle`, through `settle` and `SettleReply` |
| a crash, a dropped request, a failed transaction | `PayLost` |
| `reconciler.rs` claim | `claim` |
| reconcile_one: processor missing or too many attempts | `give_up` |
| reconcile_one: charge; outcome; still unknown | `Resubmit`; `Reconciled`; `Unresolved` |
| a restart, a failed give_up | `WorkerFault` |

A transaction is one step. `PayLocks` shows that this is sound: taken apart into
statements, with the locks they take, the transactions implement `Payments`. The
read-then-update of `send` and `void` is one step too: the UPDATE repeats the
state test, and a handler that loses the race answers 409 and changes nothing.
One read is not protected: when a charge has no outcome, phase 3 reloads the
attempt without a lock, and what it saw may be old by the time it commits. So
`PaySettle` takes what was `seen` as an input, the present status or a 'pending'
that no longer holds.
Time is abstracted away: a charge call may return "unknown" at any moment and
the ledger's outcome at any later one, an attempt may be stale at once, and a
replica may claim what another still has in its batch. This includes what the
defaults allow (20 calls of 5 s against a staleness of 60 s). A call that the
provider never receives stays on the wire. The card token and the processor
matter only to the hash of the request and to the choice of provider.

The provider is assumed to charge a reference once and to remember it: that is
`ProviderContract`, which `Providers` implements (and `main.rs:36-38` of the mock
says of a real provider that its ledger is durable). `nothing_to_pay` has a guard of its own in the code and in
`PayRefused`; since an attempt is always for the whole balance no reachable
state satisfies it, like `partially_paid`, which `MoneyMatchesAttempts` says
outright. So is the branch for a conflicting key that has vanished
(`payments.rs:174-182`): keys are never deleted, and ON CONFLICT waits for the
other transaction to end. The refund row of the table has no endpoint:
`transition` has it, no action takes it.

### PayLocks

`tx` holds the open transaction of each handler, reconciler and invoice: its next
statement, what it has decided on, and the rows it has locked or written. The
variables of `Payments` are the committed rows. A statement waits (`WaitsFor`)
while another transaction holds a row it wants: FOR UPDATE and an UPDATE that
matches wait for the row's writer, an INSERT waits for the writer of an equal
entry of a unique index (the key; the pending attempt of the invoice), an UPDATE
whose WHERE does not match waits for nothing, and SKIP LOCKED passes over.
`Deadlock` is a minimal circle of waiters, and `Detect` rolls one of them back,
as PostgreSQL does. Foreign keys take share locks that conflict with none of
these updates and are left out; so are the rows `emit` inserts, which are new.

### Providers

A call has a client side (the adapter, which may give up at any time) and a
server side. `Receive` and `Record` are the two critical sections of the mock's
`settle()`, `Reply` the response, of which `Arriving` says what can come of it on
the way. The response is reduced to what the adapters look at: status, word,
handle, decline code. `Restart` loses the ledger and the tasks; `admin_reset` only
the ledger. `tok_timeout` is a success that a timeout beats.

### Invoices and Money

`begin` and `create` are the two ends of the transaction that inserts a row:
`created_at` is its start, so rows can appear behind newer ones. `list` and
`list_after` are the pages one client asks for. `settle` is the UPDATE of
`payments.rs:393-409` with any part of what is owed: the service itself charges
everything, but the table and the CHECKs are made for parts. `Money` has the
checked operations with MaxI64 as a parameter.

### Outbox

Rows are named by event and endpoint. `EmitRead` and `EmitCommit` are two steps
because endpoints may be created or disabled between them. `claim` marks a
batch 'delivering' and counts the attempt, `Post` sends, `Receive` is the
receiver's answer, `Succeed` and `Fail` are the two ends of `deliver()`; `Fail`
may follow a 2xx that came too late. `Fault` is a dispatcher's crash or a
failed transaction. `posted` and `accepted` are the receivers' history.
BACKOFF is represented by the number of the step a row waits for.

### Permissions, Access, Credentials

A scope is the pair of its halves, a permission list a set of scopes.
`Access` runs each handler as the list of its statements on its way to success;
each needs policies on a table, with PostgreSQL's rules for RETURNING, WHERE
and FOR UPDATE. `settle()` has five ways, all of which are tried. A background job
has no claims: its statements need the grants of `invoice_service`. `loosened` lets a request past the middleware, to see what the
policies alone would serve. `Credentials` keeps, for each key, token and
request in flight, the operator's key it descends from (`root`, a history).
The context of a request is fixed in the middleware, the handler runs later.

## 3. What is checked

Passing runs, their instances, and why those are enough:

| Run | Instance | Shows |
|---|---|---|
| `payments_clients` | 3 requests, 1 invoice, 2 keys, 1 worker | every assignment of keys: same key twice plus a rival, replays, retries after a decline. 3 requests are the fewest with a replay and a rival at once |
| `payments_replicas` | 2 requests with a key each, 1 invoice, 2 processors of which one is retired, 2 workers, 1 fault | two replicas with overlapping claims and a handler settle one attempt, with a second attempt after a decline or an exhaustion; giving up at first sight; the inductive invariant; the refinement |
| `payments_liveness` | 2 requests for 2 invoices, BatchLimit 1, 1 fault | competition for batches does not starve an attempt |
| `pay_locks` | 2 requests, 1 invoice, 2 keys, 1 worker, 1 fault | every interleaving of the statements. Two transactions are enough for the circle that exists, and a third (sweep, give-up, void) takes part in none; several invoices add nothing, because only the sweep locks rows of more than one and it never waits |
| `providers` | 2 references, 3 calls, 4 cards, both processors, 1 restart | three calls overlap inside `settle()`, across a restart, for one reference or two |
| `invoices` | 3 invoices of 1, 1 and 2 cents, 2 times, page sizes 1 and 2; arithmetic of 6 bits, amounts up to 10, lists of up to 3 lines where 2 are allowed | pages end before, at and behind a row that comes late, with equal times and both orders of ids; products and sums fall on, just below and just above each limit, and past the width |
| `outbox` | 1 event, 2 endpoints, 2 dispatchers, BatchSize 2, 4 attempts, 2 faults | batches overlap and split, rows compete, and the schedule runs to its end past its clamp |
| `access` | all lists of at most 2 scopes of the full grammar, all 17 routes, both tiers; all background jobs | no guard looks at more than two scopes at once |
| `credentials` | 2 businesses, 2 seed keys, 2 more keys, 2 tokens, 2 requests; the three routes that change credentials | key → token → key → token chains, with a request of before in flight |

Bounds: `MaxFaults` bounds reconciler and dispatcher crashes and lost
transactions only (`PayLost` is not bounded); `MaxReconcile`, `BatchLimit`,
`BatchSize` and `MaxAttempts` are parameters of the code, made small, as are the
page sizes and the limits of amounts. `MaxRestarts` bounds the provider's
restarts and resets, `MaxClock` the times at which invoices are created. Symmetry
is used on requests and keys (or the like), which are only compared for
equality, and never where liveness is checked. CHECK_DEADLOCK is off
everywhere: the instances really stop, when all requests have been answered,
all events handled or all credentials used up.

What is asked, beyond one type invariant in each module:

- Payments: `ChargedOnce`, `MoneyMatchesAttempts`, `VerdictsAreTrue`,
  `KeySpentOnOneAttempt`, `AnswersAreTrue`, `EventsMatchAttempts`, the action
  property `SettledIsFinal`, the inductive `PaymentInv` (of which
  `ChargesAreRecorded` is a part), the refinement `ImplementsLifecycle`, and
  liveness `PendingIsResolved`. `ChargedOnce` leaves out attempts that were
  handed to a person (`reconciliation_exhausted`): after giving up, the invoice
  can be paid again while the old charge may have gone through. The code logs
  this for manual review; the model has it, and the property says exactly how
  far the promise goes.
- PayLocks: `ImplementsPayments`, the refinement; `OnlySuccessMeetsClaim`, which
  deadlock there is and that there is no other; `OnlyLocksAreWaitedFor`, that no
  transaction waits for a provider, a client or a timer: one that waits for no
  lock has its next statement `Prepared`, and that is when TLC finds the step enabled.
- Providers: `ImplementsContract`, the refinement; `OnlyForgettingRecharges`;
  `DeclinesKeepTheirCode`.
- Invoices: `ListedOnce`, and liveness `ListEnds`; `ChecksHold` and
  `CollectibleMeansOwed`, on every row: the CHECK constraints, and that an invoice can be
  collected only while something is owed on it (the converse is false: a draft or a void
  invoice is unpaid and takes no payment); `TotalsAreExact`, which compares `Money`
  with exact arithmetic on every list of lines in `Drafts` as well as on the rows.
- Outbox: `OneHolder`, `AttemptsAreReal`, `RetriesFollowSchedule`,
  `ImplementsRow`, `DisabledIsLeftAlone`, `QueuedIsSettled`.
- Access: `ScopesAgree`, `AdmittedIsServed` (with its two documented
  exceptions, where a payment or an invoice is refused with 404 for want of a
  read scope on another resource), `DatabaseBackstop` (with two
  exceptions: the mint route runs no statement of a tenant, and a collector's
  `payment:create` passes the invoices' UPDATE policy, so only the middleware
  keeps it from sending and voiding).
- Credentials: `NoEscalation`, `CredentialInv`, `KeysChangeByToken`,
  `RevocationIsFinal`.

Fairness. `payments_liveness` assumes that a worker which holds a batch goes on
with it (weak fairness: the loop awaits a client with a timeout and has no other
exit), and that a pending attempt is claimed if it can be claimed again and
again (strong fairness: the claim orders by `updated_at`, which the claim itself
moves, so no row is passed over for ever). Nothing is assumed of handlers,
clients or the provider. The dispatchers' assumptions are the same, with
`next_attempt_at` as the order. Both need that crashes stop: MaxFaults. `ListEnds`
assumes only that the client asks for the next page; invoices go on changing.

## 4. Where documentation and code disagree

Three runs are expected to find a violation:

- `void_race` — `openapi.yaml:406-407`: "once any money has moved the invoice
  is part of the money trail and cannot be voided". `void()` looks at
  `amount_paid_cents`, which a charge in flight has not touched. The service
  logs the success for manual review, and still emits `invoice.paid`.
- `stuck_key` — `payments.rs:202`: "the first request is still in flight".
  After a crash nobody is; the reconciler settles the attempt but never writes
  the key's response, and the key answers 409 for ever.
- `never_dropped` — `DESIGN.md:218-220`, "never silently dropped". A dispatcher
  that dies between claim and result leaves the row 'delivering', which no
  claim takes. `outbox.rs:21-23` refers to a note in DESIGN.md that is not there.

Read, but not given a run:

- The hash tells an omitted processor from the default one named explicitly
  (`payments.rs:549-556`), although both mean the same charge, and
  `DESIGN.md:172-174` says that the hash covers the meaning.
- `PayLocks` has a deadlock: a claim holds the invoice and waits on the pending
  index for an attempt whose settlement waits for the invoice
  (`payments.rs:212-216`, `261-273`, `371-409`). PostgreSQL aborts one of the two,
  and a client gets a 500: the claimant, or the one whose card was just charged,
  whose attempt is left to the reconciler and whose key is left without an answer.
  `payments.rs:54-55` and `openapi.yaml:436-437` promise the claimant a 409, and
  `tests/concurrency.rs:67` expects nothing but 200 and 409.
- Events can be queued for an endpoint disabled between `emit`'s read and its
  commit (`events.rs:46-93`; `openapi.yaml:604-605` says none are).
  `DisabledIsLeftAlone` is what does hold.
- The lists of API keys, webhook endpoints and deliveries return `has_more` and
  ignore `starting_after` (`webhooks.rs:68-95`, `142-187`, `api_keys.rs:80-105`),
  so that what is behind the first page cannot be reached; `openapi.yaml:575-583`
  documents the parameter.
- `overdue` is computed with CURRENT_DATE for the filter (`invoices.rs:352`) and
  with the UTC date of the process for the body (`models.rs:129-136`).
- A 402 can carry `reconciliation_exhausted` (`payments.rs:510-523`), while
  `openapi.yaml:442` calls a 402 a definitive decline.
- The comment at `0002_schema.sql:149` says that request_hash covers "method +
  path + body"; it covers invoice, card and processor.

## 5. What is proved

Every safety property of the passing runs but one is a theorem, for every value of
the constants that satisfies the named assumptions. Those say that bounds are
naturals (some not zero), that a default is among its values, that names of
different sorts differ and that `None` is no name: `PaymentsAssumption`,
`LocksAssumption`, `OutboxAssumption`, `ProvidersAssumption`,
`AccessAssumption`, `CredentialsAssumption`, `InvoicesAssumption`,
`MoneyAssumption`; `InvoicesAssumption` adds that what clients send (lines, limits) are
numbers.

The pattern is the same throughout: the property is not inductive, a
strengthening is (defined beside the model, so that it can be checked before it is proved), and each step
is one of a few kinds whose effects a lemma states once.

**PaymentsProofs.** `TypeCorrect`, then `InvariantHolds` by the inductive
invariant `TypeOK /\ PaymentInv`, then `NeverChargedTwice`, `NoChargeIsLost`,
`VerdictsHold`, `MoneyIsAccountedFor` and `SettledStays`. That no second attempt
succeeds depends on when an attempt may be made at all, and `PaymentInv` adds
why: an invoice has at most one attempt that is
pending or succeeded (`OneLivePerInvoice`; the index keeps two pending ones
apart, and a success ends the invoice, `SuccessEndsInvoice`), a pending attempt
is for the whole total (`FullAmount`, since nothing is ever partly paid,
`AllOrNothing`), codes and statuses go together (`CodesMatch`), verdicts follow
the ledger (`VerdictsAreTrue`), and whoever works on an attempt works on a
committed row (`WorkIsRecorded`). A charge that succeeded then belongs to an
attempt that is pending, succeeded or handed to a person, never declined, and
`OneLivePerInvoice` leaves one. What settling does to the rows is proved once and
used for the handler and the reconciler. `SettledStays` follows
from that lemma and `WorkIsRecorded`: nobody can insert an attempt that exists.
`TicketsAreUnique` and `TicketsAreDrawnAndSpent` bound the reconciler: the value of
`reconcile_attempts` that a replica claims with is a ticket that no other replica
ever holds for this attempt, even when batches overlap or are lost, and asking the
provider again costs one of the first MaxReconcile tickets. Every step either draws
tickets for one replica or at most lets go of some (`TicketStep`); so however many
replicas, sweeps and restarts there are, an attempt is resubmitted at most
MaxReconcile times. This is the safety half of `PendingIsResolved`.

**PaymentsAnswersProofs.** `KeysAreSpentOnce` and `ClientsAreToldTheTruth` from
`AnswerInv`. Replays are the reason for a strengthening: what a client is told
later comes from the key's row, so the truth has to be carried by what is stored
(`StoredAnswersAreTrue`), and everyone who was told about a payment was told what
is stored (`AnswersComeFromKeys`), which needs that the handler that spent a
key is the only one to write its answer, once. A stored answer stays true because
the ledger only grows and verdicts are final. `EventsAreTrue` counts emissions
against the attempts with that verdict. `LifecycleIsImplemented` maps every
step to a row of the transition table, or to none: a settlement pays in full
(`FullAmount`), so the table's answer is "paid". `StoredAnswersStay`: a spent key stays
with its request and its answer is never replaced, so that all replays agree.
`RowsLearnByContract` makes the attempt rows the callers of `ProviderContract`: what
a row says is what a call returned, the ledger is the fate, and a verdict
is only ever recorded from it. With `ContractIsImplemented` below the two halves of a
payment meet at the same abstract specification.

**PayLocksProofs.** `TransactionsAreAtomic` is what makes one step for each
transaction sound in `Payments` (`LocksImplementPayments` says it with its initial states). The
theorems above therefore hold of the statements too: `LocksChargeOnce`, `LocksAnswerTruly`
(answers and keys), `LocksKeepTheBooks` (money, verdicts, events, and that what is settled
is final) and `LocksKeepTheirWord` (tickets, stored answers, the provider contract). `LockInv` says
for each open transaction which of five shapes it has (nothing, a claim, a
settlement, a sweep, a void), which rows it must hold by its stage and what it
may rely on, and that no row is held twice. To prove it kept, a step of one
transaction only writes rows that it holds or nobody does (`Footprint`), which
therefore leaves alone what any other one relies on (`Respects`); so a shape is
disturbed by its own steps only. At its last statement, a claim still has its
invoice payable and unclaimed, a settlement its attempt pending, and the step is
that of `Payments`. The inductive invariant contains `PaymentInv` and
`AnswerInv`, since every other statement is a stutter of `Payments`.
`DeadlocksAreOfTwo` follows the waits around a minimal circle of any length:
only a claim is waited for while it waits to insert, by a settlement with a
success, and that settlement holds the attempt of the claim's own invoice.
`LocksAreAllThatIsWaitedFor` reads off the five shapes that a transaction which waits for no
lock has what its next statement needs. `NothingHangs` puts the two together. If every open transaction waits, each
waits for one that waits; only a claim or a settlement can be waited for while waiting, so
following two waits leads from a claim to a settlement and back to the same claim,
which is a minimal circle: a deadlock for the detector, and its claim has committed
nothing that a rollback could lose. No finiteness of the set of transactions is needed.

**OutboxProofs.** `RowsHaveOneHolder`, `AttemptsArePosts`, `ScheduleIsFollowed`
from `OutboxInv`. `deliver()` writes its result without looking at the row
again, so that what a dispatcher knows must still be what the row says
(`HolderIsCurrent`): the row is 'delivering' with the count it was claimed with,
and POSTs and counts agree (`RowAddsUp`). Then `RowIsImplemented`;
`DisabledStaysAlone`; and the safety half of `QueuedIsSettled`: `OnlyFaultsOrphan`,
`NoPostIsUncounted` (crashes or not, counts run ahead of the POSTs by at most one, and only while a row is
'delivering', so that a receiver is sent an event at most MaxAttempts times), and `DeliveriesRunDown`, with the rank
of a row: twice its count, plus one when no attempt is under way. Every change
of a row raises it and it never exceeds 2 * MaxAttempts + 1, so work on a row ends.

**ProvidersProofs.** `ChargedOncePerLedger`, `CodesAreKept` and
`ContractIsImplemented` from `ProvidersInv`: whatever a task holds, or a caller
was told, was recorded for its reference and is what the card of that reference
stands for (`CallIsTrue`), a reference is on the ledger of its own processor only,
and recorded once for each time it was forgotten (`LedgerIsTrue`). A garbled
response only loses information, which `CodesAreKept` allows and no more. Two
consequences for the callers: `CallersAreToldTheSame`, that two of them are never given
different outcomes of one reference, even when the ledger was forgotten in between; and
`BrokenLinesStayOpen`, that the card whose connection is dropped is neither charged
nor decided, for which `KeptOffTheLedger` is inductive.

**AccessProofs.** `HasScopeAgrees` (the Rust and the SQL scope check are the
same function), then for every set of permission lists, not only those of two
scopes: `GrammarsAgree`, `AdmittedRunThrough`, `DatabaseStandsAlone`, from
`AccessInv`, which says what the statements that have run and those that are left
have in common with those of the route.

**CredentialsProofs.** `SubsetNarrows` (a list that
passes the subset check grants nothing new), and from it `NeverEscalates` and `InvariantHolds`, with `CredentialInv` as inductive
invariant (a running request keeps the context that passed the middleware, and
only tokens are critical), then `KeysChangeOnlyByToken` and `RevocationHolds`.

**InvoicesProofs.** Arithmetic first: `TotalIsExact`, for every list of lines, every
limit and every width of the integers. The loop of `sum_amounts` is a recursive
function, and what it computes is proved by a least counterexample:
`LeastNumber` gets it from the well-foundedness of finite sets, which the
library states without an operator as parameter, so induction is possible here after
all. `PartialExists` shows that the function is defined, `PartialIsExact` that up to
each line it is the exact sum or refused for a reason that lasts, since sums only grow.
Then `TotalsAreRight`. For the rows: `ChecksAreKept` and
`OwedWhileCollectible` from `RowInv`, money
follows state, for payments in any parts; `RowsLiveTheLifecycle`, that each row
is one `InvoiceLifecycle` (no run repeats this: the table is that module's own).
For the pages: `NothingIsMissed` and `TypeCorrect` from `PageInv`. What was sent lies
before the cursor and what is owed behind it, and no write moves a row, because
`created_at` never changes. `NewestIsPrefix` says that what a LIMIT leaves out is
older than what it lets through, `OneMoreTells` that LIMIT n + 1 returns at most n rows only
if it returns all. `EveryPageAdvances` is the safety half of `ListEnds`: the page size is
at least one whatever was asked for, and a page with has_more is full.

Failed proofs found three flaws of the models, since mended: two
`CASE`s whose arms overlapped, of which TLC took the first and the logic
takes any (the scopes of the policies, and what settling makes of a row in
`PayLocks`), and an assumption of `Invoices` that allowed a clock with no first
moment. None changed what a run explores. For the proofs, a page of `Invoices` became a set
with a newest and an oldest row, and the folds of `Money` recursive functions;
the runs find the same states.

Only model-checked, and why:

- `OnlyLocksAreWaitedFor` says when a step is ENABLED, which the prover does not treat.
  Its first conjunct is `LocksAreAllThatIsWaitedFor`; that `CanStep` means
  ENABLED is left to TLC.
- `PendingIsResolved`, `QueuedIsSettled` and `ListEnds` rest on fairness. That the work they
  speak of is bounded is proved (`TicketsAreDrawnAndSpent`, `DeliveriesRunDown`,
  `EveryPageAdvances`); that it is done is not.

## 6. Not modelled

- Wall-clock time: staleness, backoff durations and jitter, token lifetimes.
- Signatures and hashing of webhooks, keys and tokens; public ids.
- The tenant column (a caller asks for its own rows), currencies, descriptions.
- Response bodies, except `has_more`; configuration, process start, documents.
- Share locks of foreign keys, and the connection pools.
- The integration tests, which were read for what they expect.

## 7. Plan

Done so far, in this order: InvoiceLifecycle, Payments with its refinement and
proofs; OutboxRow and Outbox; Permissions, Access, Credentials and their proofs;
Providers with its contract; Money and Invoices; PayLocks; the background role;
the proofs about answers and events, the outbox, the providers, the layers of
authorisation, the row locks, and the sums, rows and pages of invoices; then
that nothing hangs, that the statements inherit what `Payments` promises, that
`Payments` meets the provider at `ProviderContract`, and the bounds on retries,
deliveries and pages.

Next: `ReconcilerClock`, staleness, interval and call timeouts as a discrete
clock: how many attempts a sweep of 20 can overlap with, and when give_up comes.
