------------------------------- MODULE Outbox -------------------------------
(***************************************************************************)
(* Webhooks: the transactional outbox that emit() writes                   *)
(* (crates/api/src/events.rs), the dispatcher loops that deliver it        *)
(* (crates/api/src/outbox.rs), and the endpoints their owner registers and *)
(* disables meanwhile (crates/api/src/routes/webhooks.rs).                 *)
(*                                                                         *)
(* A delivery row is named by its event and endpoint.  The transaction     *)
(* that emits an event reads the live endpoints in one statement and       *)
(* inserts the rows in later ones, all visible at its commit; every other  *)
(* transaction is one step.  Due times are abstracted to "at any time",    *)
(* the row keeps which step of the backoff schedule it waits for.          *)
(***************************************************************************)
EXTENDS Integers, FiniteSets

CONSTANTS
    Events,
    Endpoints,
    Dispatchers,  \* dispatcher loops, one per replica
    BatchSize,    \* config.webhook_batch_size
    MaxAttempts,  \* MAX_ATTEMPTS, the length of BACKOFF plus one
    MaxFaults,    \* bound on crashes and failed transactions of dispatchers
    None

Rows == Events \X Endpoints

ASSUME OutboxAssumption ==
    /\ BatchSize \in Nat
    /\ MaxAttempts \in Nat \ {0}
    /\ MaxFaults \in Nat
    /\ None \notin Rows

VARIABLES
    \* durable
    endpoint,   \* webhook_endpoints
    delivery,   \* webhook_deliveries
    \* transactions that emit an event
    emission,   \* where the transaction is and which endpoints it has read
    \* dispatcher loops
    batch,      \* claimed rows not yet posted, with the attempt_count returned
    sending,    \* the row whose POST the dispatcher is waiting for
    count,      \* the attempt_count it was claimed with
    answer,     \* what the receiver answered to that POST
    faults,
    \* history of the receivers
    posted,     \* POSTs made for each row
    accepted    \* rows a receiver has answered 2xx to

dispatcher == <<batch, sending, count>>
network == <<answer, posted, accepted>>
vars == <<endpoint, delivery, emission, dispatcher, faults, network>>

-----------------------------------------------------------------------------
Delivery == [status : {"none", "pending", "delivering", "delivered", "exhausted"},
             attempt_count : Nat,
             delay : Nat]   \* how many steps of BACKOFF have been waited for

TypeOK ==
    /\ endpoint \in [Endpoints -> {"absent", "live", "disabled"}]
    /\ delivery \in [Rows -> Delivery]
    /\ emission \in [Events -> [tx : {"idle", "open", "over"}, seen : SUBSET Endpoints]]
    /\ batch \in [Dispatchers -> [Rows -> Nat]]
    /\ sending \in [Dispatchers -> Rows \cup {None}]
    /\ count \in [Dispatchers -> Nat]
    /\ answer \in [Dispatchers -> {"none", "2xx", "error"}]
    /\ faults \in 0 .. MaxFaults
    /\ posted \in [Rows -> Nat]
    /\ accepted \subseteq Rows

NoBatch == [x \in Rows |-> 0]

Init ==
    /\ endpoint = [p \in Endpoints |-> "absent"]
    /\ delivery = [x \in Rows |-> [status |-> "none", attempt_count |-> 0, delay |-> 0]]
    /\ emission = [e \in Events |-> [tx |-> "idle", seen |-> {}]]
    /\ batch = [d \in Dispatchers |-> NoBatch]
    /\ sending = [d \in Dispatchers |-> None]
    /\ count = [d \in Dispatchers |-> 0]
    /\ answer = [d \in Dispatchers |-> "none"]
    /\ faults = 0
    /\ posted = [x \in Rows |-> 0]
    /\ accepted = {}

-----------------------------------------------------------------------------
(* Endpoints *)

create(p) ==
    /\ endpoint[p] = "absent"
    /\ endpoint' = [endpoint EXCEPT ![p] = "live"]
    /\ UNCHANGED <<delivery, emission, dispatcher, faults, network>>

\* Disabled, never deleted; the queued rows of the endpoint are left alone.
disable(p) ==
    /\ endpoint[p] = "live"
    /\ endpoint' = [endpoint EXCEPT ![p] = "disabled"]
    /\ UNCHANGED <<delivery, emission, dispatcher, faults, network>>

-----------------------------------------------------------------------------
(* emit(), inside the transaction of the state change it announces.        *)

Live == {p \in Endpoints : endpoint[p] = "live"}

\* Mutant of EmitRead: the SELECT has no AND disabled_at IS NULL.
EmitRead_disabledToo(e) ==
    /\ emission[e].tx = "idle"
    /\ emission' = [emission EXCEPT
                      ![e] = [tx |-> "open", seen |-> {p \in Endpoints : endpoint[p] # "absent"}]]
    /\ UNCHANGED <<endpoint, delivery, dispatcher, faults, network>>

EmitRead(e) ==
    /\ emission[e].tx = "idle"
    /\ emission' = [emission EXCEPT ![e] = [tx |-> "open", seen |-> Live]]
    /\ UNCHANGED <<endpoint, delivery, dispatcher, faults, network>>

\* One pending row for each endpoint read, committed with the state change.
EmitCommit(e) ==
    /\ emission[e].tx = "open"
    /\ emission' = [emission EXCEPT ![e].tx = "over"]
    /\ delivery' = [x \in Rows |->
                      IF x[1] = e /\ x[2] \in emission[e].seen
                      THEN [delivery[x] EXCEPT !.status = "pending"]
                      ELSE delivery[x]]
    /\ UNCHANGED <<endpoint, dispatcher, faults, network>>

\* The state change is rolled back and takes the rows with it.
EmitAbort(e) ==
    /\ emission[e].tx = "open"
    /\ emission' = [emission EXCEPT ![e] = [tx |-> "over", seen |-> {}]]
    /\ UNCHANGED <<endpoint, delivery, dispatcher, faults, network>>

-----------------------------------------------------------------------------
(* The dispatcher: claim a batch, then deliver its rows one by one.        *)

Pending == {x \in Rows : delivery[x].status = "pending"}

\* Mutant of claim: the claimed rows are not marked.
claim_unmarked(d, S) ==
    /\ batch[d] = NoBatch /\ sending[d] = None
    /\ S # {} /\ S \subseteq Pending
    /\ Cardinality(S) <= BatchSize
    /\ delivery' = [x \in Rows |->
                      IF x \in S THEN [delivery[x] EXCEPT !.attempt_count = @ + 1]
                      ELSE delivery[x]]
    /\ batch' = [batch EXCEPT ![d] =
                    [x \in Rows |-> IF x \in S THEN delivery[x].attempt_count + 1 ELSE 0]]
    /\ UNCHANGED <<endpoint, emission, sending, count, faults, network>>

\* The rows of disabled endpoints are claimed like any others.
claim(d, S) ==
    /\ batch[d] = NoBatch /\ sending[d] = None
    /\ S # {} /\ S \subseteq Pending
    /\ Cardinality(S) <= BatchSize
    /\ delivery' = [x \in Rows |->
                      IF x \in S
                      THEN [delivery[x] EXCEPT !.status = "delivering", !.attempt_count = @ + 1]
                      ELSE delivery[x]]
    /\ batch' = [batch EXCEPT ![d] =
                    [x \in Rows |-> IF x \in S THEN delivery[x].attempt_count + 1 ELSE 0]]
    /\ UNCHANGED <<endpoint, emission, sending, count, faults, network>>

\* deliver(), first half: the POST goes out; no transaction is held.
Post(d, x) ==
    /\ sending[d] = None
    /\ batch[d][x] > 0
    /\ batch' = [batch EXCEPT ![d][x] = 0]
    /\ sending' = [sending EXCEPT ![d] = x]
    /\ count' = [count EXCEPT ![d] = batch[d][x]]
    /\ posted' = [posted EXCEPT ![x] = @ + 1]
    /\ UNCHANGED <<endpoint, delivery, emission, faults, answer, accepted>>

\* The receiver answers; whether the answer arrives in time is another matter.
Receive(d) ==
    /\ sending[d] # None
    /\ answer[d] = "none"
    /\ \/ /\ answer' = [answer EXCEPT ![d] = "2xx"]
          /\ accepted' = accepted \cup {sending[d]}
       \/ /\ answer' = [answer EXCEPT ![d] = "error"]
          /\ UNCHANGED accepted
    /\ UNCHANGED <<endpoint, delivery, emission, dispatcher, faults, posted>>

\* Mutant of backoff_for: the table is indexed with the count itself.
backoff_for_shifted(attempt_count) ==
    IF attempt_count + 1 > MaxAttempts - 1 THEN MaxAttempts - 1 ELSE attempt_count + 1

\* Which step of the schedule a retry waits for, clamped to the table of
\* MaxAttempts - 1 delays.
backoff_for(attempt_count) ==
    IF attempt_count < 1 THEN 1
    ELSE IF attempt_count > MaxAttempts - 1 THEN MaxAttempts - 1
    ELSE attempt_count

\* Mutant of Failed: a status the table's CHECK does not know.
Failed_status(row, attempt_count) ==
    IF attempt_count >= MaxAttempts
    THEN [row EXCEPT !.status = "failed"]
    ELSE [row EXCEPT !.status = "pending", !.delay = backoff_for(attempt_count)]

\* Mutant of Failed: a retry does not set the row back to 'pending'.
Failed_stuck(row, attempt_count) ==
    IF attempt_count >= MaxAttempts
    THEN [row EXCEPT !.status = "exhausted"]
    ELSE [row EXCEPT !.delay = backoff_for(attempt_count)]

\* Mutant of Failed: one attempt too many.
Failed_late(row, attempt_count) ==
    IF attempt_count > MaxAttempts
    THEN [row EXCEPT !.status = "exhausted"]
    ELSE [row EXCEPT !.status = "pending", !.delay = backoff_for(attempt_count)]

\* Mutant of Failed: gives up on the last retry instead of making it.
Failed_early(row, attempt_count) ==
    IF attempt_count >= MaxAttempts - 1
    THEN [row EXCEPT !.status = "exhausted"]
    ELSE [row EXCEPT !.status = "pending", !.delay = backoff_for(attempt_count)]

Failed(row, attempt_count) ==
    IF attempt_count >= MaxAttempts
    THEN [row EXCEPT !.status = "exhausted"]
    ELSE [row EXCEPT !.status = "pending", !.delay = backoff_for(attempt_count)]

Idle(d) ==
    /\ sending' = [sending EXCEPT ![d] = None]
    /\ count' = [count EXCEPT ![d] = 0]
    /\ answer' = [answer EXCEPT ![d] = "none"]

\* deliver(), second half: a 2xx arrived. The UPDATE does not look at the row.
Succeed(d) ==
    /\ sending[d] # None
    /\ answer[d] = "2xx"
    /\ delivery' = [delivery EXCEPT ![sending[d]].status = "delivered"]
    /\ Idle(d)
    /\ UNCHANGED <<endpoint, emission, batch, faults, posted, accepted>>

\* Another status, a timeout or a broken connection, whatever was answered.
Fail(d) ==
    /\ sending[d] # None
    /\ delivery' = [delivery EXCEPT ![sending[d]] = Failed(@, count[d])]
    /\ Idle(d)
    /\ UNCHANGED <<endpoint, emission, batch, faults, posted, accepted>>

\* The replica dies, or only the transaction that records the answer fails.
Fault(d) ==
    /\ faults < MaxFaults
    /\ faults' = faults + 1
    /\ batch[d] # NoBatch \/ sending[d] # None
    /\ \/ batch' = [batch EXCEPT ![d] = NoBatch]
       \/ sending[d] # None /\ UNCHANGED batch
    /\ Idle(d)
    /\ UNCHANGED <<endpoint, delivery, emission, posted, accepted>>

-----------------------------------------------------------------------------
Next ==
    \/ \E p \in Endpoints : create(p) \/ disable(p)
    \/ \E e \in Events : EmitRead(e) \/ EmitCommit(e) \/ EmitAbort(e)
    \/ \E d \in Dispatchers :
          \/ \E S \in SUBSET Rows : claim(d, S)
          \/ \E x \in Rows : Post(d, x)
          \/ Receive(d) \/ Succeed(d) \/ Fail(d) \/ Fault(d)

Spec == Init /\ [][Next]_vars

\* A loop finishes the batch it holds (the POST has a timeout) and, taking the
\* rows longest due first, passes over no due row for ever.  Nothing is assumed
\* of receivers, of endpoints or of the transactions that emit.
Fairness ==
    /\ \A d \in Dispatchers :
          WF_vars((\E x \in Rows : Post(d, x)) \/ Succeed(d) \/ Fail(d))
    /\ \A x \in Rows :
          SF_vars(\E d \in Dispatchers, S \in SUBSET Rows : x \in S /\ claim(d, S))

FairSpec == Spec /\ Fairness

-----------------------------------------------------------------------------
(* Properties *)

Holds(d, x) == batch[d][x] > 0 \/ sending[d] = x

Settled(x) == delivery[x].status \in {"delivered", "exhausted"}

\* A row is worked on by one dispatcher at most, and only while it is marked
\* 'delivering': this is all that protects it, because the UPDATEs of deliver()
\* are not conditional on the row's status.
OneHolder ==
    /\ \A d \in Dispatchers, x \in Rows : Holds(d, x) =>
          delivery[x].status = "delivering" /\ ~(batch[d][x] > 0 /\ sending[d] = x)
    /\ \A d1, d2 \in Dispatchers, x \in Rows :
          Holds(d1, x) /\ Holds(d2, x) => d1 = d2

\* Every counted attempt was a POST, but for one that a crash may have eaten; so
\* a row is exhausted only when MaxAttempts POSTs have really been made, never
\* more, and delivered only when one of them was answered 2xx.
\* (attempt_count is incremented by claim, before the POST)
AttemptsAreReal ==
    \A x \in Rows :
        LET claimed == \E d \in Dispatchers : batch[d][x] > 0 IN
        /\ delivery[x].attempt_count <= MaxAttempts
        /\ delivery[x].status = "exhausted" => posted[x] = MaxAttempts
        /\ delivery[x].status \in {"pending", "delivered"}
              => posted[x] = delivery[x].attempt_count
        /\ delivery[x].status = "delivered" => x \in accepted
        /\ claimed => posted[x] + 1 = delivery[x].attempt_count

\* A retry waits for the step of the schedule that belongs to the attempt that
\* failed, and the clamp of backoff_for never hides a wrong index.
RetriesFollowSchedule ==
    \A x \in Rows : delivery[x].status = "pending" =>
        delivery[x].delay = delivery[x].attempt_count

-----------------------------------------------------------------------------
(* The inductive invariant behind the safety properties.                   *)

\* What a row says of itself: its count is that of the POSTs made, but for one
\* that was claimed and not made yet, or never will be.
RowAddsUp(x) ==
    LET row == delivery[x] IN
    /\ row.attempt_count <= MaxAttempts
    /\ row.status = "none" => row.attempt_count = 0 /\ posted[x] = 0 /\ row.delay = 0
    /\ row.status = "pending" => /\ posted[x] = row.attempt_count
                                 /\ row.attempt_count < MaxAttempts
                                 /\ row.delay = row.attempt_count
    /\ row.status = "delivering" => row.attempt_count > 0
    /\ row.status = "delivered" => posted[x] = row.attempt_count /\ x \in accepted
    /\ row.status = "exhausted" => /\ posted[x] = MaxAttempts
                                   /\ row.attempt_count = MaxAttempts

\* What a dispatcher knows of a row it has claimed is still what the row says.
HolderIsCurrent(d, x) ==
    LET row == delivery[x] IN
    /\ batch[d][x] > 0 => /\ row.status = "delivering"
                          /\ sending[d] # x
                          /\ batch[d][x] = row.attempt_count
                          /\ posted[x] + 1 = row.attempt_count
    /\ sending[d] = x => /\ row.status = "delivering"
                         /\ count[d] = row.attempt_count
                         /\ posted[x] = row.attempt_count
                         /\ answer[d] = "2xx" => x \in accepted

\* The rows of an event appear when its transaction commits.
QueuedByCommit ==
    \A e \in Events, p \in Endpoints :
        emission[e].tx # "over" => delivery[<<e, p>>].status = "none"

\* An answer belongs to the POST that is waited for.
AnswersAreOwn == \A d \in Dispatchers : sending[d] = None => answer[d] = "none"

OutboxInv ==
    /\ \A x \in Rows : RowAddsUp(x)
    /\ \A d \in Dispatchers, x \in Rows : HolderIsCurrent(d, x)
    /\ OneHolder
    /\ QueuedByCommit
    /\ AnswersAreOwn

-----------------------------------------------------------------------------
(* Liveness, and what disabling an endpoint does.                          *)

\* A row that is 'delivering' while no dispatcher holds it: lost by a crash.
Orphaned(x) ==
    delivery[x].status = "delivering" /\ \A d \in Dispatchers : ~Holds(d, x)

\* Without a crash no row is lost.
OrphansComeFromFaults == \A x \in Rows : Orphaned(x) => faults > 0

\* Every queued row is in the end delivered, exhausted, or orphaned by a crash;
\* without a crash none is orphaned.
QueuedIsSettled ==
    \A x \in Rows :
        delivery[x].status = "pending" ~> Settled(x) \/ (Orphaned(x) /\ faults > 0)

\* Disabling takes hold with the next state change: an event whose transaction
\* had not begun by then never gets a row for the endpoint, although one that
\* had may commit its rows later, and those are tried as ever. (emit() reads
\* the live endpoints inside the transaction, disable() leaves rows alone)
DisabledIsLeftAlone ==
    \A e \in Events, p \in Endpoints :
        [](emission[e].tx = "idle" /\ endpoint[p] = "disabled"
              => [](delivery[<<e, p>>].status = "none"))

-----------------------------------------------------------------------------
(* What the documentation says that the code does not keep.                *)

\* DESIGN.md, on webhook retries: "After the last attempt the row is exhausted
\* ... never silently dropped"; openapi.yaml: "Delivery is at-least-once".
NeverDropped == \A x \in Rows : delivery[x].status = "pending" ~> Settled(x)

-----------------------------------------------------------------------------
(* Each row implements OutboxRow; 'delivering' is a queued row too.        *)

Row(x) == INSTANCE OutboxRow
    WITH state <- CASE delivery[x].status = "none" -> "absent"
                    [] delivery[x].status \in {"pending", "delivering"} -> "queued"
                    [] OTHER -> delivery[x].status,
         attempts <- delivery[x].attempt_count

ImplementsRow ==
    /\ \A x \in Rows : Row(x)!Init
    /\ [][\A x \in Rows : [Row(x)!Next]_(Row(x)!vars)]_vars

=============================================================================
