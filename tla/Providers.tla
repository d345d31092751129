----------------------------- MODULE Providers -----------------------------
(***************************************************************************)
(* Charge calls from the adapter to the provider and back: the two         *)
(* adapters (crates/api/src/psp/alphapay.rs, betapay.rs), the wire, and    *)
(* the provider with its in-memory ledger (crates/mock-psp/src/main.rs).   *)
(*                                                                         *)
(* A call is made by a /pay handler or by a reconciler, for an attempt row *)
(* that names the processor and the card; the attempt id is the reference. *)
(* Several calls for one reference may be in flight: the caller of one may *)
(* have timed out while the provider still works on it.  Each time the     *)
(* provider takes its lock is a step.  Latencies and the client's timeout  *)
(* are abstracted to "at any time".                                        *)
(***************************************************************************)
EXTENDS Integers

CONSTANTS
    References,     \* payment_attempts.id
    Calls,          \* invocations of PaymentProcessor::charge
    Cards,          \* card tokens in use
    MaxRestarts,    \* bound on restarts and resets of the provider
    None

Processors == {"alphapay", "betapay"}

ASSUME ProvidersAssumption == MaxRestarts \in Nat /\ None \notin References

VARIABLES
    attempt,    \* processor and card of each attempt row
    call,       \* each call: its reference, its caller and its server task
    ledger,     \* Ledger.by_reference
    charges,    \* how often each reference was recorded, in all (history)
    restarts

vars == <<attempt, call, ledger, charges, restarts>>

-----------------------------------------------------------------------------
(* Outcomes and verdicts *)

Succeeded == [tag |-> "succeeded", code |-> "none"]
Failed(code) == [tag |-> "failed", code |-> code]
Unknown == [tag |-> "unknown", code |-> "none"]
NoOutcome == [tag |-> "none", code |-> "none"]

Codes == {"insufficient_funds", "card_declined", "expired_card",
          "fraud_suspected", "unknown_decline"}

Outcomes == {Succeeded} \cup {Failed(code) : code \in Codes}

Drops(card) == card = "tok_network_error"

\* What a token means; a slow success is a success that any timeout may beat.
behaviour_for(card) ==
    CASE card = "tok_insufficient_funds" -> Failed("insufficient_funds")
      [] card = "tok_card_declined" -> Failed("card_declined")
      [] OTHER -> Succeeded

TypeOK ==
    /\ attempt \in [References -> [processor : Processors, card : Cards]]
    /\ call \in [Calls -> [ref : References \cup {None},
                           client : {NoOutcome, Unknown} \cup Outcomes,
                           server : {"none", "onWire", "missed", "replying",
                                     "dropping", "done"},
                           held : {NoOutcome} \cup Outcomes]]
    /\ ledger \in [Processors \X References -> {NoOutcome} \cup Outcomes]
    /\ charges \in [References -> Nat]
    /\ restarts \in 0 .. MaxRestarts

Idle == [ref |-> None, client |-> NoOutcome, server |-> "none", held |-> NoOutcome]

Init ==
    /\ attempt \in [References -> [processor : Processors, card : Cards]]
    /\ call = [c \in Calls |-> Idle]
    /\ ledger = [k \in Processors \X References |-> NoOutcome]
    /\ charges = [r \in References |-> 0]
    /\ restarts = 0

-----------------------------------------------------------------------------
(* The wire.  A response is its HTTP status, the word that says how it     *)
(* went, whether it carries the provider's handle, and a decline code.     *)

Response(http, word, handle, code) ==
    [http |-> http, word |-> word, handle |-> handle, code |-> code]

\* Both outcomes are a 200; the result is in the body.
alphapay_payments(o) ==
    Response(200, o.tag, o.tag = "succeeded", o.code)

betapay_reason(code) ==
    IF code = "insufficient_funds" THEN "DECLINED_NSF" ELSE "DECLINED_CARD"

\* The decline is in the status code.
betapay_charges(o) ==
    IF o.tag = "succeeded"
    THEN Response(200, "approved", TRUE, "none")
    ELSE Response(402, "error", FALSE, betapay_reason(o.code))

dropped_connection == Response(200, "unreadable", FALSE, "none")

\* What can become of a response on its way, or at a provider in trouble:
\* nothing, a proxy's 502, a truncated body, a missing field, a new word.
Arriving(resp) ==
    {resp,
     [resp EXCEPT !.http = 502],
     [resp EXCEPT !.word = "unreadable", !.handle = FALSE, !.code = "none"],
     [resp EXCEPT !.handle = FALSE],
     [resp EXCEPT !.code = "none"],
     [resp EXCEPT !.word = "processing"]}

-----------------------------------------------------------------------------
(* The adapters: only an explicit answer is an outcome.                    *)

is_success(resp) == resp.http \in 200 .. 299

\* Mutant of alphapay_charge: a status it does not know is taken for a decline.
alphapay_charge_otherFails(resp) ==
    CASE is_success(resp) /\ resp.word = "succeeded" /\ resp.handle -> Succeeded
      [] is_success(resp) /\ resp.word \notin {"succeeded", "unreadable"} ->
            Failed("unknown_decline")
      [] OTHER -> Unknown

alphapay_charge(resp) ==
    CASE is_success(resp) /\ resp.word = "succeeded" /\ resp.handle -> Succeeded
      [] is_success(resp) /\ resp.word = "failed" ->
            Failed(IF resp.code = "none" THEN "unknown_decline" ELSE resp.code)
      [] OTHER -> Unknown

\* Mutant of normalise_decline: the provider's own word is passed on.
normalise_decline_raw(reason) == reason

\* Mutant of normalise_decline: every reason becomes the generic one.
normalise_decline_generic(reason) == "card_declined"

normalise_decline(reason) ==
    CASE reason = "DECLINED_NSF" -> "insufficient_funds"
      [] reason = "DECLINED_EXPIRED" -> "expired_card"
      [] reason = "DECLINED_FRAUD" -> "fraud_suspected"
      [] OTHER -> "card_declined"

\* A 402 without a readable reason is no decline.
betapay_charge(resp) ==
    CASE resp.http = 402 /\ resp.word # "unreadable" /\ resp.code # "none" ->
            Failed(normalise_decline(resp.code))
      [] is_success(resp) /\ resp.word = "approved" /\ resp.handle -> Succeeded
      [] OTHER -> Unknown

charge(p, resp) ==
    IF p = "alphapay" THEN alphapay_charge(resp) ELSE betapay_charge(resp)

respond(p, o) ==
    IF p = "alphapay" THEN alphapay_payments(o) ELSE betapay_charges(o)

-----------------------------------------------------------------------------
(* A call.  The registry is asked for the processor named on the row.      *)

RefOf(c) == call[c].ref
Waiting(c) == RefOf(c) # None /\ call[c].client = NoOutcome
LedgerKey(c) == <<attempt[RefOf(c)].processor, RefOf(c)>>

Submit(c, r) ==
    /\ call[c] = Idle
    /\ call' = [call EXCEPT ![c] = [@ EXCEPT !.ref = r, !.server = "onWire"]]
    /\ UNCHANGED <<attempt, ledger, charges, restarts>>

\* classify_transport_error: a timeout or a broken connection, whatever the
\* provider is doing with the call.
TransportError(c) ==
    /\ Waiting(c)
    /\ call' = [call EXCEPT ![c].client = Unknown]
    /\ UNCHANGED <<attempt, ledger, charges, restarts>>

Serve(c, server, held) ==
    call' = [call EXCEPT ![c] = [@ EXCEPT !.server = server, !.held = held]]

\* The card that breaks the connection never gets as far as the ledger; else
\* settle() looks the reference up, and lets go of the lock.
Receive(c) ==
    /\ call[c].server = "onWire"
    /\ \/ Drops(attempt[RefOf(c)].card) /\ Serve(c, "dropping", NoOutcome)
       \/ /\ ~Drops(attempt[RefOf(c)].card)
          /\ ledger[LedgerKey(c)] # NoOutcome
          /\ Serve(c, "replying", ledger[LedgerKey(c)])
       \/ /\ ~Drops(attempt[RefOf(c)].card)
          /\ ledger[LedgerKey(c)] = NoOutcome
          /\ Serve(c, "missed", NoOutcome)
    /\ UNCHANGED <<attempt, ledger, charges, restarts>>

\* Mutant of Record: no second look under the lock.
Record_noRecheck(c) ==
    LET o == behaviour_for(attempt[RefOf(c)].card) IN
    /\ call[c].server = "missed"
    /\ ledger' = [ledger EXCEPT ![LedgerKey(c)] = o]
    /\ charges' = [charges EXCEPT ![RefOf(c)] = @ + 1]
    /\ Serve(c, "replying", o)
    /\ UNCHANGED <<attempt, restarts>>

\* Under the lock again: another task may have charged in between.
Record(c) ==
    LET o == behaviour_for(attempt[RefOf(c)].card) IN
    /\ call[c].server = "missed"
    /\ \/ /\ ledger[LedgerKey(c)] # NoOutcome
          /\ Serve(c, "replying", ledger[LedgerKey(c)])
          /\ UNCHANGED <<ledger, charges>>
       \/ /\ ledger[LedgerKey(c)] = NoOutcome
          /\ ledger' = [ledger EXCEPT ![LedgerKey(c)] = o]
          /\ charges' = [charges EXCEPT ![RefOf(c)] = @ + 1]
          /\ Serve(c, "replying", o)
    /\ UNCHANGED <<attempt, restarts>>

\* The answer, after the latency; nobody reads it if the caller has given up.
Reply(c) ==
    LET p == attempt[RefOf(c)].processor
        sent == IF call[c].server = "dropping" THEN dropped_connection
                ELSE respond(p, call[c].held)
    IN
    /\ call[c].server \in {"replying", "dropping"}
    /\ \E resp \in Arriving(sent) :
          call' = [call EXCEPT ![c] =
                      [@ EXCEPT !.server = "done",
                                !.client = IF Waiting(c) THEN charge(p, resp)
                                           ELSE call[c].client]]
    /\ UNCHANGED <<attempt, ledger, charges, restarts>>

Forget == ledger' = [k \in Processors \X References |-> NoOutcome]

\* The ledger is a map in memory: a restart loses it and the tasks in flight.
Restart ==
    /\ restarts < MaxRestarts
    /\ restarts' = restarts + 1
    /\ Forget
    /\ call' = [c \in Calls |->
                   IF call[c].server = "none" THEN call[c]
                   ELSE [call[c] EXCEPT !.server = "done"]]
    /\ UNCHANGED <<attempt, charges>>

\* The tests' reset clears the ledger under tasks that go on.
admin_reset ==
    /\ restarts < MaxRestarts
    /\ restarts' = restarts + 1
    /\ Forget
    /\ UNCHANGED <<attempt, call, charges>>

Next ==
    \/ \E c \in Calls :
          \/ \E r \in References : Submit(c, r)
          \/ TransportError(c) \/ Receive(c) \/ Record(c) \/ Reply(c)
    \/ Restart
    \/ admin_reset

Spec == Init /\ [][Next]_vars

-----------------------------------------------------------------------------
(* Properties *)

\* However many calls for a reference are in flight, and however they overlap
\* inside settle(), the customer pays once for each ledger the reference has
\* met: only a provider that forgets can charge again, and only the provider
\* named on the row is ever asked. (settle() in mock-psp, Registry::get)
OnlyForgettingRecharges ==
    \A r \in References :
        /\ charges[r] <= 1 + restarts
        /\ \A p \in Processors :
              ledger[<<p, r>>] # NoOutcome => p = attempt[r].processor

Verdict(c) == call[c].client

\* A decline keeps its code from the provider's ledger to the caller, whatever
\* the provider calls it on the wire; it is lost only with the field itself.
\* (betapay_reason, normalise_decline, unknown_decline)
DeclinesKeepTheirCode ==
    \A c \in Calls : Verdict(c).tag = "failed" =>
        Verdict(c).code \in {"unknown_decline", behaviour_for(attempt[RefOf(c)].card).code}

-----------------------------------------------------------------------------
(* The inductive invariant behind them.                                    *)

\* A reference is recorded for its row's processor only, as its card says, and
\* can be recorded anew only after the provider has forgotten it.
LedgerIsTrue(r) ==
    LET p == attempt[r].processor IN
    /\ \A q \in Processors : ledger[<<q, r>>] # NoOutcome => q = p
    /\ ledger[<<p, r>>] # NoOutcome =>
          ledger[<<p, r>>] = behaviour_for(attempt[r].card) /\ charges[r] > 0
    /\ charges[r] <= IF ledger[<<p, r>>] = NoOutcome THEN restarts ELSE 1 + restarts

\* What a call holds or has answered was recorded for its reference, even if
\* the provider has forgotten it since.
CallIsTrue(c) ==
    LET fate == behaviour_for(attempt[call[c].ref].card) IN
    /\ call[c].ref = None => call[c] = Idle
    /\ call[c].server = "replying" => call[c].held = fate /\ charges[call[c].ref] > 0
    /\ call[c].client \in Outcomes =>
          /\ charges[call[c].ref] > 0
          /\ call[c].client.tag = fate.tag
          /\ fate.tag = "failed" => call[c].client.code \in {"unknown_decline", fate.code}

ProvidersInv ==
    /\ \A r \in References : LedgerIsTrue(r)
    /\ \A c \in Calls : CallIsTrue(c)

-----------------------------------------------------------------------------
(* The contract of charge().                                               *)

\* What was made of a reference when it was first recorded.
Fate(r) == IF charges[r] = 0 THEN "none" ELSE behaviour_for(attempt[r].card).tag

Contract == INSTANCE ProviderContract
    WITH fate <- [r \in References |-> Fate(r)],
         verdict <- [c \in Calls |->
                        IF Verdict(c) = NoOutcome THEN None
                        ELSE [ref |-> RefOf(c), outcome |-> Verdict(c).tag]]

\* The contract holds through two wire formats, lost fields, proxies' errors,
\* replays, overlapping calls and restarts: charge() returns an outcome only if
\* it is what happened to the money, every caller that learns it learns the
\* same, and anything else is "unknown". (the adapters, settle() in mock-psp)
ImplementsContract == Contract!Spec
=============================================================================
