----------------------------- MODULE OutboxRow -----------------------------
(***************************************************************************)
(* What the service promises of one row of webhook_deliveries: an event is *)
(* tried at most MaxAttempts times, and the row ends as delivered or, when *)
(* every attempt has been used, as exhausted.  Outbox implements it once   *)
(* for each row.                                                           *)
(***************************************************************************)
EXTENDS Integers

CONSTANT MaxAttempts

VARIABLES state, attempts

vars == <<state, attempts>>

Init == state = "absent" /\ attempts = 0

Queue == state = "absent" /\ state' = "queued" /\ UNCHANGED attempts

Attempt ==
    /\ state = "queued"
    /\ attempts < MaxAttempts
    /\ attempts' = attempts + 1
    /\ UNCHANGED state

Deliver == state = "queued" /\ attempts > 0 /\ state' = "delivered" /\ UNCHANGED attempts

Exhaust ==
    state = "queued" /\ attempts = MaxAttempts /\ state' = "exhausted" /\ UNCHANGED attempts

Next == Queue \/ Attempt \/ Deliver \/ Exhaust

Spec == Init /\ [][Next]_vars

=============================================================================
