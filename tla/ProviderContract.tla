-------------------------- MODULE ProviderContract --------------------------
(***************************************************************************)
(* What the payment flow relies on when it calls a provider, whichever it  *)
(* is: the contract of trait PaymentProcessor (crates/api/src/psp/mod.rs). *)
(* A reference gets its fate once; a call returns that fate or "unknown".  *)
(* Payments assumes exactly this of PspProcess and Outcomes; Providers     *)
(* implements it.                                                          *)
(***************************************************************************)
CONSTANTS References, Calls, None

VARIABLES
    fate,       \* what the provider made of each reference
    verdict     \* what charge() returned to each call

vars == <<fate, verdict>>

Init ==
    /\ fate = [r \in References |-> "none"]
    /\ verdict = [c \in Calls |-> None]

\* The money is taken or refused, once and for all.
Decide(r) ==
    /\ fate[r] = "none"
    /\ \E f \in {"succeeded", "failed"} : fate' = [fate EXCEPT ![r] = f]
    /\ UNCHANGED verdict

\* Ok(outcome) is the fate of the reference; Err(_) says nothing about it.
Return(c, r) ==
    /\ verdict[c] = None
    /\ \E v \in {"unknown"} \cup ({fate[r]} \ {"none"}) :
          verdict' = [verdict EXCEPT ![c] = [ref |-> r, outcome |-> v]]
    /\ UNCHANGED fate

Next == \E r \in References : Decide(r) \/ \E c \in Calls : Return(c, r)

Spec == Init /\ [][Next]_vars
=============================================================================
