------------------------------ MODULE MCOutbox ------------------------------
(* Outbox on small instances.                                              *)
EXTENDS Outbox, TLC

\* All of these are only compared for equality.
MCSymmetry ==
    Permutations(Events) \cup Permutations(Endpoints) \cup Permutations(Dispatchers)

=============================================================================
