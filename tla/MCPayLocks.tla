---------------------------- MODULE MCPayLocks ----------------------------
(* PayLocks on a small instance.                                           *)
EXTENDS PayLocks, TLC

MCTotal == [i \in Invoices |-> 2]

\* Requests and keys are only compared for equality.
MCSymmetry == Permutations(Requests) \cup Permutations(Keys)

\* The clients leave the processor out.
MCInit == LocksInit /\ \A r \in Requests : req[r].processor = None
MCSpec == MCInit /\ [][LocksNext]_locksVars
=============================================================================
