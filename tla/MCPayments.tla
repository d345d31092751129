---------------------------- MODULE MCPayments ----------------------------
(* Payments on small instances: totals, symmetry, and the initial states   *)
(* of the runs that fix part of what the clients send.                     *)
EXTENDS PaymentsLifecycle, TLC

\* Two different totals when there are two invoices.
MCTotal == [i \in Invoices |-> IF i = CHOOSE j \in Invoices : TRUE THEN 2 ELSE 3]

\* Requests and keys are only compared for equality.
MCSymmetry == Permutations(Requests) \cup Permutations(Keys)

\* Every request has a key of its own and names its processor: what is left
\* to vary is the invoice and the processor.
KeysDiffer == \A r1, r2 \in Requests : KeyOf(r1) = KeyOf(r2) => r1 = r2
NamedInit == Init /\ KeysDiffer /\ \A r \in Requests : req[r].processor # None
NamedSpec == NamedInit /\ [][Next]_vars

\* Every request pays an invoice of its own, so that attempts compete for the
\* reconciler's batches and not for the invoice; the other assignments of keys
\* and invoices to requests are the same up to renaming.
Apart(f) == \A r1, r2 \in Requests : r1 # r2 =>
                f[r1].key # f[r2].key /\ f[r1].invoice # f[r2].invoice
ApartInit == Init /\ req = CHOOSE f \in [Requests -> Params] : Apart(f)
ApartSpec == ApartInit /\ [][Next]_vars /\ Fairness
=============================================================================
