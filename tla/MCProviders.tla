---------------------------- MODULE MCProviders ----------------------------
(* Providers on a small instance.                                          *)
EXTENDS Providers, TLC

\* References and calls are only compared for equality.
MCSymmetry == Permutations(References) \cup Permutations(Calls)
=============================================================================
