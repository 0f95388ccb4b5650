----------------------------- MODULE MCAtsLedger -----------------------------
(* Instances of AtsLedger for TLC: claims and segment leases are            *)
(* interchangeable.                                                         *)
EXTENDS AtsLedger, TLC

Symmetric == Permutations(Claims) \cup Permutations(Procs)
=============================================================================
