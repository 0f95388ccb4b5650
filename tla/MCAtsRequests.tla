---------------------------- MODULE MCAtsRequests ----------------------------
(* Instances of AtsRequests for TLC: calls and processes are                *)
(* interchangeable.                                                         *)
EXTENDS AtsRequests, TLC

Symmetric == Permutations(Requests) \cup Permutations(Procs)
=============================================================================
