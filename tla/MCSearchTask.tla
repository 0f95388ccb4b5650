---------------------------- MODULE MCSearchTask ----------------------------
(* Instances of SearchTask for TLC: turns are interchangeable.              *)
EXTENDS SearchTask, TLC

Symmetric == Permutations(Turns)
=============================================================================
