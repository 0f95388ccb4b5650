--------------------------- MODULE MCPipelineLock ---------------------------
(* TLC instances of PipelineLock.                                          *)
EXTENDS PipelineLock, TLC

MainOnly == {"main"}
BothKinds == {"main", "side"}

LockSymmetry == Permutations(Tokens) \cup Permutations(Hosts)
=============================================================================
