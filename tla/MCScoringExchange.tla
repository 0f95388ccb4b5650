-------------------------- MODULE MCScoringExchange --------------------------
EXTENDS ScoringExchange, TLC

\* Two files of one run that agree on the first child.
Files == {<<"good", "weak">>, <<"good", "failed">>}
Symmetric == Permutations(Session) \cup Permutations(Exporter) \cup Permutations(RunId) \cup Permutations(Text)
=============================================================================
