---------------------------- MODULE MCCardQueue ----------------------------
EXTENDS CardQueue
CONSTANTS c1, c2

\* One card before triage, whose source is not structured, one before recovery.
Mixed ==
  /\ scoring = [c \in Card |-> IF c = c1 THEN "queued" ELSE "needs_jd"]
  /\ text = [c \in Card |-> IF c = c1 THEN "poor" ELSE "terse"]

MCInit == Mixed /\ Init

MCSpec == MCInit /\ [][Next]_vars /\ Fairness
=============================================================================
