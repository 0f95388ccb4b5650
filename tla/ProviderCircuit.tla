--------------------------- MODULE ProviderCircuit ---------------------------
(* The failure circuit of one provider: the columns state, openUntil,       *)
(* consecutiveFailures and lastFailureAt of its ProviderCircuit row, and    *)
(* what recordProviderFailure and recordProviderSuccess make of them        *)
(* (ingestionControl.ts).  Every writer passes the time at which it saw the *)
(* provider's answer; its transaction may commit later, and after that of a *)
(* writer that saw a later answer.                                          *)
(*                                                                          *)
(* Times are positive; 0 stands for a null column.                          *)
EXTENDS Integers

CONSTANT Cooldown        \* the first cooldown (15 minutes)

ASSUME CircuitAssumption == Cooldown \in Nat \ {0}

Lesser(a, b) == IF a < b THEN a ELSE b
Greater(a, b) == IF a > b THEN a ELSE b

\* More failures in a row change nothing: the soft back-off has reached its
\* cap of eight cooldowns (two hours).
MaxFailures == 6

Backoff(doublings) == Cooldown * <<1, 2, 4, 8>>[Lesser(doublings, 3) + 1]

Circuits == [open : BOOLEAN, until : Nat, failures : 0 .. MaxFailures, lastFailure : Nat]

ClosedCircuit == [open |-> FALSE, until |-> 0, failures |-> 0, lastFailure |-> 0]

IsOpen(circuit, at) == circuit.open /\ circuit.until > at

\* providerFailurePolicy: a rate limit opens the circuit at once, anything
\* softer at the third failure in a row.
Policy(limited, failures, at) ==
  IF limited THEN [open |-> TRUE, until |-> at + Backoff(failures - 1)]
  ELSE IF failures < 3 THEN [open |-> FALSE, until |-> 0]
  ELSE [open |-> TRUE, until |-> at + Backoff(failures - 3)]

\* A Retry-After replaces the length the policy proposes.
Proposal(circuit, limited, at, retryAfter) ==
  LET policy == Policy(limited, circuit.failures + 1, at) IN
  IF retryAfter = 0 THEN policy ELSE [policy EXCEPT !.until = at + retryAfter]

\* mergeProviderFailureCircuitProtection: neither close nor shorten protection
\* that is still active.
Merged(circuit, proposal, at) ==
  IF IsOpen(circuit, at)
  THEN [open |-> TRUE, until |-> Greater(circuit.until, proposal.until)]
  ELSE proposal

\* recordProviderFailure: a failure seen before the last recorded one is dropped.
FailureApplies(circuit, at) == circuit.lastFailure <= at

Failed(circuit, limited, at, retryAfter) ==
  LET protection == Merged(circuit, Proposal(circuit, limited, at, retryAfter), at) IN
  [open |-> protection.open, until |-> protection.until,
   failures |-> Lesser(circuit.failures + 1, MaxFailures), lastFailure |-> at]

SuccessApplies_AnyProvider(circuit, at) == circuit.lastFailure < at   \* mutant

\* recordProviderSuccess for an ATS provider: a success seen before the last
\* failure, or during a cooldown, closes nothing.
SuccessApplies(circuit, at) == circuit.lastFailure < at /\ ~IsOpen(circuit, at)

Succeeded(circuit, at) ==
  IF SuccessApplies(circuit, at)
  THEN [open |-> FALSE, until |-> 0, failures |-> 0, lastFailure |-> circuit.lastFailure]
  ELSE circuit
=============================================================================
