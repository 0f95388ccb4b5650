----------------------------- MODULE BoardCycle -----------------------------
(***************************************************************************)
(* What the ATS ledger promises about one cycle of a board, without claims,*)
(* leases, pages or segments: every posting of the catalogue is listed     *)
(* once, every listed posting is compacted or becomes an item once, every  *)
(* item is accounted for only after its posting has been handled or has    *)
(* failed, and the cycle closes only when nothing is left, as "failed" if  *)
(* and only if some item failed.                                           *)
(***************************************************************************)
EXTENDS Integers, FiniteSets

VARIABLES
  total,      \* postings in the catalogue
  listed,     \* postings observed so far
  kept,       \* items made of them; an item is its ordinal 0 .. kept - 1
  dropped,    \* postings compacted away
  handled,    \* items whose posting has reached the Job tables
  accounted,  \* items a processing cursor has passed
  failures,   \* of those, how many ended in an error
  outcome     \* "open", "processed" or "failed"

cycle == <<total, listed, kept, dropped, handled, accounted, failures, outcome>>

Items == 0 .. kept - 1

CycleInit ==
  /\ total \in Nat
  /\ listed = 0 /\ kept = 0 /\ dropped = 0 /\ failures = 0
  /\ handled = {} /\ accounted = {} /\ outcome = "open"

List ==
  /\ outcome = "open" /\ listed < total
  /\ listed' \in listed + 1 .. total
  /\ UNCHANGED <<total, kept, dropped, handled, accounted, failures, outcome>>

Decide ==
  /\ outcome = "open" /\ kept + dropped < listed
  /\ kept' \in kept .. listed /\ dropped' \in dropped .. listed
  /\ kept + dropped < kept' + dropped' /\ kept' + dropped' <= listed
  /\ UNCHANGED <<total, listed, handled, accounted, failures, outcome>>

Handle(o) ==
  /\ o \notin handled
  /\ handled' = handled \cup {o}
  /\ UNCHANGED <<total, listed, kept, dropped, accounted, failures, outcome>>

Closing(set, failed) ==
  /\ listed = total /\ kept + dropped = listed /\ set = Items
  /\ outcome' = IF failed > 0 THEN "failed" ELSE "processed"

\* A cursor passes the items of `set`, `failed` of them in error; the same
\* step may close the cycle.
Account(set, failed) ==
  /\ outcome = "open" /\ set # {}
  /\ Cardinality(set \ handled) <= failed /\ failed <= Cardinality(set)
  /\ accounted' = accounted \cup set
  /\ failures' = failures + failed
  /\ Closing(accounted', failures') \/ UNCHANGED outcome
  /\ UNCHANGED <<total, listed, kept, dropped, handled>>

Close ==
  /\ outcome = "open"
  /\ Closing(accounted, failures)
  /\ UNCHANGED <<total, listed, kept, dropped, handled, accounted, failures>>

CycleNext ==
  \/ List
  \/ Decide
  \/ \E o \in Items : Handle(o)
  \/ \E set \in SUBSET (Items \ accounted) : \E failed \in 0 .. Cardinality(set) :
       Account(set, failed)
  \/ Close

CycleSpec == CycleInit /\ [][CycleNext]_cycle
=============================================================================
