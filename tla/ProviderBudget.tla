---------------------------- MODULE ProviderBudget ----------------------------
(* The request budget of a paid provider: when the ProviderCircuit row lets *)
(* a request through, until when it refuses, and what a reservation leaves  *)
(* on it (ingestionControl.ts).  Times are whole hours.                     *)
EXTENDS Integers

CONSTANTS
  Hours,        \* hours of a day
  Days,         \* days of a month
  DayLimit,     \* requests of a day
  MonthLimit    \* requests of a month

ASSUME BudgetAssumption ==
  /\ Hours \in Nat \ {0} /\ Days \in Nat \ {0}
  /\ DayLimit \in Nat \ {0} /\ MonthLimit \in Nat

Higher(a, b) == IF a > b THEN a ELSE b

\* utcBudgetKeys.
DayOf(at) == at \div Hours
HourOf(at) == at % Hours
MonthOf(at) == DayOf(at) \div Days

\* The row: when its circuit closes again, and what was used of which day and
\* month.
Providers == [open : Nat, day : Nat, month : Nat, dayUsed : Nat, monthUsed : Nat]

DayUsed(row, at) == IF row.day = DayOf(at) THEN row.dayUsed ELSE 0
MonthUsed(row, at) == IF row.month = MonthOf(at) THEN row.monthUsed ELSE 0

\* What a day has released by its hour: an equal portion every hour.
Release(hour) == (DayLimit * (hour + 1)) \div Hours

NextHour_Late(used) == ((used + 1) * Hours + DayLimit - 1) \div DayLimit   \* mutant

\* The hour that releases one more than was used: a division rounded up.
NextHour(used) == ((used + 1) * Hours + DayLimit - 1) \div DayLimit - 1

DaySpent(row, at) == DayUsed(row, at) >= DayLimit
MonthSpent(row, at) == MonthUsed(row, at) >= MonthLimit
PaceSpent(row, at) == DayUsed(row, at) >= Release(HourOf(at))

Refused(row, at) == row.open > at \/ DaySpent(row, at) \/ MonthSpent(row, at) \/ PaceSpent(row, at)

\* The latest of the constraints that refuse now.
RetryAt(row, at) ==
  LET day == IF DaySpent(row, at) THEN (DayOf(at) + 1) * Hours
             ELSE IF PaceSpent(row, at) THEN DayOf(at) * Hours + NextHour(DayUsed(row, at))
             ELSE at
      month == IF MonthSpent(row, at) THEN (MonthOf(at) + 1) * Days * Hours ELSE at
  IN  Higher(row.open, Higher(day, month))

\* Whoever asks first brings the row to the day and month of its clock, also if
\* the answer is no.
Rolled(row, at) ==
  [row EXCEPT !.day = DayOf(at), !.month = MonthOf(at),
              !.dayUsed = DayUsed(row, at), !.monthUsed = MonthUsed(row, at)]

Charged_Fresh(row, at) ==   \* mutant
  IF row.day # DayOf(at) THEN Rolled(row, at)
  ELSE [Rolled(row, at) EXCEPT !.dayUsed = @ + 1, !.monthUsed = @ + 1]

\* A request that is let through is charged.
Charged(row, at) ==
  [Rolled(row, at) EXCEPT !.dayUsed = DayUsed(row, at) + 1, !.monthUsed = MonthUsed(row, at) + 1]
=============================================================================
