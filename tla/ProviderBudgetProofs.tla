------------------------- MODULE ProviderBudgetProofs -------------------------
(* Theorems about the budget policy, for any calendar and any limits.       *)
EXTENDS ProviderBudget, TLAPS

(* Division.                                                                *)

LEMMA DivMod ==
  ASSUME NEW a \in Nat, NEW b \in Nat \ {0}
  PROVE  /\ a \div b \in Nat /\ a % b \in Nat /\ a % b < b
         /\ a = b * (a \div b) + (a % b)
OBVIOUS

LEMMA TimesMonotone ==
  ASSUME NEW a \in Nat, NEW b \in Int, NEW c \in Int, b <= c
  PROVE  a * b <= a * c
OBVIOUS

\* A number is below the next multiple of its divisor.
LEMMA NextMultiple ==
  ASSUME NEW a \in Nat, NEW b \in Nat \ {0}, NEW u \in Nat, u >= a \div b
  PROVE  (u + 1) * b > a
<1> DEFINE q == a \div b
<1>1. q \in Nat /\ a % b < b /\ a = b * q + (a % b)
  BY DivMod
<1>2. b * (q + 1) <= b * (u + 1)
  BY <1>1, TimesMonotone
<1>3. b * (q + 1) = b * q + b /\ b * (u + 1) = (u + 1) * b
  BY <1>1
<1> QED
  BY <1>1, <1>2, <1>3

\* A quotient is known by the multiples around the number.
LEMMA QuotientBelow ==
  ASSUME NEW a \in Nat, NEW b \in Nat \ {0}, NEW u \in Nat, a < (u + 1) * b
  PROVE  a \div b <= u
<1> DEFINE q == a \div b
<1>1. q \in Nat /\ a % b \in Nat /\ a = b * q + (a % b)
  BY DivMod
<1> HIDE DEF q
<1>2. SUFFICES ASSUME q >= u + 1 PROVE FALSE
  BY <1>1 DEF q
<1>3. b * (u + 1) <= b * q
  BY <1>1, <1>2, TimesMonotone
<1>4. b * (u + 1) = (u + 1) * b
  OBVIOUS
<1> QED
  BY <1>1, <1>3, <1>4

LEMMA QuotientMonotone ==
  ASSUME NEW a \in Nat, NEW c \in Nat, NEW b \in Nat \ {0}, a <= c
  PROVE  a \div b <= c \div b
<1>1. c \div b \in Nat /\ a \div b \in Nat
  BY DivMod
<1>2. c < (c \div b + 1) * b
  BY <1>1, NextMultiple
<1> DEFINE u == c \div b
<1> HIDE DEF u
<1>3. a < (u + 1) * b /\ u \in Nat
  BY <1>1, <1>2 DEF u
<1> QED
  BY <1>3, QuotientBelow DEF u

\* A quotient that is rounded up.
LEMMA RoundUpAbove ==
  ASSUME NEW b \in Nat \ {0}, NEW x \in Nat, NEW h \in Nat, x > b * h
  PROVE  (x + b - 1) \div b \in Nat /\ (x + b - 1) \div b > h
<1> DEFINE q == (x + b - 1) \div b
<1>1. x + b - 1 \in Nat
  OBVIOUS
<1>2. q \in Nat /\ (x + b - 1) % b < b /\ x + b - 1 = b * q + ((x + b - 1) % b)
  BY <1>1, DivMod
<1> HIDE DEF q
<1>3. SUFFICES ASSUME q <= h PROVE FALSE
  BY <1>2 DEF q
<1>4. b * q <= b * h
  BY <1>2, <1>3, TimesMonotone
<1> QED
  BY <1>2, <1>4

LEMMA RoundUpLeast ==
  ASSUME NEW b \in Nat \ {0}, NEW x \in Nat, NEW h \in Nat, h < (x + b - 1) \div b
  PROVE  b * h < x
<1> DEFINE q == (x + b - 1) \div b
<1>1. x + b - 1 \in Nat
  OBVIOUS
<1>2. q \in Nat /\ (x + b - 1) % b \in Nat /\ x + b - 1 = b * q + ((x + b - 1) % b)
  BY <1>1, DivMod
<1>3. h < q
  OBVIOUS
<1> HIDE DEF q
<1>4. b * (h + 1) <= b * q
  BY <1>2, <1>3, TimesMonotone
<1>5. b * (h + 1) = b * h + b
  OBVIOUS
<1> QED
  BY <1>2, <1>4, <1>5
----------------------------------------------------------------------------
(* The calendar and the release.                                            *)

LEMMA Calendar ==
  ASSUME NEW at \in Nat
  PROVE  /\ DayOf(at) \in Nat /\ HourOf(at) \in 0 .. Hours - 1 /\ MonthOf(at) \in Nat
         /\ at = DayOf(at) * Hours + HourOf(at) /\ DayOf(at) * Hours \in Nat
         /\ (DayOf(at) + 1) * Hours = DayOf(at) * Hours + Hours
<1>1. DayOf(at) \in Nat /\ HourOf(at) \in Nat /\ HourOf(at) < Hours /\ at = Hours * DayOf(at) + HourOf(at)
  BY DivMod, BudgetAssumption DEF DayOf, HourOf
<1>2. /\ Hours * DayOf(at) = DayOf(at) * Hours /\ DayOf(at) * Hours \in Nat
      /\ (DayOf(at) + 1) * Hours = DayOf(at) * Hours + Hours
  BY <1>1, BudgetAssumption
<1>3. MonthOf(at) \in Nat
  BY <1>1, DivMod, BudgetAssumption DEF MonthOf
<1> QED
  BY <1>1, <1>2, <1>3, BudgetAssumption

\* An hour of the same day is told by its place in the day.
LEMMA SameDay ==
  ASSUME NEW at \in Nat, NEW x \in Nat, DayOf(at) * Hours <= x, x < (DayOf(at) + 1) * Hours
  PROVE  DayOf(x) = DayOf(at)
<1>1. DayOf(at) \in Nat /\ DayOf(x) \in Nat /\ x = DayOf(x) * Hours + HourOf(x) /\ HourOf(x) \in 0 .. Hours - 1
  BY Calendar
<1>2. DayOf(x) <= DayOf(at)
  <2> DEFINE d == DayOf(at)
  <2>1. d \in Nat /\ x < (d + 1) * Hours
    BY <1>1
  <2> HIDE DEF d
  <2>2. x \div Hours <= d
    BY <2>1, QuotientBelow, BudgetAssumption
  <2> QED
    BY <2>2 DEF DayOf, d
<1>3. DayOf(at) <= DayOf(x)
  <2>1. SUFFICES ASSUME DayOf(x) + 1 <= DayOf(at) PROVE FALSE
    BY <1>1
  <2>2. Hours * (DayOf(x) + 1) <= Hours * DayOf(at)
    BY <1>1, <2>1, TimesMonotone, BudgetAssumption
  <2>3. /\ Hours * (DayOf(x) + 1) = DayOf(x) * Hours + Hours
        /\ Hours * DayOf(at) = DayOf(at) * Hours
        /\ DayOf(x) * Hours \in Nat
    BY <1>1, BudgetAssumption
  <2> QED
    BY <1>1, <2>2, <2>3, BudgetAssumption
<1> QED
  BY <1>1, <1>2, <1>3

LEMMA DaysPass ==
  ASSUME NEW at \in Nat, NEW x \in Nat, at <= x
  PROVE  DayOf(at) <= DayOf(x) /\ MonthOf(at) <= MonthOf(x)
<1>1. DayOf(at) <= DayOf(x)
  BY QuotientMonotone, BudgetAssumption DEF DayOf
<1>2. DayOf(at) \in Nat /\ DayOf(x) \in Nat
  BY Calendar
<1> QED
  BY <1>1, <1>2, QuotientMonotone, BudgetAssumption DEF MonthOf

\* The release of an hour is a number that grows to the day's limit.
LEMMA ReleaseGrows ==
  ASSUME NEW g \in Nat, NEW h \in Nat, g <= h
  PROVE  Release(g) \in Nat /\ Release(h) \in Nat /\ Release(g) <= Release(h)
<1>1. DayLimit * (g + 1) \in Nat /\ DayLimit * (h + 1) \in Nat
  BY BudgetAssumption
<1>2. DayLimit * (g + 1) <= DayLimit * (h + 1)
  BY TimesMonotone, BudgetAssumption
<1> QED
  BY <1>1, <1>2, QuotientMonotone, DivMod, BudgetAssumption DEF Release

LEMMA ReleaseWithinDay ==
  ASSUME NEW h \in 0 .. Hours - 1
  PROVE  Release(h) <= DayLimit
<1>1. DayLimit * (h + 1) <= DayLimit * Hours
  BY TimesMonotone, BudgetAssumption
<1>2. DayLimit * (h + 1) \in Nat /\ (DayLimit + 1) * Hours = DayLimit * Hours + Hours
      /\ DayLimit * Hours \in Nat
  BY BudgetAssumption
<1>3. DayLimit * (h + 1) < (DayLimit + 1) * Hours
  BY <1>1, <1>2, BudgetAssumption
<1> QED
  BY <1>2, <1>3, QuotientBelow, BudgetAssumption DEF Release
----------------------------------------------------------------------------
(* The hour a paced request waits for.                                      *)

LEMMA NextHourLater ==
  ASSUME NEW used \in Nat, NEW hour \in Nat, used >= Release(hour)
  PROVE  NextHour(used) \in Nat /\ NextHour(used) > hour
<1> DEFINE x == (used + 1) * Hours
<1>1. x > DayLimit * (hour + 1) /\ x \in Nat
  BY NextMultiple, BudgetAssumption DEF Release
<1> HIDE DEF x
<1>2. (x + DayLimit - 1) \div DayLimit > hour + 1 /\ (x + DayLimit - 1) \div DayLimit \in Nat
  BY <1>1, RoundUpAbove, BudgetAssumption
<1> QED
  BY <1>2 DEF NextHour, x

\* Before that hour no more is released than was used.
LEMMA NextHourFirst ==
  ASSUME NEW used \in Nat, NEW hour \in Nat, hour < NextHour(used)
  PROVE  used >= Release(hour)
<1> DEFINE x == (used + 1) * Hours
<1>1. x \in Nat
  BY BudgetAssumption
<1>2. (x + DayLimit - 1) \div DayLimit \in Nat /\ hour + 1 < (x + DayLimit - 1) \div DayLimit
  BY <1>1, DivMod, BudgetAssumption DEF NextHour
<1> HIDE DEF x
<1>3. DayLimit * (hour + 1) < x
  BY <1>1, <1>2, RoundUpLeast, BudgetAssumption
<1>4. DayLimit * (hour + 1) \in Nat
  BY BudgetAssumption
<1> QED
  BY <1>3, <1>4, QuotientBelow, BudgetAssumption DEF Release, x

\* It is an hour of the same day as long as the day is not used up.
LEMMA NextHourToday ==
  ASSUME NEW used \in Nat, used < DayLimit
  PROVE  NextHour(used) <= Hours - 1
<1>1. SUFFICES ASSUME Hours - 1 < NextHour(used) PROVE FALSE
  <2>1. (used + 1) * Hours + DayLimit - 1 \in Nat
    BY BudgetAssumption
  <2>2. NextHour(used) \in Int
    BY <2>1, DivMod, BudgetAssumption DEF NextHour
  <2> QED
    BY <2>2, BudgetAssumption
<1>2. Hours - 1 \in Nat
  BY BudgetAssumption
<1>3. used >= Release(Hours - 1)
  BY <1>1, <1>2, NextHourFirst
<1>4. Release(Hours - 1) >= DayLimit
  <2>1. Release(Hours - 1) = (DayLimit * Hours) \div Hours
    BY BudgetAssumption DEF Release
  <2> DEFINE r == (DayLimit * Hours) \div Hours
  <2>2. DayLimit * Hours \in Nat
    BY BudgetAssumption
  <2>3. r \in Nat
    BY <2>2, DivMod, BudgetAssumption
  <2> HIDE DEF r
  <2>4. DayLimit * Hours < (r + 1) * Hours
    BY <2>2, <2>3, NextMultiple, BudgetAssumption DEF r
  <2>5. SUFFICES ASSUME r + 1 <= DayLimit PROVE FALSE
    BY <2>1, <2>3, BudgetAssumption DEF r
  <2>6. Hours * (r + 1) <= Hours * DayLimit
    BY <2>3, <2>5, TimesMonotone, BudgetAssumption
  <2>7. Hours * (r + 1) = (r + 1) * Hours /\ Hours * DayLimit = DayLimit * Hours
    BY <2>3, BudgetAssumption
  <2> QED
    BY <2>2, <2>3, <2>4, <2>6, <2>7, BudgetAssumption
<1> QED
  BY <1>3, <1>4, ReleaseGrows, <1>2, BudgetAssumption
----------------------------------------------------------------------------
(* The whole policy.                                                        *)

\* The row's counts stay within what any decision reads.
LEMMA UsedType ==
  ASSUME NEW row \in Providers, NEW at
  PROVE  DayUsed(row, at) \in Nat /\ MonthUsed(row, at) \in Nat /\ row.open \in Nat
BY DEF Providers, DayUsed, MonthUsed

\* What a reservation leaves on the row.
LEMMA ChargedRow ==
  ASSUME NEW row \in Providers, NEW at \in Nat
  PROVE  /\ Rolled(row, at) \in Providers /\ Charged(row, at) \in Providers
         /\ Rolled(row, at).day = DayOf(at) /\ Charged(row, at).day = DayOf(at)
         /\ Rolled(row, at).dayUsed = DayUsed(row, at)
         /\ Charged(row, at).dayUsed = DayUsed(row, at) + 1
<1>1. /\ DayOf(at) \in Nat /\ MonthOf(at) \in Nat
      /\ DayUsed(row, at) \in Nat /\ MonthUsed(row, at) \in Nat /\ row.open \in Nat
  BY Calendar, UsedType
<1>2. /\ Rolled(row, at) \in Providers /\ Rolled(row, at).day = DayOf(at)
      /\ Rolled(row, at).dayUsed = DayUsed(row, at)
  BY <1>1 DEF Rolled, Providers
<1> DEFINE r == Rolled(row, at)
           d == DayUsed(row, at) + 1
           m == MonthUsed(row, at) + 1
<1>3. Charged(row, at) = [r EXCEPT !.dayUsed = d, !.monthUsed = m] /\ d \in Nat /\ m \in Nat
  BY <1>1 DEF Charged
<1> HIDE DEF r, d, m
<1>4. r \in Providers /\ r.day = DayOf(at)
  BY <1>2 DEF r
<1>5. /\ Charged(row, at) \in Providers /\ Charged(row, at).day = r.day
      /\ Charged(row, at).dayUsed = d
  BY <1>3, <1>4 DEF Providers
<1> QED
  BY <1>2, <1>4, <1>5 DEF d

\* The first hour of the next month.
LEMMA MonthEnd ==
  ASSUME NEW at \in Nat, NEW x \in Nat, at <= x
  PROVE  /\ (MonthOf(at) + 1) * Days * Hours \in Nat
         /\ at < (MonthOf(at) + 1) * Days * Hours
         /\ x < (MonthOf(at) + 1) * Days * Hours => MonthOf(x) = MonthOf(at)
<1> DEFINE m == MonthOf(at)
           n == (m + 1) * Days
<1>1. m \in Nat /\ DayOf(at) \in Nat /\ DayOf(x) \in Nat
  BY Calendar
<1>2. n \in Nat /\ DayOf(at) < n
  <2>1. (MonthOf(at) + 1) * Days > DayOf(at)
    BY <1>1, NextMultiple, BudgetAssumption DEF MonthOf
  <2> QED
    BY <1>1, <2>1, BudgetAssumption
<1>3. n * Hours \in Nat /\ (DayOf(at) + 1) * Hours > at
  BY <1>1, <1>2, NextMultiple, BudgetAssumption DEF DayOf
<1>4. (DayOf(at) + 1) * Hours <= n * Hours
  <2> HIDE DEF n
  <2>1. Hours * (DayOf(at) + 1) <= Hours * n
    BY <1>1, <1>2, TimesMonotone, BudgetAssumption
  <2> QED
    BY <1>1, <1>2, <2>1, BudgetAssumption
<1>5. ASSUME x < n * Hours PROVE MonthOf(x) = m
  <2>1. DayOf(x) < n
    <3> HIDE DEF n
    <3>1. n - 1 \in Nat /\ x < ((n - 1) + 1) * Hours
      BY <1>1, <1>2, <1>5
    <3>2. x \div Hours <= n - 1
      BY <3>1, QuotientBelow, BudgetAssumption
    <3> QED
      BY <1>1, <1>2, <3>2 DEF DayOf
  <2>2. MonthOf(x) <= m
    <3> HIDE DEF m
    <3>1. DayOf(x) < (m + 1) * Days /\ m \in Nat
      BY <1>1, <2>1 DEF m
    <3> QED
      BY <1>1, <3>1, QuotientBelow, BudgetAssumption DEF MonthOf
  <2>3. m <= MonthOf(x) /\ MonthOf(x) \in Nat
    BY DaysPass, Calendar
  <2> QED
    BY <1>1, <2>2, <2>3
<1> DEFINE e == n * Hours
<1>6. (DayOf(at) + 1) * Hours \in Nat
  BY <1>1, BudgetAssumption
<1>7. at < n * Hours
  <2> HIDE DEF n
  <2> QED
    BY <1>3, <1>4, <1>6
<1> QED
  BY <1>3, <1>5, <1>7

\* The place of a waiting task within its day.
LEMMA PacedWait ==
  ASSUME NEW row \in Providers, NEW at \in Nat, ~DaySpent(row, at), PaceSpent(row, at)
  PROVE  LET next == DayOf(at) * Hours + NextHour(DayUsed(row, at)) IN
         next \in Nat /\ at < next /\ next < (DayOf(at) + 1) * Hours
<1> DEFINE used == DayUsed(row, at)
<1>1. used \in Nat /\ used < DayLimit /\ HourOf(at) \in Nat /\ used >= Release(HourOf(at))
  BY UsedType, Calendar, BudgetAssumption DEF DaySpent, PaceSpent
<1> HIDE DEF used
<1>2. NextHour(used) \in Nat /\ NextHour(used) > HourOf(at) /\ NextHour(used) <= Hours - 1
  BY <1>1, NextHourLater, NextHourToday
<1>3. DayOf(at) \in Nat /\ DayOf(at) * Hours \in Nat /\ at = DayOf(at) * Hours + HourOf(at)
      /\ (DayOf(at) + 1) * Hours = DayOf(at) * Hours + Hours
  BY Calendar
<1> QED
  BY <1>1, <1>2, <1>3, BudgetAssumption DEF used

\* A refusal names a later time: a refused task is never put off to the present
\* or the past (evaluateProviderBudget).
THEOREM RetryLater ==
  ASSUME NEW row \in Providers, NEW at \in Nat
  PROVE  RetryAt(row, at) \in Nat /\ (Refused(row, at) => at < RetryAt(row, at))
<1> DEFINE day == IF DaySpent(row, at) THEN (DayOf(at) + 1) * Hours
                  ELSE IF PaceSpent(row, at) THEN DayOf(at) * Hours + NextHour(DayUsed(row, at))
                  ELSE at
           month == IF MonthSpent(row, at) THEN (MonthOf(at) + 1) * Days * Hours ELSE at
<1>1. DayOf(at) \in Nat /\ (DayOf(at) + 1) * Hours > at
  BY Calendar, NextMultiple, BudgetAssumption DEF DayOf
<1>2. day \in Nat /\ (DaySpent(row, at) \/ PaceSpent(row, at) => at < day)
  <2>1. CASE DaySpent(row, at)
    BY <1>1, <2>1, BudgetAssumption
  <2>2. CASE ~DaySpent(row, at) /\ PaceSpent(row, at)
    BY <2>2, PacedWait
  <2>3. CASE ~DaySpent(row, at) /\ ~PaceSpent(row, at)
    BY <2>3
  <2> QED
    BY <2>1, <2>2, <2>3
<1>3. month \in Nat /\ (MonthSpent(row, at) => at < month)
  BY MonthEnd
<1>4. row.open \in Nat
  BY UsedType
<1>5. RetryAt(row, at) = Higher(row.open, Higher(day, month))
  BY DEF RetryAt
<1> HIDE DEF day, month
<1> QED
  BY <1>2, <1>3, <1>4, <1>5 DEF Refused, Higher

\* Until that time every hour is refused, as long as the row stays as it is: the
\* task does not sleep through a release, the end of a day or a month, or the
\* end of the circuit's pause.
THEOREM RefusedUntilRetry ==
  ASSUME NEW row \in Providers, NEW at \in Nat, Refused(row, at),
         NEW x \in Nat, at <= x, x < RetryAt(row, at)
  PROVE  Refused(row, x)
<1>0. /\ DayOf(at) \in Nat /\ DayOf(x) \in Nat /\ HourOf(x) \in 0 .. Hours - 1
      /\ x = DayOf(x) * Hours + HourOf(x) /\ DayOf(at) * Hours \in Nat
      /\ at = DayOf(at) * Hours + HourOf(at) /\ HourOf(at) \in 0 .. Hours - 1
      /\ (DayOf(at) + 1) * Hours = DayOf(at) * Hours + Hours
  BY Calendar
<1> DEFINE day == IF DaySpent(row, at) THEN (DayOf(at) + 1) * Hours
                  ELSE IF PaceSpent(row, at) THEN DayOf(at) * Hours + NextHour(DayUsed(row, at))
                  ELSE at
           month == IF MonthSpent(row, at) THEN (MonthOf(at) + 1) * Days * Hours ELSE at
<1>1. x < row.open \/ x < day \/ x < month
  BY DEF RetryAt, Higher
<1>2. CASE x < row.open
  BY <1>2, UsedType DEF Refused
<1>3. CASE x < month
  <2>1. MonthSpent(row, at)
    BY <1>3
  <2>2. MonthOf(x) = MonthOf(at)
    BY <1>3, <2>1, MonthEnd
  <2> QED
    BY <2>1, <2>2 DEF Refused, MonthSpent, MonthUsed
<1>4. CASE x < day
  <2>1. CASE DaySpent(row, at)
    <3>1. DayOf(x) = DayOf(at)
      BY <1>0, <1>4, <2>1, SameDay
    <3> QED
      BY <2>1, <3>1 DEF Refused, DaySpent, DayUsed
  <2>2. CASE ~DaySpent(row, at) /\ PaceSpent(row, at)
    <3>1. DayOf(x) = DayOf(at)
      <4>1. (DayOf(at) + 1) * Hours \in Nat
        BY <1>0, BudgetAssumption
      <4> QED
        BY <1>0, <1>4, <2>2, <4>1, PacedWait, SameDay
    <3>2. DayUsed(row, x) = DayUsed(row, at) /\ DayUsed(row, at) \in Nat
      BY <3>1, UsedType DEF DayUsed
    <3>3. HourOf(x) < NextHour(DayUsed(row, at))
      <4>1. NextHour(DayUsed(row, at)) \in Nat
        BY <1>0, <2>2, <3>2, NextHourLater DEF PaceSpent
      <4> QED
        BY <1>0, <1>4, <2>2, <3>1, <4>1
    <3>4. DayUsed(row, x) >= Release(HourOf(x))
      BY <1>0, <3>2, <3>3, NextHourFirst
    <3> QED
      BY <3>4 DEF Refused, PaceSpent
  <2>3. CASE ~DaySpent(row, at) /\ ~PaceSpent(row, at)
    BY <1>4, <2>3
  <2> QED
    BY <2>1, <2>2, <2>3
<1> QED
  BY <1>1, <1>2, <1>3, <1>4
=============================================================================
