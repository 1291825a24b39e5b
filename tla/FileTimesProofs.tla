---------------------------- MODULE FileTimesProofs ----------------------------
(***************************************************************************)
(* What a Filetime tells is what the calendar of FileTimesProps says of its*)
(* timestamp, for any radices of a clock, any timestamps a u64 has and any *)
(* sequence of operations.                                                 *)
(***************************************************************************)
EXTENDS FileTimesProps, SharedLemmas

Pos == Nat \ {0}

\* The lengths a day is cut into.
LEMMA ConstantsPos ==
  /\ HoursInDay \in Pos /\ MinutesInHour \in Pos /\ SecondsInMinute \in Pos
  /\ MillisInSecond \in Pos /\ TicksInMilli \in Pos /\ NanosInTick \in Pos
  /\ Width \in Pos /\ LastYear \in Pos /\ LastYear > 1971
  BY FileTimesAssumption DEF Pos

-----------------------------------------------------------------------------
(* Quotients and remainders of numbers that are not known.                 *)
LEMMA MulPos == ASSUME NEW a \in Pos, NEW b \in Pos PROVE a * b \in Pos
  BY DEF Pos

LEMMA DivSplit ==
  ASSUME NEW a \in Nat, NEW b \in Pos
  PROVE  a \div b \in Nat /\ a % b \in 0 .. b - 1 /\ a = (a \div b) * b + (a % b)
  BY DEF Pos

LEMMA DivUnique ==
  ASSUME NEW q \in Nat, NEW b \in Pos, NEW r \in 0 .. b - 1
  PROVE  (q * b + r) \div b = q /\ (q * b + r) % b = r
  BY DEF Pos

LEMMA MulMono ==
  ASSUME NEW a \in Nat, NEW b \in Nat, NEW c \in Nat, a <= b
  PROVE  a * c <= b * c /\ a * c \in Nat /\ b * c \in Nat
  OBVIOUS

\* A number that is cut in q parts of b, in units K times as fine.
LEMMA DivFine ==
  ASSUME NEW x \in Nat, NEW b \in Pos, NEW K \in Pos, NEW s \in 0 .. K - 1
  PROVE  /\ (x * K + s) \div (b * K) = x \div b
         /\ (x * K + s) % (b * K) = (x % b) * K + s
<1> DEFINE q == x \div b
           r == x % b
<1>1. q \in Nat /\ r \in 0 .. b - 1 /\ x = q * b + r
  BY DivSplit
<1> HIDE DEF q, r
<1>2. b * K \in Pos /\ b \in Nat /\ K \in Nat
  BY MulPos DEF Pos
<1>3. r * K + s \in 0 .. (b * K) - 1
  <2>1. r * K <= (b - 1) * K /\ r * K \in Nat
    BY <1>1, <1>2, MulMono DEF Pos
  <2>2. (b - 1) * K = (b * K) - K
    BY <1>2
  <2> QED BY <2>1, <2>2, <1>2 DEF Pos
<1>4. x * K + s = q * (b * K) + (r * K + s)
  BY <1>1, <1>2 DEF Pos
<1>5. (q * (b * K) + (r * K + s)) \div (b * K) = q /\ (q * (b * K) + (r * K + s)) % (b * K) = r * K + s
  BY <1>1, <1>2, <1>3, DivUnique, ZenonT(60)
<1> QED BY <1>4, <1>5 DEF q, r
-----------------------------------------------------------------------------
(* The calendar.                                                           *)

\* A year has 366 days if it is a leap year, else 365.
LEMMA YearLength ==
  ASSUME NEW y \in Nat, y >= 1
  PROVE  /\ LeapDays(y + 1) = LeapDays(y) + IF is_leap_year(y) THEN 1 ELSE 0
         /\ DaysBefore(y + 1) = DaysBefore(y) + IF is_leap_year(y) THEN 366 ELSE 365
         /\ LeapDays(y) \in Int /\ DaysBefore(y) \in Int
  BY DEF LeapDays, DaysBefore, is_leap_year

\* Years of 365 or 366 days add up to so many.
LEMMA YearsLength ==
  ASSUME NEW y \in Nat, NEW z \in Nat, y >= 1, y <= z
  PROVE  DaysBefore(z) - DaysBefore(y) \in 365 * (z - y) .. 366 * (z - y)
<1> DEFINE N == {n \in Nat : DaysBefore(y + n) - DaysBefore(y) \in 365 * n .. 366 * n}
<1>1. 0 \in N
  BY YearLength
<1>2. ASSUME NEW n \in N PROVE n + 1 \in N
  <2>1. DaysBefore(y + n + 1) = DaysBefore(y + n) + IF is_leap_year(y + n) THEN 366 ELSE 365
    BY YearLength
  <2>2. DaysBefore(y + n) \in Int /\ DaysBefore(y) \in Int
    BY YearLength
  <2> QED BY <2>1, <2>2
<1> HIDE DEF N
<1>3. \A n \in Nat : n \in N
  BY <1>1, <1>2, SetInduction
<1> QED BY <1>3 DEF N

\* Years begin one after the other.
LEMMA YearsInOrder ==
  ASSUME NEW y \in Nat, NEW z \in Nat, y >= 1, y < z
  PROVE  DaysBefore(y + 1) <= DaysBefore(z) /\ DaysBefore(z) \in Int /\ DaysBefore(y + 1) \in Int
<1> PICK next \in Nat : next = y + 1
  OBVIOUS
<1>1. DaysBefore(z) - DaysBefore(next) \in 365 * (z - next) .. 366 * (z - next)
  BY YearsLength
<1>2. DaysBefore(z) \in Int /\ DaysBefore(next) \in Int
  BY YearLength
<1> QED BY <1>1, <1>2

\* The count of LeapsTo is the formula of LeapDays.
LEMMA LeapsAre ==
  \A y \in 1600 .. LastYear : LeapsTo[y] = LeapDays(y + 1) - LeapDays(1601)
<1> DEFINE S(y) == {z \in 1601 .. y : is_leap_year(z)}
           N == {n \in Nat : /\ IsFiniteSet(S(1600 + n))
                             /\ Cardinality(S(1600 + n)) = LeapDays(1601 + n) - LeapDays(1601)}
<1>1. 0 \in N
  <2>1. S(1600 + 0) = {}
    OBVIOUS
  <2>2. LeapDays(1601 + 0) = LeapDays(1601) /\ LeapDays(1601) \in Int
    BY YearLength
  <2> QED BY <2>1, <2>2, FS_EmptySet
<1>2. ASSUME NEW n \in N PROVE n + 1 \in N
  <2> DEFINE y == 1600 + n + 1
             T == S(1600 + n)
  <2>1. LeapDays(y + 1) = LeapDays(y) + (IF is_leap_year(y) THEN 1 ELSE 0) /\ LeapDays(y) \in Int
    BY YearLength
  <2>2. y = 1601 + n /\ y = 1600 + (n + 1) /\ y + 1 = 1601 + (n + 1)
    OBVIOUS
  <2>3. IsFiniteSet(T) /\ Cardinality(T) = LeapDays(y) - LeapDays(1601) /\ LeapDays(1601) \in Int
    BY <2>2, YearLength
  <2>4. IsFiniteSet(S(y)) /\ Cardinality(S(y)) = LeapDays(y + 1) - LeapDays(1601)
    <3>1. CASE is_leap_year(y)
      <4>1. S(y) = T \cup {y} /\ y \notin T
        BY <3>1
      <4> HIDE DEF S, T
      <4>2. IsFiniteSet(T \cup {y}) /\ Cardinality(T \cup {y}) = Cardinality(T) + 1
        BY <2>3, <4>1, FS_AddElement
      <4> HIDE DEF y
      <4> QED BY <2>1, <2>3, <3>1, <4>1, <4>2
    <3>2. CASE ~is_leap_year(y)
      <4>1. S(y) = T
        BY <3>2
      <4> HIDE DEF S, T, y
      <4> QED BY <2>1, <2>3, <3>2, <4>1
    <3> QED BY <3>1, <3>2
  <2> HIDE DEF S
  <2> QED BY <2>2, <2>4
<1> HIDE DEF N
<1>3. \A n \in Nat : n \in N
  BY <1>1, <1>2, SetInduction
<1> SUFFICES ASSUME NEW y \in 1600 .. LastYear
             PROVE LeapsTo[y] = LeapDays(y + 1) - LeapDays(1601)
  OBVIOUS
<1> DEFINE n == y - 1600
<1>4. n \in Nat /\ 1600 + n = y /\ 1601 + n = y + 1
  BY ConstantsPos DEF Pos
<1>5. Cardinality(S(1600 + n)) = LeapDays(1601 + n) - LeapDays(1601)
  <2>1. n \in N
    BY <1>3, <1>4
  <2> HIDE DEF S, n
  <2> QED BY <2>1 DEF N
<1>6. LeapsTo[y] = Cardinality(S(y))
  BY DEF LeapsTo
<1> HIDE DEF S, n
<1> QED BY <1>4, <1>5, <1>6

\* The year a day is in, days counted from the first of January 1601.
InYear(days, y) == DaysBefore(y) <= days /\ days < DaysBefore(y + 1)
Clipped(rest) == IF rest > 364 THEN 364 ELSE rest

\* A year begins with the days of the years before it.
LEMMA YearBegins ==
  ASSUME NEW y \in 1601 .. LastYear
  PROVE  /\ DaysBefore(y) = 365 * (y - 1601) + LeapsTo[y - 1]
         /\ days_from_year(y) = DaysBefore(y)
         /\ LeapsTo[y] = LeapsTo[y - 1] + (IF is_leap_year(y) THEN 1 ELSE 0)
         /\ LeapsTo[y] \in Int /\ LeapsTo[y - 1] \in Int
<1>1. y \in Nat /\ y >= 1 /\ y \in 1600 .. LastYear /\ y - 1 \in 1600 .. LastYear
  BY ConstantsPos DEF Pos
<1>2. LeapsTo[y] = LeapDays(y + 1) - LeapDays(1601) /\ LeapsTo[y - 1] = LeapDays(y) - LeapDays(1601)
  BY <1>1, LeapsAre
<1>3. LeapDays(y + 1) = LeapDays(y) + (IF is_leap_year(y) THEN 1 ELSE 0)
      /\ LeapDays(y) \in Int /\ LeapDays(1601) \in Int
  BY <1>1, YearLength
<1>4. DaysBefore(y) = 365 * (y - 1601) + LeapsTo[y - 1]
  BY <1>1, <1>2, <1>3 DEF DaysBefore
<1>5. days_from_year(y) = DaysBefore(y)
  <2>1. DaysBefore(1601) = 0
    BY <1>3 DEF DaysBefore
  <2> QED BY <1>1, <1>4, <2>1 DEF days_from_year
<1> QED BY <1>1, <1>2, <1>3, <1>4, <1>5

\* No u64 of ticks reaches further.
LastDay == 365 * (LastYear - 1602)

\* Every day a u64 of ticks reaches is in a year that a u16 has.
LEMMA YearExists ==
  ASSUME NEW days \in Nat, days <= LastDay
  PROVE  \E y \in 1601 .. LastYear - 1 : InYear(days, y)
<1> DEFINE S == {n \in Nat : days < DaysBefore(1602 + n)}
           last == LastYear - 1602
<1>1. last \in Nat /\ last > 1 /\ 1602 + last = LastYear /\ LastYear \in Nat
  BY ConstantsPos DEF Pos
<1>2. DaysBefore(1601) = 0
  BY YearLength DEF DaysBefore
<1>3. last \in S
  <2>1. DaysBefore(LastYear) - DaysBefore(1601) \in 365 * (LastYear - 1601) .. 366 * (LastYear - 1601)
    BY <1>1, YearsLength
  <2>2. DaysBefore(LastYear) \in Int
    BY <1>1, YearLength
  <2> QED BY <1>1, <1>2, <2>1, <2>2 DEF LastDay
<1>4. PICK n \in S : \A m \in S : n <= m
  <2>1. last \in S /\ \A x \in S : x \in Nat
    BY <1>3
  <2> HIDE DEF S, last
  <2>2. S \subseteq Nat /\ S # {}
    BY <2>1
  <2> QED BY <2>2, Least
<1>5. n \in Nat /\ n <= last /\ days < DaysBefore(1602 + n)
  <2>1. n <= last
    <3> HIDE DEF S, last
    <3> QED BY <1>3, <1>4
  <2>2. n \in S
    BY <1>4
  <2> HIDE DEF last
  <2> QED BY <2>1, <2>2
<1>6. DaysBefore(1601 + n) <= days
  <2>1. CASE n = 0
    BY <1>2, <2>1
  <2>2. CASE n # 0
    <3>1. n - 1 \in Nat /\ 1602 + (n - 1) = 1601 + n
      BY <1>5, <2>2
    <3>2. n - 1 \notin S
      BY <1>4, <1>5
    <3>3. DaysBefore(1601 + n) \in Int
      BY <1>5, YearLength
    <3> QED BY <3>1, <3>2, <3>3
  <2> QED BY <2>1, <2>2
<1>7. 1601 + n \in 1601 .. LastYear - 1 /\ (1601 + n) + 1 = 1602 + n
  BY <1>1, <1>5
<1> QED BY <1>5, <1>6, <1>7 DEF InYear

\* The least of a set of years.
LEMMA MinIs ==
  ASSUME NEW S \in SUBSET Int, NEW y \in S, \A z \in S : y <= z
  PROVE  Min(S) = y
<1>1. Min(S) \in S /\ \A z \in S : Min(S) <= z
  BY DEF Min
<1>2. Min(S) <= y /\ y <= Min(S) /\ y \in Int /\ Min(S) \in Int
  BY <1>1
<1> QED BY <1>2

(* The loops of to_years and to_years_unix come to the year a day is in, and *)
(* to the days of it that are over; but for the last day of a leap year,   *)
(* which is taken for the one before it.                                   *)
LEMMA YearIs ==
  ASSUME NEW first \in {1601, 1970}, NEW days \in Nat, NEW year \in first .. LastYear - 1,
         InYear(days + DaysBefore(first), year)
  PROVE  YearFrom(first, days) = <<year, Clipped((days + DaysBefore(first)) - DaysBefore(year))>>
<1> DEFINE total == days + DaysBefore(first)
           Leap(y) == IF is_leap_year(y) THEN 1 ELSE 0
<1>1. /\ first \in Nat /\ first \in 1601 .. LastYear /\ year \in 1601 .. LastYear
      /\ year \in Nat /\ year >= first /\ LastYear \in Nat /\ year < LastYear
  BY ConstantsPos DEF Pos
<1>2. /\ DaysBefore(first) \in Int /\ DaysBefore(year) \in Int /\ DaysBefore(year + 1) \in Int
      /\ total \in Int /\ \A y \in Nat : y >= 1 => DaysBefore(y) \in Int
  BY <1>1, YearLength
<1>3. ~is_leap_year(first)
  BY DEF is_leap_year
<1>4. ASSUME NEW y \in first .. LastYear
      PROVE  Left(first, days, y) = total - DaysBefore(y) - Leap(y) /\ DaysBefore(y) \in Int
  <2>1. y \in 1601 .. LastYear
    BY <1>1
  <2>2. /\ DaysBefore(y) = 365 * (y - 1601) + LeapsTo[y - 1]
        /\ LeapsTo[y] = LeapsTo[y - 1] + Leap(y)
        /\ LeapsTo[y] \in Int /\ LeapsTo[y - 1] \in Int
    BY <2>1, YearBegins
  <2>3. /\ DaysBefore(first) = 365 * (first - 1601) + LeapsTo[first - 1]
        /\ LeapsTo[first] = LeapsTo[first - 1]
        /\ LeapsTo[first] \in Int
    BY <1>1, <1>3, YearBegins
  <2> QED BY <1>1, <2>1, <2>2, <2>3 DEF Left
<1>5. ASSUME NEW y \in first + 1 .. LastYear
      PROVE  Left(first, days, y - 1) - 365 = total - DaysBefore(y)
  <2>1. y - 1 \in first .. LastYear /\ y - 1 \in Nat /\ y - 1 >= 1 /\ (y - 1) + 1 = y
    BY <1>1
  <2>2. Left(first, days, y - 1) = total - DaysBefore(y - 1) - Leap(y - 1)
    BY <1>4, <2>1
  <2>3. DaysBefore(y) = DaysBefore(y - 1) + 365 + Leap(y - 1) /\ DaysBefore(y - 1) \in Int
    BY <2>1, YearLength
  <2> HIDE DEF total
  <2> QED BY <1>2, <2>2, <2>3
<1>6. /\ DaysBefore(year) <= total /\ total < DaysBefore(year) + 365 + Leap(year)
  BY <1>1, <1>2, YearLength DEF InYear
<1>7. ASSUME NEW y \in first .. year - 1
      PROVE  ~(Left(first, days, y) < 365) /\ ~Breaks(first, days, y)
  <2>1. y \in first .. LastYear /\ y \in Nat /\ y >= 1 /\ y + 1 \in Nat /\ y + 1 >= 1 /\ y + 1 <= year
    BY <1>1
  <2>2. DaysBefore(y + 1) <= DaysBefore(year)
    BY <1>1, <1>2, <2>1, YearsLength
  <2>3. DaysBefore(y + 1) = DaysBefore(y) + 365 + Leap(y) /\ DaysBefore(y) \in Int
    BY <2>1, YearLength
  <2>4. total - DaysBefore(y) >= 365 + Leap(y)
    BY <1>2, <1>6, <2>2, <2>3
  <2>5. ~(Left(first, days, y) < 365)
    BY <1>2, <1>4, <2>1, <2>3, <2>4
  <2>6. ~Breaks(first, days, y)
    <3>1. CASE y = first
      BY <1>1, <3>1 DEF Breaks
    <3>2. CASE y # first
      <4>1. y \in first + 1 .. LastYear
        BY <1>1, <2>1, <3>2
      <4>2. Left(first, days, y - 1) - 365 = total - DaysBefore(y)
        BY <1>5, <4>1
      <4> HIDE DEF total
      <4> QED BY <1>2, <2>3, <2>4, <4>2 DEF Breaks
    <3> QED BY <3>1, <3>2
  <2> QED BY <2>5, <2>6
<1>8. Left(first, days, year) < 365
  BY <1>1, <1>2, <1>4, <1>6
<1> DEFINE within == {y \in first + days \div 366 - 1 .. first + days \div 365 : y >= first}
           stops == {y \in within : Left(first, days, y) < 365 \/ Breaks(first, days, y)}
<1>9. Min(stops) = year
  <2>1. year \in within
    <3>1. DaysBefore(year) - DaysBefore(first) >= 365 * (year - first)
      BY <1>1, YearsLength
    <3>2. DaysBefore(year + 1) - DaysBefore(first) <= 366 * (year + 1 - first)
      BY <1>1, YearsLength
    <3>3. days >= 365 * (year - first) /\ days < 366 * (year + 1 - first)
      BY <1>1, <1>2, <3>1, <3>2 DEF InYear
    <3> QED BY <1>1, <3>3
  <2>2. year \in stops
    BY <1>8, <2>1
  <2>3. stops \subseteq Int /\ \A z \in stops : z >= first
    BY <1>1
  <2>4. \A z \in stops : year <= z
    <3> SUFFICES ASSUME NEW z \in stops, z < year PROVE FALSE
      BY <1>1, <2>3
    <3>1. z \in first .. year - 1
      BY <1>1, <2>3
    <3> QED BY <1>7, <3>1
  <2>5. stops \subseteq Int
    BY <2>3
  <2> HIDE DEF stops, within, total, Leap
  <2> QED BY <2>2, <2>4, <2>5, MinIs
<1> DEFINE rest == (days + DaysBefore(first)) - DaysBefore(year)
           breaking == <<year, Left(first, days, year - 1) - 365>>
           ending == <<year, Left(first, days, year)>>
<1>10. YearFrom(first, days) = IF Breaks(first, days, year) THEN breaking ELSE ending
  BY <1>9 DEF YearFrom
<1> SUFFICES IF Breaks(first, days, year) THEN breaking = <<year, Clipped(rest)>>
             ELSE ending = <<year, Clipped(rest)>>
  <2> HIDE DEF breaking, ending
  <2>1. CASE Breaks(first, days, year)
    BY <1>10, <2>1
  <2> QED BY <1>10
<1>11. CASE year = first
  <2>1. ~Breaks(first, days, year)
    BY <1>1, <1>11 DEF Breaks
  <2>2. Left(first, days, year) = rest
    BY <1>1, <1>2, <1>3, <1>4, <1>11
  <2>3. Left(first, days, year) = Clipped(rest)
    BY <1>2, <1>8, <2>2 DEF Clipped
  <2> QED BY <2>1, <2>3
<1>12. CASE year # first
  <2>1. year \in first + 1 .. LastYear
    BY <1>1, <1>12
  <2>2. Left(first, days, year - 1) - 365 = rest
    BY <1>5, <2>1
  <2>3. CASE rest < 365
    <3>1. Breaks(first, days, year)
      BY <1>1, <2>1, <2>2, <2>3 DEF Breaks
    <3>2. Clipped(rest) = rest
      BY <1>2, <2>3 DEF Clipped
    <3> QED BY <2>2, <3>1, <3>2
  <2>4. CASE ~(rest < 365)
    <3>1. ~Breaks(first, days, year)
      BY <2>2, <2>4 DEF Breaks
    <3>2. Left(first, days, year) = 364 /\ Clipped(rest) = 364
      BY <1>1, <1>2, <1>4, <1>6, <2>4 DEF Clipped
    <3> QED BY <3>1, <3>2
  <2> QED BY <2>3, <2>4
<1> QED BY <1>11, <1>12

Leap(y) == IF is_leap_year(y) THEN 1 ELSE 0

\* The tables of the months.
LEMMA BeforeIs ==
  ASSUME NEW y
  PROVE  /\ Before(y)[1] = 0 /\ Before(y)[2] = 31 /\ Before(y)[3] = 59 + Leap(y)
         /\ Before(y)[4] = 90 + Leap(y) /\ Before(y)[5] = 120 + Leap(y) /\ Before(y)[6] = 151 + Leap(y)
         /\ Before(y)[7] = 181 + Leap(y) /\ Before(y)[8] = 212 + Leap(y) /\ Before(y)[9] = 243 + Leap(y)
         /\ Before(y)[10] = 273 + Leap(y) /\ Before(y)[11] = 304 + Leap(y) /\ Before(y)[12] = 334 + Leap(y)
         /\ Leap(y) \in {0, 1}
<1>1. CASE is_leap_year(y)
  BY <1>1 DEF Before, Leap
<1>2. CASE ~is_leap_year(y)
  BY <1>2 DEF Before, Leap
<1> QED BY <1>1, <1>2

\* The lengths of the months.
LEMMA LengthIs ==
  ASSUME NEW y \in Nat, y >= 1
  PROVE  /\ LengthOf(y, 1) = 31 /\ LengthOf(y, 2) = 28 + Leap(y) /\ LengthOf(y, 3) = 31
         /\ LengthOf(y, 4) = 30 /\ LengthOf(y, 5) = 31 /\ LengthOf(y, 6) = 30
         /\ LengthOf(y, 7) = 31 /\ LengthOf(y, 8) = 31 /\ LengthOf(y, 9) = 30
         /\ LengthOf(y, 10) = 31 /\ LengthOf(y, 11) = 30 /\ LengthOf(y, 12) = 31
<1>1. DaysBefore(y + 1) - DaysBefore(y) - 337 = 28 + Leap(y)
  BY YearLength DEF Leap
<1>2. LengthOf(y, 2) = 28 + Leap(y)
  BY <1>1 DEF LengthOf
<1>3. \A m \in {4, 6, 9, 11} : LengthOf(y, m) = 30
  BY DEF LengthOf
<1>4. \A m \in {1, 3, 5, 7, 8, 10, 12} : LengthOf(y, m) = 31
  BY DEF LengthOf
<1> QED BY <1>2, <1>3, <1>4

\* A month begins where the one before it ends.
MonthEnds(y, m) == IF m = 12 THEN 365 + Leap(y) ELSE Before(y)[m + 1]
LEMMA MonthsAre ==
  ASSUME NEW y \in Nat, y >= 1
  PROVE  /\ \A m \in 1 .. 12 : /\ Before(y)[m] \in Nat /\ MonthEnds(y, m) \in Nat
                               /\ LengthOf(y, m) = MonthEnds(y, m) - Before(y)[m]
         /\ \A m \in 1 .. 12 : m # 1 => Before(y)[m] = Before(y)[m - 1] + LengthOf(y, m - 1)
         /\ \A m, n \in 1 .. 12 : m < n => MonthEnds(y, m) <= Before(y)[n]
<1> DEFINE t == Before(y)
           l == Leap(y)
           len == [m \in 1 .. 12 |-> LengthOf(y, m)]
<1>1. /\ t[1] = 0 /\ t[2] = 31 /\ t[3] = 59 + l /\ t[4] = 90 + l /\ t[5] = 120 + l /\ t[6] = 151 + l
      /\ t[7] = 181 + l /\ t[8] = 212 + l /\ t[9] = 243 + l /\ t[10] = 273 + l /\ t[11] = 304 + l
      /\ t[12] = 334 + l /\ l \in {0, 1}
  BY BeforeIs
<1>2. /\ len[1] = 31 /\ len[2] = 28 + l /\ len[3] = 31 /\ len[4] = 30 /\ len[5] = 31 /\ len[6] = 30
      /\ len[7] = 31 /\ len[8] = 31 /\ len[9] = 30 /\ len[10] = 31 /\ len[11] = 30 /\ len[12] = 31
  BY LengthIs
<1> HIDE DEF t, l, len
<1>3. \A m \in 1 .. 12 : m # 1 => t[m] = t[m - 1] + len[m - 1]
  BY <1>1, <1>2
<1>4. \A m \in 1 .. 12 : /\ t[m] \in Nat
                         /\ len[m] = (IF m = 12 THEN 365 + l ELSE t[m + 1]) - t[m]
                         /\ (IF m = 12 THEN 365 + l ELSE t[m + 1]) \in Nat
  BY <1>1, <1>2
<1>5. \A m, n \in 1 .. 12 : m < n => (IF m = 12 THEN 365 + l ELSE t[m + 1]) <= t[n]
  BY <1>1
<1>6. \A m \in 1 .. 12 : len[m] = LengthOf(y, m)
  BY DEF len
<1> QED BY <1>3, <1>4, <1>5, <1>6 DEF t, l, MonthEnds

\* Every day of a year is in a month.
LEMMA MonthExists ==
  ASSUME NEW y \in Nat, y >= 1, NEW rest \in 0 .. 364 + Leap(y)
  PROVE  \E m \in 1 .. 12 : Before(y)[m] <= rest /\ rest < MonthEnds(y, m)
<1> DEFINE S == {m \in 1 .. 12 : Before(y)[m] <= rest}
<1> USE BeforeIs
<1>1. 1 \in S
  OBVIOUS
<1>2. CASE \A m \in 1 .. 11 : rest < Before(y)[m + 1] => ~(Before(y)[m] <= rest)
  <2>1. ASSUME NEW m \in 1 .. 11, m \in S PROVE m + 1 \in S
    <3>1. m + 1 \in 1 .. 12 /\ Before(y)[m] <= rest /\ Before(y)[m + 1] \in Nat
      BY <2>1, MonthsAre
    <3> QED BY <1>2, <3>1
  <2>2. 2 \in S /\ 3 \in S /\ 4 \in S /\ 5 \in S /\ 6 \in S /\ 7 \in S /\ 8 \in S /\ 9 \in S
        /\ 10 \in S /\ 11 \in S /\ 12 \in S
    <3> HIDE DEF S
    <3> QED BY <1>1, <2>1
  <2> QED BY <2>2 DEF MonthEnds
<1>3. CASE ~\A m \in 1 .. 11 : rest < Before(y)[m + 1] => ~(Before(y)[m] <= rest)
  BY <1>3 DEF MonthEnds
<1> QED BY <1>2, <1>3

\* The date the calendar has for a day: of its year, and of the month whose
\* begin is the last before it.
LEMMA DateIs ==
  ASSUME NEW days \in Nat, NEW year \in Nat, year >= 1601, InYear(days, year), NEW m \in 1 .. 12,
         Before(year)[m] <= days - DaysBefore(year), days - DaysBefore(year) < MonthEnds(year, m)
  PROVE  DateOf(days) = [year |-> year, month |-> m,
                         day |-> days - DaysBefore(year) - Before(year)[m] + 1]
<1> DEFINE In(y) == DaysBefore(y) <= days /\ days < DaysBefore(y + 1)
           years == (1601 + (days \div 366)) .. (1601 + (days \div 365))
           found == CHOOSE y \in years : In(y)
           Is(f, y) == f = [n \in 1 .. 12 |->
                             IF n = 1 THEN DaysBefore(y) ELSE f[n - 1] + LengthOf(y, n - 1)]
           start(y) == CHOOSE f : Is(f, y)
           Holds(n, f, y) == f[n] <= days /\ days < f[n] + LengthOf(y, n)
           month(y) == CHOOSE n \in 1 .. 12 : Holds(n, start(y), y)
<1>1. DateOf(days) = [year |-> found, month |-> month(found),
                      day |-> days - start(found)[month(found)] + 1]
  BY DEF DateOf
<1>2. /\ \A y \in Nat : y >= 1 => DaysBefore(y) \in Int
      /\ DaysBefore(year) \in Int /\ DaysBefore(1601) = 0
  BY YearLength DEF DaysBefore
<1>3. found = year
  <2>1. DaysBefore(year) - DaysBefore(1601) >= 365 * (year - 1601)
    BY YearsLength
  <2>2. \A z \in Nat : z >= 1601 => DaysBefore(z) <= 366 * (z - 1601)
    BY <1>2, YearsLength
  <2>3. days >= 365 * (year - 1601) /\ days < 366 * ((year + 1) - 1601)
    <3>1. year + 1 \in Nat /\ year + 1 >= 1601
      OBVIOUS
    <3>2. DaysBefore(year + 1) <= 366 * ((year + 1) - 1601) /\ DaysBefore(year + 1) \in Int
      BY <1>2, <2>2, <3>1
    <3> QED BY <1>2, <2>1, <3>2 DEF InYear
  <2>4. year \in years /\ In(year)
    BY <2>3 DEF InYear
  <2>5. found \in years /\ In(found)
    BY <2>4
  <2>6. found \in Nat /\ found >= 1601
    BY <2>5
  <2> HIDE DEF found
  <2>7. ~(found < year)
    <3> SUFFICES ASSUME found < year PROVE FALSE
      OBVIOUS
    <3>1. DaysBefore(found + 1) <= DaysBefore(year) /\ DaysBefore(year) \in Int /\ DaysBefore(found + 1) \in Int
      BY <2>6, YearsInOrder
    <3> QED BY <2>4, <2>5, <3>1
  <2>8. ~(year < found)
    <3> SUFFICES ASSUME year < found PROVE FALSE
      OBVIOUS
    <3>1. DaysBefore(year + 1) <= DaysBefore(found) /\ DaysBefore(found) \in Int /\ DaysBefore(year + 1) \in Int
      BY <2>6, YearsInOrder
    <3> QED BY <2>4, <2>5, <3>1
  <2> QED BY <2>6, <2>7, <2>8
<1> DEFINE begin == [n \in 1 .. 12 |-> DaysBefore(year) + Before(year)[n]]
<1>4. Is(begin, year)
  <2>1. Before(year)[1] = 0 /\ \A n \in 1 .. 12 : Before(year)[n] \in Nat
    BY BeforeIs, MonthsAre
  <2>2. \A n \in 1 .. 12 : n # 1 =>
          /\ n - 1 \in 1 .. 12 /\ LengthOf(year, n - 1) \in Int
          /\ Before(year)[n] = Before(year)[n - 1] + LengthOf(year, n - 1)
    BY MonthsAre
  <2>3. \A n \in 1 .. 12 :
          begin[n] = IF n = 1 THEN DaysBefore(year) ELSE begin[n - 1] + LengthOf(year, n - 1)
    BY <1>2, <2>1, <2>2, SMTT(60)
  <2> QED BY <2>3
<1>5. start(year) = begin
  <2>1. Is(start(year), year)
    BY <1>4
  <2> DEFINE f == start(year)
  <2>2. f = [n \in 1 .. 12 |-> IF n = 1 THEN DaysBefore(year) ELSE f[n - 1] + LengthOf(year, n - 1)]
    BY <2>1
  <2>3. begin = [n \in 1 .. 12 |->
                  IF n = 1 THEN DaysBefore(year) ELSE begin[n - 1] + LengthOf(year, n - 1)]
    BY <1>4
  <2> HIDE DEF f, begin
  <2>4. /\ f[1] = begin[1] /\ f[2] = begin[2] /\ f[3] = begin[3] /\ f[4] = begin[4]
        /\ f[5] = begin[5] /\ f[6] = begin[6] /\ f[7] = begin[7] /\ f[8] = begin[8]
        /\ f[9] = begin[9] /\ f[10] = begin[10] /\ f[11] = begin[11] /\ f[12] = begin[12]
    BY <2>2, <2>3
  <2>5. \A n \in 1 .. 12 : f[n] = begin[n]
    BY <2>4
  <2>6. f = begin
    BY <2>2, <2>3, <2>5
  <2> QED BY <2>6 DEF f
<1>6. \A n \in 1 .. 12 : Holds(n, begin, year) <=>
        Before(year)[n] <= days - DaysBefore(year) /\ days - DaysBefore(year) < MonthEnds(year, n)
  BY <1>2, MonthsAre, SMTT(60)
<1>7. \A n \in 1 .. 12 : Holds(n, begin, year) => n = m
  <2> SUFFICES ASSUME NEW n \in 1 .. 12, Holds(n, begin, year), n # m PROVE FALSE
    OBVIOUS
  <2> DEFINE rest == days - DaysBefore(year)
  <2>1. Before(year)[n] <= rest /\ rest < MonthEnds(year, n) /\ rest \in Int
    BY <1>2, <1>6
  <2>2. Before(year)[m] <= rest /\ rest < MonthEnds(year, m)
    OBVIOUS
  <2>3. /\ \A i \in 1 .. 12 : Before(year)[i] \in Nat /\ MonthEnds(year, i) \in Nat
        /\ \A i, j \in 1 .. 12 : i < j => MonthEnds(year, i) <= Before(year)[j]
    BY MonthsAre
  <2> HIDE DEF rest, Holds
  <2>4. CASE m < n
    BY <2>1, <2>2, <2>3, <2>4
  <2>5. CASE n < m
    BY <2>1, <2>2, <2>3, <2>5
  <2> QED BY <2>4, <2>5
<1>8. month(year) = m
  <2>1. Holds(m, begin, year)
    BY <1>6
  <2> HIDE DEF Holds, begin, start
  <2> QED BY <1>5, <1>7, <2>1
<1>9. days - begin[m] + 1 = days - DaysBefore(year) - Before(year)[m] + 1
  BY <1>2, MonthsAre
<1> HIDE DEF begin, start, month, found
<1> QED BY <1>1, <1>3, <1>5, <1>8, <1>9

\* The month and the day that are told of the days of a year that are over: up
\* to November those of the calendar.
LEMMA MonthDayIs ==
  ASSUME NEW y \in Nat, y >= 1, NEW rest \in Nat, NEW m \in 1 .. 11,
         Before(y)[m] <= rest, rest < Before(y)[m + 1]
  PROVE  MonthDay(y, rest) = [year |-> y, month |-> m, day |-> 1 + (rest - Before(y)[m])]
<1> DEFINE later == {p \in 1 .. 12 : Before(y)[p] > rest}
<1>1. /\ \A p \in 1 .. 12 : Before(y)[p] \in Nat
      /\ \A p, q \in 1 .. 12 : p < q => Before(y)[p + 1] <= Before(y)[q]
  BY MonthsAre DEF MonthEnds
<1>2. m + 1 \in later /\ later \in SUBSET Int
  OBVIOUS
<1>3. \A p \in later : m + 1 <= p
  <2> SUFFICES ASSUME NEW p \in 1 .. 12, Before(y)[p] > rest, p < m + 1 PROVE FALSE
    OBVIOUS
  <2>1. CASE p = m
    BY <1>1, <2>1
  <2>2. CASE p # m
    <3>1. p < m /\ m \in 1 .. 12 /\ p + 1 \in 1 .. 12
      BY <2>2
    <3>2. Before(y)[p + 1] <= Before(y)[m] /\ Before(y)[p] <= Before(y)[p + 1]
      <4>1. Before(y)[p] <= Before(y)[p + 1]
        BY BeforeIs
      <4> QED BY <1>1, <3>1, <4>1
    <3> QED BY <1>1, <3>1, <3>2
  <2> QED BY <2>1, <2>2
<1>4. Min(later) = m + 1 /\ later # {}
  <2> HIDE DEF later
  <2> QED BY <1>2, <1>3, MinIs
<1>5. MonthDay(y, rest) =
        [year |-> y, month |-> IF later = {} THEN 12 ELSE Min(later) - 1,
         day |-> 1 + IF rest < (IF later = {} THEN 335 ELSE Before(y)[IF later = {} THEN 12 ELSE Min(later) - 1])
                     THEN 0
                     ELSE rest - (IF later = {} THEN 335 ELSE Before(y)[IF later = {} THEN 12 ELSE Min(later) - 1])]
  BY DEF MonthDay
<1> HIDE DEF later
<1>6. (m + 1) - 1 = m /\ Before(y)[m] \in Nat
  BY <1>1
<1>7. (IF later = {} THEN 12 ELSE Min(later) - 1) = m
  BY <1>4, <1>6
<1>8. MonthDay(y, rest) = [year |-> y, month |-> m, day |-> 1 + IF rest < Before(y)[m] THEN 0 ELSE rest - Before(y)[m]]
  BY <1>4, <1>5, <1>7
<1> QED BY <1>6, <1>8

\* From December on they are December's.
LEMMA DecemberIs ==
  ASSUME NEW y \in Nat, NEW rest \in Nat, Before(y)[12] <= rest
  PROVE  /\ MonthDay(y, rest) = [year |-> y, month |-> 12, day |-> MonthDay(y, rest).day]
         /\ MonthDay(y, rest).day \in Nat
<1> DEFINE later == {p \in 1 .. 12 : Before(y)[p] > rest}
<1>1. later = {}
  BY BeforeIs
<1>2. MonthDay(y, rest) =
        [year |-> y, month |-> 12, day |-> 1 + IF rest < 335 THEN 0 ELSE rest - 335]
  BY <1>1 DEF MonthDay
<1> QED BY <1>2
-----------------------------------------------------------------------------
(* The clock.                                                              *)
OfHour(units) == (MinutesInHour * SecondsInMinute) * units
OfMinute(units) == SecondsInMinute * units

\* A clock by remainders.
LEMMA ClockIs ==
  ASSUME NEW t \in Nat, NEW units \in Pos
  PROVE  /\ OfHour(units) \in Pos /\ OfMinute(units) \in Pos
         /\ OfHour(units) = MinutesInHour * OfMinute(units)
         /\ Clock(t, units) =
              [hour |-> t \div OfHour(units),
               minute |-> (t % OfHour(units)) \div OfMinute(units),
               second |-> ((t % OfHour(units)) % OfMinute(units)) \div units,
               part |-> ((t % OfHour(units)) % OfMinute(units)) % units]
<1> DEFINE h == OfHour(units)
           m == OfMinute(units)
           hours == t \div h
           rest == t % h
           minutes == rest \div m
           last == rest % m
<1>1. h \in Pos /\ m \in Pos /\ h = MinutesInHour * m
  BY ConstantsPos, MulPos DEF OfHour, OfMinute, Pos
<1>2. hours \in Nat /\ rest \in 0 .. h - 1 /\ t = hours * h + rest
  <2> HIDE DEF h, m
  <2> QED BY <1>1, DivSplit
<1>3. rest \in Nat
  BY <1>1, <1>2 DEF Pos
<1>4. minutes \in Nat /\ last \in 0 .. m - 1 /\ rest = minutes * m + last
  <2> HIDE DEF h, m, rest
  <2> QED BY <1>1, <1>3, DivSplit
<1>5. t - (hours * MinutesInHour * SecondsInMinute * units) = rest
  <2> HIDE DEF hours, rest
  <2> QED BY <1>1, <1>2, ConstantsPos DEF OfHour, Pos
<1>6. rest - (minutes * SecondsInMinute * units) = last
  <2> HIDE DEF minutes, last, rest
  <2> QED BY <1>3, <1>4, ConstantsPos DEF OfMinute, Pos
<1>7. Clock(t, units) = [hour |-> hours, minute |-> minutes, second |-> last \div units, part |-> last % units]
  BY <1>5, <1>6 DEF Clock, OfHour, OfMinute
<1> QED BY <1>1, <1>7

\* In units so many times as fine a clock shows the same, and in its last part
\* what is left of the coarser unit, so many times as much and a little more.
LEMMA ClockFine ==
  ASSUME NEW t \in Nat, NEW units \in Pos, NEW K \in Pos, NEW s \in 0 .. K - 1
  PROVE  Clock(t * K + s, units * K) = [Clock(t, units) EXCEPT !.part = @ * K + s]
<1> DEFINE h == OfHour(units)
           m == OfMinute(units)
           rest == t % h
           last == rest % m
<1>1. /\ h \in Pos /\ m \in Pos /\ units * K \in Pos /\ OfHour(units * K) = h * K
      /\ OfMinute(units * K) = m * K /\ t * K + s \in Nat
  BY ConstantsPos, MulPos, ClockIs DEF OfHour, OfMinute, Pos
<1>2. rest \in Nat /\ last \in Nat
  <2>1. rest \in 0 .. h - 1
    BY <1>1, DivSplit
  <2>2. rest \in Nat
    BY <1>1, <2>1 DEF Pos
  <2>3. last \in 0 .. m - 1
    <3> HIDE DEF rest, m
    <3> QED BY <1>1, <2>2, DivSplit
  <2> QED BY <1>1, <2>2, <2>3 DEF Pos
<1>3. (t * K + s) \div (h * K) = t \div h /\ (t * K + s) % (h * K) = rest * K + s
  BY <1>1, DivFine
<1>4. (rest * K + s) \div (m * K) = rest \div m /\ (rest * K + s) % (m * K) = last * K + s
  <2> HIDE DEF rest, m
  <2> QED BY <1>1, <1>2, DivFine
<1>5. (last * K + s) \div (units * K) = last \div units /\ (last * K + s) % (units * K) = (last % units) * K + s
  <2> HIDE DEF last
  <2> QED BY <1>1, <1>2, DivFine
<1>6. Clock(t, units) = [hour |-> t \div h, minute |-> rest \div m,
                         second |-> last \div units, part |-> last % units]
  BY ClockIs
<1>7. Clock(t * K + s, units * K) =
        [hour |-> (t * K + s) \div (h * K), minute |-> (rest * K + s) \div (m * K),
         second |-> (last * K + s) \div (units * K), part |-> (last * K + s) % (units * K)]
  <2> DEFINE fine == t * K + s
             U == units * K
  <2>1. fine \in Nat /\ U \in Pos
    BY <1>1
  <2>2. Clock(fine, U) = [hour |-> fine \div OfHour(U),
                          minute |-> (fine % OfHour(U)) \div OfMinute(U),
                          second |-> ((fine % OfHour(U)) % OfMinute(U)) \div U,
                          part |-> ((fine % OfHour(U)) % OfMinute(U)) % U]
    <3> HIDE DEF fine, U
    <3> QED BY <2>1, ClockIs
  <2> HIDE DEF h, m, rest, last
  <2> QED BY <1>1, <1>3, <1>4, <2>2
<1> HIDE DEF h, m, rest, last
<1> QED BY <1>3, <1>4, <1>5, <1>6, <1>7

\* What there is on a clock, within its radices, makes up the time it shows.
Told(clock, units) ==
  clock.part + units * (clock.second + SecondsInMinute * (clock.minute + MinutesInHour * clock.hour))
OnClock(clock, units) ==
  /\ clock.hour \in 0 .. HoursInDay - 1 /\ clock.minute \in 0 .. MinutesInHour - 1
  /\ clock.second \in 0 .. SecondsInMinute - 1 /\ clock.part \in 0 .. units - 1
  /\ clock = [hour |-> clock.hour, minute |-> clock.minute, second |-> clock.second,
              part |-> clock.part]

LEMMA ClockShows ==
  ASSUME NEW units \in Pos, NEW t \in Nat, t < HoursInDay * OfHour(units)
  PROVE  OnClock(Clock(t, units), units) /\ Told(Clock(t, units), units) = t
<1> DEFINE h == OfHour(units)
           m == OfMinute(units)
           hours == t \div h
           rest == t % h
           minutes == rest \div m
           last == rest % m
           seconds == last \div units
           part == last % units
<1>1. h \in Pos /\ m \in Pos /\ h = MinutesInHour * m /\ m = SecondsInMinute * units
  BY ClockIs DEF OfMinute
<1>2. hours \in Nat /\ rest \in 0 .. h - 1 /\ t = hours * h + rest
  <2> HIDE DEF h
  <2> QED BY <1>1, DivSplit
<1>3. rest \in Nat
  BY <1>1, <1>2 DEF Pos
<1>4. minutes \in Nat /\ last \in 0 .. m - 1 /\ rest = minutes * m + last
  <2> HIDE DEF m, rest
  <2> QED BY <1>1, <1>3, DivSplit
<1>5. last \in Nat
  BY <1>1, <1>4 DEF Pos
<1>6. seconds \in Nat /\ part \in 0 .. units - 1 /\ last = seconds * units + part
  <2> HIDE DEF last
  <2> QED BY <1>5, DivSplit
<1>7. Clock(t, units) = [hour |-> hours, minute |-> minutes, second |-> seconds, part |-> part]
  BY ClockIs
<1> HIDE DEF h, m, hours, rest, minutes, last, seconds, part
<1>8. ASSUME NEW n \in Nat, NEW q \in Nat, NEW b \in Pos, NEW r \in Nat, q * b + r < n * b
      PROVE  q < n
  <2> SUFFICES ASSUME n <= q PROVE FALSE
    BY DEF Pos
  <2>1. n * b <= q * b /\ n * b \in Nat /\ q * b \in Nat
    <3>1. b \in Nat
      BY DEF Pos
    <3> QED BY <3>1, MulMono
  <2>2. q * b + r < n * b
    BY <1>8
  <2> DEFINE x == q * b
             y == n * b
  <2>3. x \in Nat /\ y \in Nat /\ y <= x /\ x + r < y
    BY <2>1, <2>2
  <2> HIDE DEF x, y
  <2> QED BY <2>3
<1>9. hours < HoursInDay
  BY <1>1, <1>2, <1>3, <1>8, ConstantsPos DEF h, Pos
<1>10. minutes < MinutesInHour
  BY <1>1, <1>2, <1>3, <1>4, <1>5, <1>8, ConstantsPos DEF Pos
<1>11. seconds < SecondsInMinute
  <2>1. part \in Nat /\ seconds * units + part < SecondsInMinute * units
    BY <1>1, <1>4, <1>6, ConstantsPos DEF Pos
  <2> QED BY <1>6, <1>8, <2>1, ConstantsPos DEF Pos
<1>12. OnClock(Clock(t, units), units)
  <2>1. /\ hours \in 0 .. HoursInDay - 1 /\ minutes \in 0 .. MinutesInHour - 1
        /\ seconds \in 0 .. SecondsInMinute - 1
    BY <1>2, <1>4, <1>6, <1>9, <1>10, <1>11, ConstantsPos DEF Pos
  <2> QED BY <1>6, <1>7, <2>1 DEF OnClock
<1>13. Told(Clock(t, units), units) = part + units * (seconds + SecondsInMinute * (minutes + MinutesInHour * hours))
  BY <1>7 DEF Told
<1>14. part + units * (seconds + SecondsInMinute * (minutes + MinutesInHour * hours)) = t
  <2>1. part \in Nat /\ units \in Nat /\ seconds \in Nat /\ minutes \in Nat /\ hours \in Nat
        /\ SecondsInMinute \in Nat /\ MinutesInHour \in Nat /\ m \in Nat /\ h \in Nat
    BY <1>1, <1>2, <1>4, <1>6, ConstantsPos DEF Pos
  <2>2. m * (minutes + MinutesInHour * hours) = minutes * m + hours * h
    BY <1>1, <2>1
  <2>3. units * (SecondsInMinute * (minutes + MinutesInHour * hours)) = m * (minutes + MinutesInHour * hours)
    BY <1>1, <2>1
  <2>4. units * (seconds + SecondsInMinute * (minutes + MinutesInHour * hours))
          = seconds * units + units * (SecondsInMinute * (minutes + MinutesInHour * hours))
    BY <2>1
  <2> QED BY <1>2, <1>4, <1>6, <2>1, <2>2, <2>3, <2>4
<1> QED BY <1>12, <1>13, <1>14

-----------------------------------------------------------------------------
(* The three types, by the day and the time of day.                        *)
TicksInSecond == MillisInSecond * TicksInMilli

\* The date that is told of a day, and a clock of ticks in nanoseconds.
DateTold(days) == MonthDay(to_years(days)[1], to_years(days)[2])
InNanos(clock) == [clock EXCEPT !.part = @ * NanosInTick]

LEMMA Units ==
  /\ MillisInDay \in Pos /\ TicksInDay \in Pos /\ NanosInSecond \in Pos /\ TicksInSecond \in Pos
  /\ LastDay \in Pos /\ LastDay > 134774
  /\ MillisInDay = HoursInDay * OfHour(MillisInSecond)
  /\ TicksInDay = HoursInDay * OfHour(TicksInSecond)
  /\ TicksInDay = MillisInDay * TicksInMilli
  /\ NanosInSecond = TicksInSecond * NanosInTick
  /\ NanosInSecond \div NanosInTick = TicksInSecond
<1> USE ConstantsPos
<1>1. MillisInDay \in Pos /\ TicksInSecond \in Pos
  BY MulPos DEF MillisInDay, TicksInSecond
<1>2. TicksInDay \in Pos /\ NanosInSecond = TicksInSecond * NanosInTick /\ NanosInSecond \in Pos
  BY <1>1, MulPos DEF TicksInDay, NanosInSecond, TicksInSecond
<1>3. MillisInDay = HoursInDay * OfHour(MillisInSecond)
  BY DEF MillisInDay, OfHour, Pos
<1>4. TicksInDay = HoursInDay * OfHour(TicksInSecond)
  BY DEF TicksInDay, MillisInDay, OfHour, TicksInSecond, Pos
<1>5. (TicksInSecond * NanosInTick + 0) \div NanosInTick = TicksInSecond
  <2>1. TicksInSecond \in Nat /\ 0 \in 0 .. NanosInTick - 1
    BY <1>1 DEF Pos
  <2> QED BY <2>1, DivUnique
<1>6. NanosInSecond \div NanosInTick = TicksInSecond
  <2>1. TicksInSecond * NanosInTick + 0 = NanosInSecond
    BY <1>2 DEF Pos
  <2> QED BY <1>5, <2>1
<1>7. LastDay \in Pos /\ LastDay > 134774
  BY DEF LastDay, Pos
<1> QED BY <1>1, <1>2, <1>3, <1>4, <1>6, <1>7 DEF TicksInDay

\* A Filetime tells the date of its day and the clock of its time of day.
LEMMA NewIs ==
  ASSUME NEW t \in Nat
  PROVE  new(t) = [original |-> t,
                   parts |-> Parts(DateTold(t \div TicksInDay),
                                   InNanos(Clock(t % TicksInDay, TicksInSecond)))]
<1> DEFINE day == t \div TicksInDay
           tod == t % TicksInDay
<1>0. TicksInDay \in Pos /\ TicksInSecond \in Pos
  BY Units
<1>1. day \in Nat /\ tod \in Nat /\ t = day * TicksInDay + tod
  <2>1. day \in Nat /\ tod \in 0 .. TicksInDay - 1 /\ t = day * TicksInDay + tod
    BY <1>0, DivSplit
  <2> HIDE DEF day, tod
  <2> QED BY <1>0, <2>1 DEF Pos
<1>2. NanosInTick \in Pos /\ 0 \in 0 .. NanosInTick - 1
  BY ConstantsPos DEF Pos
<1>3. (t * NanosInTick + 0) \div (TicksInDay * NanosInTick) = day
  BY <1>0, <1>2, DivFine
<1>4. t * NanosInTick + 0 = t * NanosInTick
  BY <1>2 DEF Pos
<1>5. (t * NanosInTick) - (day * TicksInDay * NanosInTick) = tod * NanosInTick + 0
  <2>1. TicksInDay \in Nat /\ NanosInTick \in Nat
    BY <1>2, Units DEF Pos
  <2> HIDE DEF day, tod
  <2> QED BY <1>1, <2>1
<1>6. Clock(tod * NanosInTick + 0, TicksInSecond * NanosInTick)
        = [Clock(tod, TicksInSecond) EXCEPT !.part = @ * NanosInTick + 0]
  <2> HIDE DEF tod
  <2> QED BY <1>0, <1>1, <1>2, ClockFine
<1>7. [Clock(tod, TicksInSecond) EXCEPT !.part = @ * NanosInTick + 0] = InNanos(Clock(tod, TicksInSecond))
  <2> DEFINE clock == Clock(tod, TicksInSecond)
  <2>1. clock.part \in Nat
    <3>1. clock.part = ((tod % OfHour(TicksInSecond)) % OfMinute(TicksInSecond)) % TicksInSecond
      <4> HIDE DEF tod
      <4> QED BY <1>1, Units, ClockIs
    <3> DEFINE hour == OfHour(TicksInSecond)
               minute == OfMinute(TicksInSecond)
    <3>2. hour \in Pos /\ minute \in Pos /\ TicksInSecond \in Pos
      BY Units, ClockIs
    <3> HIDE DEF hour, minute, clock, tod
    <3>3. tod % hour \in Nat
      BY <1>1, <3>2, DivSplit DEF Pos
    <3>4. (tod % hour) % minute \in Nat
      BY <3>2, <3>3, DivSplit DEF Pos
    <3>5. ((tod % hour) % minute) % TicksInSecond \in Nat
      BY <3>2, <3>4, DivSplit, SMTT(60) DEF Pos
    <3> QED BY <3>1, <3>5 DEF hour, minute
  <2>2. clock.part * NanosInTick + 0 = clock.part * NanosInTick
    BY <1>2, <2>1 DEF Pos
  <2> HIDE DEF clock
  <2>3. [clock EXCEPT !.part = @ * NanosInTick + 0] = [clock EXCEPT !.part = @ * NanosInTick]
    BY <2>2
  <2> QED BY <2>3 DEF clock, InNanos
<1>8. new(t) = [original |-> t,
                parts |-> Parts(DateTold((t * NanosInTick) \div (TicksInDay * NanosInTick)),
                                Clock((t * NanosInTick)
                                        - (((t * NanosInTick) \div (TicksInDay * NanosInTick)) * TicksInDay * NanosInTick),
                                      NanosInSecond))]
  BY DEF new, DateTold
<1>9. NanosInSecond = TicksInSecond * NanosInTick
  BY Units
<1> HIDE DEF day, tod
<1>10. new(t) = [original |-> t, parts |-> Parts(DateTold(day), InNanos(Clock(tod, TicksInSecond)))]
  BY <1>3, <1>4, <1>5, <1>6, <1>7, <1>8, <1>9
<1> QED BY <1>10 DEF day, tod

\* A WinFiletime tells the date of its day and the clock of its millisecond.
LEMMA WinIs ==
  ASSUME NEW ticks \in Nat
  PROVE  /\ WinFiletime(ticks) = Parts(DateTold(ticks \div TicksInDay),
                                       Clock((ticks \div TicksInMilli) % MillisInDay, MillisInSecond))
         /\ ticks % TicksInDay = ((ticks \div TicksInMilli) % MillisInDay) * TicksInMilli + (ticks % TicksInMilli)
         /\ (ticks \div TicksInMilli) \div MillisInDay = ticks \div TicksInDay
<1> DEFINE millis == ticks \div TicksInMilli
           s == ticks % TicksInMilli
           days == millis \div MillisInDay
<1>1. millis \in Nat /\ s \in 0 .. TicksInMilli - 1 /\ ticks = millis * TicksInMilli + s
  BY ConstantsPos, DivSplit, SMTT(60)
<1>2. TicksInDay = MillisInDay * TicksInMilli /\ MillisInDay \in Pos /\ TicksInMilli \in Pos
  BY Units, ConstantsPos
<1>3. /\ (millis * TicksInMilli + s) \div (MillisInDay * TicksInMilli) = days
      /\ (millis * TicksInMilli + s) % (MillisInDay * TicksInMilli) = (millis % MillisInDay) * TicksInMilli + s
  <2> HIDE DEF millis, s
  <2> QED BY <1>1, <1>2, DivFine
<1>4. millis - (days * MillisInDay) = millis % MillisInDay
  <2> HIDE DEF millis
  <2> DEFINE left == millis % MillisInDay
  <2>1. days \in Nat /\ left \in 0 .. MillisInDay - 1 /\ millis = days * MillisInDay + left
    BY <1>1, <1>2, DivSplit
  <2>2. MillisInDay \in Nat
    BY <1>2 DEF Pos
  <2> HIDE DEF days, left
  <2>3. millis - (days * MillisInDay) = left
    BY <1>1, <2>1, <2>2
  <2> QED BY <2>3 DEF left
<1>5. WinFiletime(ticks) = Parts(DateTold(days), Clock(millis - (days * MillisInDay), MillisInSecond))
  BY DEF WinFiletime, DateTold
<1>6. ticks \div TicksInDay = days /\ ticks % TicksInDay = (millis % MillisInDay) * TicksInMilli + s
  <2> HIDE DEF millis, s, days
  <2> QED BY <1>1, <1>2, <1>3
<1> HIDE DEF millis, s, days
<1>7. WinFiletime(ticks) = Parts(DateTold(ticks \div TicksInDay), Clock(millis % MillisInDay, MillisInSecond))
  BY <1>4, <1>5, <1>6
<1> QED BY <1>6, <1>7 DEF millis, s, days

\* The days and the milliseconds a u64 of ticks reaches, rounded up or not.
LEMMA DaysReached ==
  ASSUME NEW t \in 0 .. Width - 1
  PROVE  /\ t \in Nat /\ t \div TicksInDay \in 0 .. LastDay
         /\ t % TicksInDay \in 0 .. TicksInDay - 1
         /\ t = (t \div TicksInDay) * TicksInDay + (t % TicksInDay)
         /\ (t + TicksInMilli - 1) \div TicksInMilli \in 0 .. LastDay * MillisInDay
<1>1. /\ TicksInDay \in Pos /\ TicksInMilli \in Pos /\ MillisInDay \in Pos /\ LastDay \in Pos
      /\ TicksInDay = MillisInDay * TicksInMilli
  BY Units, ConstantsPos
<1>2. t \in Nat /\ t < LastDay * TicksInDay
  <2>1. Width \in Nat /\ Width <= LastDay * TicksInDay
    BY FileTimesAssumption DEF LastDay
  <2> QED BY <1>1, <2>1 DEF Pos
<1>3. t \div TicksInDay \in Nat /\ t % TicksInDay \in 0 .. TicksInDay - 1
      /\ t = (t \div TicksInDay) * TicksInDay + (t % TicksInDay)
  BY <1>1, <1>2, DivSplit
<1> DEFINE day == t \div TicksInDay
           tod == t % TicksInDay
<1>4. day <= LastDay
  <2>1. day \in Nat /\ tod \in Nat /\ day * TicksInDay + tod < LastDay * TicksInDay
    BY <1>1, <1>2, <1>3 DEF Pos
  <2> HIDE DEF day, tod
  <2> QED BY <1>1, <2>1 DEF Pos
<1> DEFINE more == t + TicksInMilli - 1
           millis == more \div TicksInMilli
           left == more % TicksInMilli
<1>5. more \in Nat /\ more < LastDay * TicksInDay + TicksInMilli
  BY <1>1, <1>2 DEF Pos
<1>6. millis \in Nat /\ left \in 0 .. TicksInMilli - 1 /\ more = millis * TicksInMilli + left
  <2> HIDE DEF more
  <2> QED BY <1>1, <1>5, DivSplit
<1>7. millis <= LastDay * MillisInDay
  <2> DEFINE last == LastDay * MillisInDay
  <2>1. last \in Nat /\ LastDay * TicksInDay = last * TicksInMilli
    BY <1>1 DEF Pos
  <2> HIDE DEF more, millis, left, last
  <2>2. millis * TicksInMilli < (last + 1) * TicksInMilli
    BY <1>1, <1>5, <1>6, <2>1 DEF Pos
  <2> QED BY <1>1, <1>6, <2>1, <2>2 DEF Pos, last
<1> HIDE DEF more, day, tod
<1>8. millis \in 0 .. LastDay * MillisInDay
  <2>1. LastDay * MillisInDay \in Nat
    BY <1>1, MulPos DEF Pos
  <2> HIDE DEF millis
  <2> QED BY <1>6, <1>7, <2>1
<1>9. day \in 0 .. LastDay
  BY <1>1, <1>3, <1>4 DEF day, Pos
<1> HIDE DEF millis
<1> QED BY <1>2, <1>3, <1>8, <1>9 DEF day, millis, more

\* The year of a day, for each day that a u64 of ticks reaches.
LEMMA YearOf ==
  ASSUME NEW days \in 0 .. LastDay
  PROVE  \E y \in 1601 .. LastYear - 1 :
           /\ InYear(days, y) /\ y \in Nat
           /\ to_years(days) = <<y, Clipped(days - DaysBefore(y))>>
<1>1. days \in Nat /\ days <= LastDay
  BY Units DEF Pos
<1>2. PICK y \in 1601 .. LastYear - 1 : InYear(days, y)
  BY <1>1, YearExists
<1>3. DaysBefore(1601) = 0
  BY YearLength DEF DaysBefore
<1>4. days + DaysBefore(1601) = days
  BY <1>1, <1>3
<1>5. YearFrom(1601, days) = <<y, Clipped((days + DaysBefore(1601)) - DaysBefore(y))>>
  BY <1>1, <1>2, <1>4, YearIs
<1> QED BY <1>2, <1>4, <1>5 DEF to_years

\* From 1601 to 1970 there are so many days, and the two loops agree.
LEMMA UnixIs ==
  ASSUME NEW days \in Nat, days + 134774 \in 0 .. LastDay
  PROVE  to_years_unix(days) = to_years(days + 134774)
<1>1. DaysBefore(1970) = 134774
  BY DEF DaysBefore, LeapDays
<1>2. PICK y \in 1601 .. LastYear - 1 :
        /\ InYear(days + 134774, y) /\ y \in Nat
        /\ to_years(days + 134774) = <<y, Clipped((days + 134774) - DaysBefore(y))>>
  BY YearOf
<1>3. y >= 1970
  <2> SUFFICES ASSUME y < 1970 PROVE FALSE
    BY <1>2
  <2>1. DaysBefore(y + 1) <= DaysBefore(1970) /\ DaysBefore(y + 1) \in Int
    BY <1>2, YearsInOrder
  <2> QED BY <1>1, <1>2, <2>1 DEF InYear
<1>4. y \in 1970 .. LastYear - 1
  BY <1>2, <1>3
<1>5. YearFrom(1970, days) = <<y, Clipped((days + DaysBefore(1970)) - DaysBefore(y))>>
  BY <1>1, <1>2, <1>4, YearIs
<1> QED BY <1>1, <1>2, <1>5 DEF to_years_unix

\* A UnixTimestamp tells what a WinFiletime of the same millisecond does.
LEMMA UnixTells ==
  ASSUME NEW millis \in Nat, millis + UnixEpoch <= LastDay * MillisInDay
  PROVE  UnixTimestamp(millis) = WinFiletime((millis + UnixEpoch) * TicksInMilli)
<1> DEFINE days == millis \div MillisInDay
           left == millis % MillisInDay
           since == millis + UnixEpoch
<1>1. MillisInDay \in Pos /\ MillisInDay \in Nat /\ LastDay \in Nat /\ TicksInMilli \in Pos
      /\ 0 \in 0 .. TicksInMilli - 1 /\ TicksInMilli \in Nat
  BY Units, ConstantsPos DEF Pos
<1>2. days \in Nat /\ left \in 0 .. MillisInDay - 1 /\ millis = days * MillisInDay + left
  BY <1>1, DivSplit
<1>3. since \in Nat /\ since = (days + 134774) * MillisInDay + left
  <2> HIDE DEF days, left
  <2> QED BY <1>1, <1>2 DEF UnixEpoch
<1>4. since \div MillisInDay = days + 134774 /\ since % MillisInDay = left
  <2> DEFINE q == days + 134774
  <2>1. q \in Nat /\ since = q * MillisInDay + left
    BY <1>2, <1>3
  <2> HIDE DEF q, days, left, since
  <2>2. since \div MillisInDay = q /\ since % MillisInDay = left
    BY <1>1, <1>2, <2>1, DivUnique
  <2> QED BY <2>2 DEF q
<1>5. (since * TicksInMilli + 0) \div TicksInMilli = since /\ since * TicksInMilli + 0 = since * TicksInMilli
      /\ since * TicksInMilli \in Nat
  <2> HIDE DEF since
  <2>1. (since * TicksInMilli + 0) \div TicksInMilli = since
    BY <1>1, <1>3, DivUnique, SMTT(60)
  <2> QED BY <1>1, <1>3, <2>1
<1>6. days + 134774 \in 0 .. LastDay
  <2>1. since <= LastDay * MillisInDay
    OBVIOUS
  <2> HIDE DEF days, left, since
  <2>2. (days + 134774) * MillisInDay <= LastDay * MillisInDay
    BY <1>1, <1>2, <1>3, <2>1
  <2> QED BY <1>1, <1>2, <2>2 DEF Pos
<1> DEFINE ticks == since * TicksInMilli
<1>7. WinFiletime(ticks) = Parts(DateTold(days + 134774), Clock(left, MillisInSecond))
  <2> HIDE DEF days, left, since
  <2>1. ticks \div TicksInMilli = since /\ ticks \in Nat
    BY <1>5
  <2> HIDE DEF ticks
  <2>2. /\ WinFiletime(ticks) = Parts(DateTold(ticks \div TicksInDay),
                                      Clock((ticks \div TicksInMilli) % MillisInDay, MillisInSecond))
        /\ (ticks \div TicksInMilli) \div MillisInDay = ticks \div TicksInDay
    BY <2>1, WinIs
  <2> QED BY <1>4, <2>1, <2>2
<1>8. millis - (days * MillisInDay) = left
  <2> HIDE DEF days, left
  <2> QED BY <1>1, <1>2
<1>9. UnixTimestamp(millis) =
        Parts(MonthDay(to_years_unix(days)[1], to_years_unix(days)[2]),
              Clock(millis - (days * MillisInDay), MillisInSecond))
  BY DEF UnixTimestamp
<1>10. to_years_unix(days) = to_years(days + 134774)
  <2> HIDE DEF days
  <2> QED BY <1>2, <1>6, UnixIs
<1> HIDE DEF days, left
<1> QED BY <1>7, <1>8, <1>9, <1>10 DEF DateTold

\* To the millisecond, a Filetime tells what a WinFiletime of its ticks does.
LEMMA WinTells ==
  ASSUME NEW ticks \in 0 .. Width - 1
  PROVE  WinFiletime(ticks) = ToMillis(new(ticks).parts)
<1> DEFINE left == (ticks \div TicksInMilli) % MillisInDay
           s == ticks % TicksInMilli
           clock == Clock(left, MillisInSecond)
           fine == Clock(left * TicksInMilli + s, TicksInSecond)
           date == DateTold(ticks \div TicksInDay)
<1>1. /\ MillisInDay \in Pos /\ TicksInMilli \in Pos /\ NanosInTick \in Pos /\ MillisInSecond \in Pos
      /\ MillisInDay = HoursInDay * OfHour(MillisInSecond)
  BY Units, ConstantsPos
<1>2. ticks \in Nat
  BY DaysReached
<1>3. ticks \div TicksInMilli \in Nat /\ s \in 0 .. TicksInMilli - 1
  BY <1>1, <1>2, DivSplit
<1>4. left \in 0 .. MillisInDay - 1
  <2> DEFINE millis == ticks \div TicksInMilli
  <2>1. millis \in Nat
    BY <1>3
  <2> HIDE DEF millis
  <2>2. millis % MillisInDay \in 0 .. MillisInDay - 1
    BY <1>1, <2>1, DivSplit
  <2> QED BY <2>2 DEF millis
<1>5. left \in Nat /\ left < HoursInDay * OfHour(MillisInSecond)
  <2> HIDE DEF left
  <2> QED BY <1>1, <1>4 DEF Pos
<1>6. WinFiletime(ticks) = Parts(date, clock) /\ ticks % TicksInDay = left * TicksInMilli + s
  BY <1>2, WinIs
<1>7. new(ticks) = [original |-> ticks, parts |-> Parts(date, InNanos(fine))]
  <2>1. new(ticks) = [original |-> ticks,
                      parts |-> Parts(date, InNanos(Clock(ticks % TicksInDay, TicksInSecond)))]
    BY <1>2, NewIs
  <2> QED BY <1>6, <2>1
<1>8. fine = [clock EXCEPT !.part = @ * TicksInMilli + s]
  <2> HIDE DEF left, s
  <2>1. Clock(left * TicksInMilli + s, MillisInSecond * TicksInMilli)
          = [Clock(left, MillisInSecond) EXCEPT !.part = @ * TicksInMilli + s]
    BY <1>1, <1>3, <1>5, ClockFine
  <2> QED BY <2>1 DEF TicksInSecond
<1>9. OnClock(clock, MillisInSecond)
  <2> HIDE DEF left
  <2> QED BY <1>1, <1>5, ClockShows
<1> HIDE DEF left, s, clock, fine, date
<1>10. clock.part \in Nat
  BY <1>1, <1>9 DEF OnClock, Pos
<1> DEFINE part == clock.part * TicksInMilli + s
<1>11. fine = [hour |-> clock.hour, minute |-> clock.minute, second |-> clock.second, part |-> part]
  BY <1>8, <1>9 DEF OnClock
<1>12. (part * NanosInTick) \div (TicksInMilli * NanosInTick) = clock.part
  <2>1. part \in Nat /\ part \div TicksInMilli = clock.part
    <3>1. (clock.part * TicksInMilli + s) \div TicksInMilli = clock.part
      BY <1>1, <1>3, <1>10, DivUnique
    <3> QED BY <1>1, <1>3, <1>10, <3>1 DEF Pos
  <2> HIDE DEF part
  <2>2. (part * NanosInTick + 0) \div (TicksInMilli * NanosInTick) = part \div TicksInMilli
    <3>1. 0 \in 0 .. NanosInTick - 1
      BY <1>1 DEF Pos
    <3> QED BY <1>1, <2>1, <3>1, DivFine, ZenonT(60)
  <2>3. part * NanosInTick + 0 = part * NanosInTick
    BY <1>1, <2>1 DEF Pos
  <2> QED BY <2>1, <2>2, <2>3
<1> HIDE DEF part
<1>13. InNanos(fine) = [hour |-> clock.hour, minute |-> clock.minute, second |-> clock.second,
                        part |-> part * NanosInTick]
  BY <1>11 DEF InNanos
<1>14. ToMillis(Parts(date, InNanos(fine))) = Parts(date, clock)
  BY <1>12, <1>13 DEF ToMillis, Parts
<1> QED BY <1>6, <1>7, <1>14

\* The three types agree on every timestamp a u64 has.
LEMMA OneCalendarOf ==
  ASSUME time.original \in 0 .. Width - 1
  PROVE  OneCalendar
<1> DEFINE ticks == time.original
           millis == (ticks + TicksInMilli - 1) \div TicksInMilli
           u == filetime_to_unix_timestamp(ticks)
<1>1. MillisInDay \in Nat /\ LastDay \in Nat /\ LastDay > 134774 /\ UnixEpoch \in Nat
      /\ UnixEpoch <= LastDay * MillisInDay /\ TicksInMilli \in Nat
  <2>1. MillisInDay \in Nat /\ LastDay \in Nat /\ LastDay > 134774 /\ TicksInMilli \in Nat
    BY Units, ConstantsPos DEF Pos
  <2> QED BY <2>1, MulMono DEF UnixEpoch
<1>2. millis \in 0 .. LastDay * MillisInDay
  BY DaysReached
<1>3. u = IF millis < UnixEpoch THEN 0 ELSE millis - UnixEpoch
  BY DEF filetime_to_unix_timestamp
<1> HIDE DEF millis, u
<1>4. millis \in Nat /\ millis <= LastDay * MillisInDay
  BY <1>1, <1>2
<1>5. u \in Nat /\ u + UnixEpoch <= LastDay * MillisInDay
  BY <1>1, <1>3, <1>4
<1>6. u + UnixEpoch = IF millis < UnixEpoch THEN UnixEpoch ELSE millis
  BY <1>1, <1>3, <1>4
<1>7. UnixTimestamp(u) = WinFiletime((u + UnixEpoch) * TicksInMilli)
  BY <1>5, UnixTells
<1>8. (u + UnixEpoch) * TicksInMilli =
        IF millis < UnixEpoch THEN UnixEpoch * TicksInMilli ELSE millis * TicksInMilli
  BY <1>6
<1>9. WinFiletime(ticks) = ToMillis(new(ticks).parts)
  BY WinTells
<1>10. UnixTimestamp(filetime_to_unix_timestamp(ticks)) =
         WinFiletime(IF millis < UnixEpoch THEN UnixEpoch * TicksInMilli ELSE millis * TicksInMilli)
  BY <1>7, <1>8 DEF u
<1> QED BY <1>9, <1>10 DEF OneCalendar, millis

\* What duration_since tells of an instant that is near.
LEMMA ElapsedIs ==
  ASSUME NEW ticks \in Nat, NEW e \in Nat, Near(ticks, e)
  PROVE  Elapsed(ticks, e) = ticks * NanosInTick - e
<1> DEFINE at == ticks * NanosInTick
<1>1. NanosInTick \in Pos /\ Width \in Pos /\ at \in Nat
  BY ConstantsPos DEF Pos
<1>2. at - e \in 1 - Width .. Width - 1
  BY DEF Near
<1>3. duration_since(ticks, e) = IF e > at THEN [is |-> "Err", nanos |-> (e - at) % Width]
                                 ELSE [is |-> "Ok", nanos |-> (at - e) % Width]
  BY DEF duration_since
<1> HIDE DEF at
<1>4. \A x \in 0 .. Width - 1 : x % Width = x
  BY <1>1 DEF Pos
<1>5. CASE e > at
  <2>1. e - at \in 0 .. Width - 1
    BY <1>1, <1>2, <1>5 DEF Pos
  <2>2. duration_since(ticks, e) = [is |-> "Err", nanos |-> e - at]
    BY <1>3, <1>4, <1>5, <2>1
  <2>3. Elapsed(ticks, e) = -(e - at)
    BY <2>2 DEF Elapsed
  <2> QED BY <1>1, <2>3 DEF at
<1>6. CASE ~(e > at)
  <2>1. at - e \in 0 .. Width - 1
    BY <1>1, <1>2, <1>6 DEF Pos
  <2>2. duration_since(ticks, e) = [is |-> "Ok", nanos |-> at - e]
    BY <1>3, <1>4, <1>6, <2>1
  <2>3. Elapsed(ticks, e) = at - e
    BY <2>2 DEF Elapsed
  <2> QED BY <2>3 DEF at
<1> QED BY <1>5, <1>6
-----------------------------------------------------------------------------
(* A Filetime and what it is made of.                                      *)

\* The month that is told is the calendar's, and up to November so is the day,
\* from which the code finds the days back that were told.
LEMMA DateAgrees ==
  ASSUME NEW days \in 0 .. LastDay
  PROVE  LET date == DateTold(days)
         IN  /\ date.month = DateOf(days).month /\ date.month \in 1 .. 12
             /\ date.month # 12 =>
                  /\ date.year = DateOf(days).year /\ date.day = DateOf(days).day
                  /\ days_from_year(date.year) + acumulated_day_month(date.month, date.year)
                       + (date.day - 1) = days
<1>1. PICK y \in 1601 .. LastYear - 1 :
        /\ InYear(days, y) /\ y \in Nat
        /\ to_years(days) = <<y, Clipped(days - DaysBefore(y))>>
  BY YearOf
<1> DEFINE rest == days - DaysBefore(y)
           told == Clipped(rest)
<1>2. y >= 1 /\ y >= 1601 /\ y \in 1601 .. LastYear /\ days \in Nat
  BY <1>1, Units, ConstantsPos DEF Pos
<1>3. DaysBefore(y) \in Int /\ DaysBefore(y + 1) = DaysBefore(y) + IF is_leap_year(y) THEN 366 ELSE 365
  BY <1>2, YearLength
<1>4. rest \in 0 .. 364 + Leap(y) /\ days = DaysBefore(y) + rest /\ Leap(y) \in {0, 1}
  BY <1>1, <1>2, <1>3 DEF InYear, Leap
<1>5. DateTold(days) = MonthDay(y, told)
  BY <1>1 DEF DateTold
<1>6. days_from_year(y) = DaysBefore(y)
  BY <1>2, YearBegins
<1> HIDE DEF told
<1>7. PICK m \in 1 .. 12 : Before(y)[m] <= rest /\ rest < MonthEnds(y, m)
  <2> HIDE DEF rest
  <2> QED BY <1>2, <1>4, MonthExists
<1>8. DateOf(days) = [year |-> y, month |-> m, day |-> (rest - Before(y)[m]) + 1]
  BY <1>1, <1>2, <1>7, DateIs
<1> HIDE DEF rest
<1>9. \A n \in 1 .. 12 : Before(y)[n] \in Nat /\ MonthEnds(y, n) \in Nat
  BY <1>2, MonthsAre
<1>10. Before(y)[12] = 334 + Leap(y)
  BY BeforeIs
<1>11. CASE m # 12
  <2>1. m \in 1 .. 11 /\ MonthEnds(y, m) = Before(y)[m + 1] /\ Before(y)[m] \in Nat
    BY <1>9, <1>11 DEF MonthEnds
  <2>2. MonthEnds(y, m) <= Before(y)[12]
    BY <1>2, <2>1, MonthsAre
  <2>3. told = rest /\ rest \in Nat
    BY <1>4, <1>7, <1>9, <1>10, <2>2 DEF told, Clipped
  <2>4. MonthDay(y, told) = [year |-> y, month |-> m, day |-> 1 + (rest - Before(y)[m])]
    <3>1. rest < Before(y)[m + 1]
      BY <1>7, <2>1
    <3> QED BY <1>2, <1>7, <2>1, <2>3, <3>1, MonthDayIs
  <2>5. (rest - Before(y)[m]) + 1 = 1 + (rest - Before(y)[m])
    BY <2>1, <2>3
  <2>6. acumulated_day_month(m, y) = Before(y)[m]
    BY <2>1 DEF acumulated_day_month
  <2>7. DaysBefore(y) + Before(y)[m] + ((1 + (rest - Before(y)[m])) - 1) = days
    BY <1>3, <1>4, <2>1, <2>3
  <2> QED BY <1>5, <1>6, <1>8, <2>1, <2>4, <2>5, <2>6, <2>7
<1>12. CASE m = 12
  <2>1. told \in Nat /\ Before(y)[12] <= told
    BY <1>4, <1>7, <1>10, <1>12 DEF told, Clipped
  <2>2. MonthDay(y, told).month = 12
    BY <1>1, <2>1, DecemberIs
  <2> QED BY <1>5, <1>8, <1>12, <2>2
<1> QED BY <1>11, <1>12

\* A clock shows the time that is told by it.
LEMMA ClockBack ==
  ASSUME NEW units \in Pos, NEW clock, OnClock(clock, units)
  PROVE  /\ Told(clock, units) \in 0 .. (HoursInDay * OfHour(units)) - 1
         /\ Clock(Told(clock, units), units) = clock
<1> DEFINE h == OfHour(units)
           m == OfMinute(units)
           last == clock.second * units + clock.part
           rest == clock.minute * m + last
           t == clock.hour * h + rest
<1>1. /\ h \in Pos /\ m \in Pos /\ h = MinutesInHour * m /\ m = SecondsInMinute * units
      /\ HoursInDay \in Pos /\ MinutesInHour \in Pos /\ SecondsInMinute \in Pos
  BY ClockIs, ConstantsPos DEF OfMinute
<1>2. /\ clock.hour \in 0 .. HoursInDay - 1 /\ clock.minute \in 0 .. MinutesInHour - 1
      /\ clock.second \in 0 .. SecondsInMinute - 1 /\ clock.part \in 0 .. units - 1
      /\ clock = [hour |-> clock.hour, minute |-> clock.minute, second |-> clock.second,
                  part |-> clock.part]
  BY DEF OnClock
<1> HIDE DEF h, m
<1>3. ASSUME NEW n \in Pos, NEW b \in Pos, NEW q \in 0 .. n - 1, NEW r \in 0 .. b - 1
      PROVE  q * b + r \in 0 .. (n * b) - 1
  <2>1. q \in Nat /\ n - 1 \in Nat /\ b \in Nat /\ n \in Nat /\ q <= n - 1 /\ r \in Nat /\ r < b
    BY DEF Pos
  <2>2. q * b <= (n - 1) * b /\ q * b \in Nat /\ (n - 1) * b \in Nat
    BY <2>1, MulMono
  <2>3. (n - 1) * b = (n * b) - b /\ n * b \in Nat
    BY <2>1
  <2> DEFINE x == q * b
             y == n * b
  <2>4. x \in Nat /\ y \in Nat /\ x <= y - b
    BY <2>2, <2>3
  <2> HIDE DEF x, y
  <2>5. x + r \in 0 .. y - 1
    BY <2>1, <2>4
  <2> QED BY <2>5 DEF x, y
<1>4. last \in 0 .. m - 1
  BY <1>1, <1>2, <1>3
<1>5. last \div units = clock.second /\ last % units = clock.part
  BY <1>1, <1>2, DivUnique
<1> HIDE DEF last
<1>6. rest \in 0 .. h - 1
  BY <1>1, <1>2, <1>3, <1>4
<1>7. rest \div m = clock.minute /\ rest % m = last
  BY <1>1, <1>2, <1>4, DivUnique
<1> HIDE DEF rest
<1>8. t \in 0 .. (HoursInDay * h) - 1
  BY <1>1, <1>2, <1>3, <1>6
<1>9. t \div h = clock.hour /\ t % h = rest
  BY <1>1, <1>2, <1>6, DivUnique
<1> HIDE DEF t
<1>10. Told(clock, units) = t
  <2>1. /\ units \in Nat /\ SecondsInMinute \in Nat /\ MinutesInHour \in Nat /\ m \in Nat /\ h \in Nat
        /\ clock.part \in Nat /\ clock.second \in Nat /\ clock.minute \in Nat /\ clock.hour \in Nat
    BY <1>1, <1>2 DEF Pos
  <2>2. m * (clock.minute + MinutesInHour * clock.hour) = clock.minute * m + clock.hour * h
    BY <1>1, <2>1
  <2>3. units * (SecondsInMinute * (clock.minute + MinutesInHour * clock.hour))
          = m * (clock.minute + MinutesInHour * clock.hour)
    BY <1>1, <2>1
  <2>4. units * (clock.second + SecondsInMinute * (clock.minute + MinutesInHour * clock.hour))
          = clock.second * units + units * (SecondsInMinute * (clock.minute + MinutesInHour * clock.hour))
    BY <2>1
  <2> QED BY <2>1, <2>2, <2>3, <2>4 DEF Told, t, rest, last
<1>11. t \in Nat
  <2>1. h \in Nat /\ HoursInDay \in Nat
    BY <1>1 DEF Pos
  <2> QED BY <1>8, <2>1
<1>12. Clock(t, units) = [hour |-> t \div h, minute |-> (t % h) \div m,
                          second |-> ((t % h) % m) \div units, part |-> ((t % h) % m) % units]
  BY <1>11, ClockIs DEF h, m
<1> QED BY <1>2, <1>5, <1>7, <1>8, <1>9, <1>10, <1>12 DEF h

\* What a clock of nanoseconds is in ticks.
InTicks(clock) == [clock EXCEPT !.part = @ \div NanosInTick]

LEMMA InTicksFits ==
  ASSUME NEW clock, OnClock(clock, NanosInSecond)
  PROVE  OnClock(InTicks(clock), TicksInSecond)
<1>1. NanosInSecond = TicksInSecond * NanosInTick /\ TicksInSecond \in Pos /\ NanosInTick \in Pos
      /\ NanosInSecond \in Pos
  BY Units, ConstantsPos
<1>2. clock.part \in Nat /\ clock.part < TicksInSecond * NanosInTick
  BY <1>1 DEF OnClock, Pos
<1> DEFINE q == clock.part \div NanosInTick
           r == clock.part % NanosInTick
<1>3. q \in Nat /\ r \in 0 .. NanosInTick - 1 /\ clock.part = q * NanosInTick + r
  BY <1>1, <1>2, DivSplit
<1> HIDE DEF q, r
<1>4. q < TicksInSecond
  <2> SUFFICES ASSUME TicksInSecond <= q PROVE FALSE
    BY <1>1, <1>3 DEF Pos
  <2>1. TicksInSecond * NanosInTick <= q * NanosInTick /\ TicksInSecond * NanosInTick \in Nat
        /\ q * NanosInTick \in Nat
    BY <1>1, <1>3, MulMono DEF Pos
  <2> DEFINE x == TicksInSecond * NanosInTick
             y == q * NanosInTick
  <2>2. x \in Nat /\ y \in Nat /\ x <= y /\ clock.part < x /\ clock.part = y + r
    BY <1>2, <1>3, <2>1
  <2> HIDE DEF x, y
  <2> QED BY <1>1, <1>3, <2>2 DEF Pos
<1>5. q \in 0 .. TicksInSecond - 1
  BY <1>1, <1>3, <1>4 DEF Pos
<1>6. InTicks(clock) = [hour |-> clock.hour, minute |-> clock.minute, second |-> clock.second, part |-> q]
  BY DEF OnClock, InTicks, q
<1> QED BY <1>5, <1>6 DEF OnClock

\* Of a date up to November and a clock, the ticks of the day and of the clock.
LEMMA YmdIs ==
  ASSUME NEW days \in 0 .. LastDay, NEW clock, OnClock(clock, NanosInSecond),
         DateTold(days).month # 12
  PROVE  LET p == Parts(DateTold(days), clock)
         IN  with_ymd_and_hms(p) =
               [original |-> days * TicksInDay + Told(InTicks(clock), TicksInSecond), parts |-> p]
<1> DEFINE date == DateTold(days)
           p == Parts(date, clock)
           q == clock.part \div NanosInTick
           seconds == clock.second + SecondsInMinute *
                        (clock.minute + MinutesInHour * (clock.hour + HoursInDay * days))
<1>1. days_from_year(date.year) + acumulated_day_month(date.month, date.year) + (date.day - 1) = days
  BY DateAgrees
<1>2. with_ymd_and_hms(p) = [original |-> q + (seconds * MillisInSecond * TicksInMilli), parts |-> p]
  <2> HIDE DEF date
  <2>1. /\ p.year = date.year /\ p.month = date.month /\ p.day = date.day /\ p.hour = clock.hour
        /\ p.minute = clock.minute /\ p.second = clock.second /\ p.nanos = clock.part
    BY DEF Parts
  <2> HIDE DEF p
  <2> QED BY <1>1, <2>1 DEF with_ymd_and_hms
<1>3. OnClock(InTicks(clock), TicksInSecond)
  BY InTicksFits
<1>4. /\ InTicks(clock).part = q /\ InTicks(clock).hour = clock.hour
      /\ InTicks(clock).minute = clock.minute /\ InTicks(clock).second = clock.second
  BY DEF InTicks, OnClock
<1>5. q \in Nat
  <2> HIDE DEF q
  <2> QED BY <1>3, <1>4, Units DEF OnClock, Pos
<1>6. /\ clock.hour \in Nat /\ clock.minute \in Nat /\ clock.second \in Nat /\ days \in Nat
      /\ HoursInDay \in Nat /\ MinutesInHour \in Nat /\ SecondsInMinute \in Nat
      /\ MillisInSecond \in Nat /\ TicksInMilli \in Nat /\ TicksInSecond \in Nat
      /\ TicksInSecond = MillisInSecond * TicksInMilli /\ TicksInDay \in Nat
  BY Units, ConstantsPos DEF OnClock, Pos, TicksInSecond
<1> DEFINE shown == clock.second + SecondsInMinute * (clock.minute + MinutesInHour * clock.hour)
           inDay == HoursInDay * MinutesInHour * SecondsInMinute
<1>7. seconds = shown + inDay * days
  <2>1. MinutesInHour * (clock.hour + HoursInDay * days)
          = MinutesInHour * clock.hour + (HoursInDay * MinutesInHour) * days
    BY <1>6
  <2>2. SecondsInMinute * ((clock.minute + MinutesInHour * clock.hour) + (HoursInDay * MinutesInHour) * days)
          = SecondsInMinute * (clock.minute + MinutesInHour * clock.hour) + inDay * days
    BY <1>6
  <2>3. clock.minute + MinutesInHour * (clock.hour + HoursInDay * days)
          = (clock.minute + MinutesInHour * clock.hour) + (HoursInDay * MinutesInHour) * days
    BY <1>6, <2>1
  <2> QED BY <1>6, <2>2, <2>3
<1>8. TicksInDay = inDay * TicksInSecond /\ inDay \in Nat /\ shown \in Nat
  BY <1>6 DEF TicksInDay, MillisInDay
<1> HIDE DEF seconds, inDay
<1>9. seconds * MillisInSecond * TicksInMilli = seconds * TicksInSecond
  <2>1. seconds \in Nat
    <3> HIDE DEF shown
    <3> QED BY <1>6, <1>7, <1>8
  <2> QED BY <1>6, <2>1
<1>10. Told(InTicks(clock), TicksInSecond) = q + TicksInSecond * shown
  BY <1>4 DEF Told
<1> HIDE DEF shown, q
<1>11. q + seconds * TicksInSecond = days * TicksInDay + (q + TicksInSecond * shown)
  BY <1>5, <1>6, <1>7, <1>8
<1>12. with_ymd_and_hms(p) = [original |-> q + seconds * TicksInSecond, parts |-> p]
  <2> HIDE DEF p, date
  <2> QED BY <1>2, <1>9
<1> HIDE DEF p
<1>13. with_ymd_and_hms(p) =
         [original |-> days * TicksInDay + Told(InTicks(clock), TicksInSecond), parts |-> p]
  BY <1>10, <1>11, <1>12
<1> QED BY <1>13 DEF p, date

\* What a Filetime tells, by its day and its time of day.
LEMMA NewShows ==
  ASSUME NEW t \in 0 .. Width - 1
  PROVE  LET clock == Clock(t % TicksInDay, TicksInSecond)
         IN  /\ new(t) = [original |-> t, parts |-> Parts(DateTold(t \div TicksInDay), InNanos(clock))]
             /\ OnClock(clock, TicksInSecond) /\ OnClock(InNanos(clock), NanosInSecond)
             /\ InTicks(InNanos(clock)) = clock
             /\ Told(clock, TicksInSecond) = t % TicksInDay
<1> DEFINE tod == t % TicksInDay
           clock == Clock(tod, TicksInSecond)
<1>1. t \in Nat /\ tod \in 0 .. TicksInDay - 1
  BY DaysReached
<1>2. /\ TicksInSecond \in Pos /\ TicksInDay \in Pos /\ NanosInTick \in Pos
      /\ TicksInDay = HoursInDay * OfHour(TicksInSecond)
      /\ NanosInSecond = TicksInSecond * NanosInTick
  BY Units, ConstantsPos
<1>3. new(t) = [original |-> t, parts |-> Parts(DateTold(t \div TicksInDay), InNanos(clock))]
  BY <1>1, NewIs
<1> HIDE DEF tod
<1>4. OnClock(clock, TicksInSecond) /\ Told(clock, TicksInSecond) = tod
  <2>1. tod \in Nat /\ tod < HoursInDay * OfHour(TicksInSecond)
    BY <1>1, <1>2 DEF Pos
  <2> QED BY <1>2, <2>1, ClockShows
<1> HIDE DEF clock
<1> DEFINE p == clock.part * NanosInTick
<1>5. clock.part \in Nat /\ clock.part <= TicksInSecond - 1
  BY <1>2, <1>4 DEF OnClock, Pos
<1>6. p \in 0 .. NanosInSecond - 1
  <2>1. p <= (TicksInSecond - 1) * NanosInTick /\ p \in Nat
    BY <1>2, <1>5, MulMono DEF Pos
  <2>2. (TicksInSecond - 1) * NanosInTick = NanosInSecond - NanosInTick /\ NanosInSecond \in Nat
    BY <1>2 DEF Pos
  <2> QED BY <1>2, <2>1, <2>2 DEF Pos
<1>7. InNanos(clock) = [hour |-> clock.hour, minute |-> clock.minute, second |-> clock.second, part |-> p]
  BY <1>4 DEF OnClock, InNanos
<1>8. p \div NanosInTick = clock.part
  <2>1. (clock.part * NanosInTick + 0) \div NanosInTick = clock.part
    <3>1. 0 \in 0 .. NanosInTick - 1
      BY <1>2 DEF Pos
    <3> QED BY <1>2, <1>5, <3>1, DivUnique
  <2>2. clock.part * NanosInTick + 0 = clock.part * NanosInTick
    BY <1>2, <1>5 DEF Pos
  <2> QED BY <2>1, <2>2
<1> HIDE DEF p
<1>9. OnClock(InNanos(clock), NanosInSecond)
  BY <1>4, <1>6, <1>7 DEF OnClock
<1>10. InTicks(InNanos(clock)) = clock
  <2>1. InTicks(InNanos(clock)) =
          [hour |-> clock.hour, minute |-> clock.minute, second |-> clock.second,
           part |-> p \div NanosInTick]
    BY <1>7 DEF InTicks
  <2>2. clock = [hour |-> clock.hour, minute |-> clock.minute, second |-> clock.second,
                 part |-> clock.part]
    BY <1>4 DEF OnClock
  <2> QED BY <1>8, <2>1, <2>2
<1> QED BY <1>3, <1>4, <1>9, <1>10 DEF tod, clock

\* A Filetime is found again from the parts it tells.
LEMMA RebuiltOf ==
  ASSUME time.original \in 0 .. Width - 1
  PROVE  Rebuilt
<1> SUFFICES ASSUME DateOf(Day).month # 12
             PROVE  with_ymd_and_hms(new(time.original).parts).original = new(time.original).original
  BY DEF Rebuilt
<1> DEFINE clock == Clock(time.original % TicksInDay, TicksInSecond)
           fine == InNanos(clock)
<1>1. /\ new(time.original) = [original |-> time.original, parts |-> Parts(DateTold(Day), fine)]
      /\ OnClock(fine, NanosInSecond) /\ InTicks(fine) = clock
      /\ Told(clock, TicksInSecond) = time.original % TicksInDay
  BY NewShows DEF Day
<1>2. Day \in 0 .. LastDay /\ time.original = Day * TicksInDay + (time.original % TicksInDay)
  BY DaysReached DEF Day
<1>3. DateTold(Day).month # 12
  BY <1>2, DateAgrees
<1> HIDE DEF clock, fine
<1>4. with_ymd_and_hms(Parts(DateTold(Day), fine)).original =
        Day * TicksInDay + Told(InTicks(fine), TicksInSecond)
  BY <1>1, <1>2, <1>3, YmdIs
<1> QED BY <1>1, <1>2, <1>4
-----------------------------------------------------------------------------
(* What every sequence of operations keeps.                                *)
TimeOn(parts) ==
  [hour |-> parts.hour, minute |-> parts.minute, second |-> parts.second, part |-> parts.nanos]

\* The parts are those of a day that a u64 of ticks reaches, and on a clock.
Dated(parts) ==
  /\ OnClock(TimeOn(parts), NanosInSecond)
  /\ \E days \in 0 .. LastDay : parts = Parts(DateTold(days), TimeOn(parts))

(* The timestamp is one a u64 has, and the parts are told by it, but for   *)
(* the month that += leaves, or the timestamp is made of them.             *)
IInv ==
  /\ time.original \in 0 .. Width - 1
  /\ \/ made = "new" /\ time = new(time.original) /\ Dated(time.parts)
     \/ made = "ymd" /\ time = with_ymd_and_hms(time.parts) /\ Dated(time.parts)
     \/ /\ made = "assigned"
        /\ time.parts = [new(time.original).parts EXCEPT !.month = time.parts.month]

\* What new makes, of any timestamp.
LEMMA NewKeeps ==
  ASSUME NEW t \in 0 .. Width - 1
  PROVE  /\ new(t).original = t /\ new(t) = new(new(t).original) /\ Dated(new(t).parts)
         /\ DOMAIN new(t) = {"original", "parts"}
<1> DEFINE clock == InNanos(Clock(t % TicksInDay, TicksInSecond))
           date == DateTold(t \div TicksInDay)
<1>1. new(t) = [original |-> t, parts |-> Parts(date, clock)] /\ OnClock(clock, NanosInSecond)
  BY NewShows
<1>2. t \div TicksInDay \in 0 .. LastDay
  BY DaysReached
<1> HIDE DEF clock
<1>3. TimeOn(Parts(date, clock)) = clock
  <2> HIDE DEF date
  <2> QED BY <1>1 DEF OnClock, TimeOn, Parts
<1>4. Dated(Parts(date, clock))
  BY <1>1, <1>2, <1>3 DEF Dated
<1> HIDE DEF date
<1> QED BY <1>1, <1>4

\* The timestamp that + and += come to, and that - does.
LEMMA LaterIs ==
  ASSUME time.original \in Nat, NEW d \in Durations
  PROVE  \E t \in 0 .. Width - 1 : Later(d) = new(t)
<1> DEFINE x == (time.original * NanosInTick + d) \div NanosInTick
<1>1. x \in Nat
  <2>1. time.original * NanosInTick + d \in Nat
    BY FileTimesAssumption
  <2> QED BY <2>1, ConstantsPos, DivSplit, SMTT(60)
<1> HIDE DEF x
<1>2. x % Width \in 0 .. Width - 1
  BY <1>1, ConstantsPos, DivSplit, SMTT(60)
<1>3. Later(d) = new(x % Width)
  BY DEF Later, x
<1> QED BY <1>2, <1>3

LEMMA EarlierIs ==
  ASSUME time.original \in 0 .. Width - 1, NEW d \in Durations, d <= time.original * NanosInTick
  PROVE  (time.original * NanosInTick - d) \div NanosInTick \in 0 .. Width - 1
<1> DEFINE x == (time.original * NanosInTick) - d
           q == x \div NanosInTick
           r == x % NanosInTick
<1>1. NanosInTick \in Pos /\ time.original \in Nat /\ Width \in Nat /\ d \in Nat
  BY FileTimesAssumption DEF Pos
<1>2. x \in Nat /\ x <= time.original * NanosInTick
  BY <1>1 DEF Pos
<1>3. q \in Nat /\ r \in 0 .. NanosInTick - 1 /\ x = q * NanosInTick + r
  <2> HIDE DEF x
  <2> QED BY <1>1, <1>2, DivSplit
<1> HIDE DEF x, q, r
<1>4. q * NanosInTick <= time.original * NanosInTick
  BY <1>1, <1>2, <1>3 DEF Pos
<1>5. q <= time.original
  BY <1>1, <1>3, <1>4 DEF Pos
<1>6. q \in 0 .. Width - 1
  BY <1>1, <1>3, <1>5
<1> QED BY <1>6 DEF q, x

\* The timestamp of a date and a clock is not before 1601.
LEMMA YmdKeeps ==
  ASSUME NEW parts, Dated(parts)
  PROVE  /\ with_ymd_and_hms(parts).original \in Nat /\ with_ymd_and_hms(parts).parts = parts
         /\ with_ymd_and_hms(parts) = with_ymd_and_hms(with_ymd_and_hms(parts).parts)
<1> DEFINE clock == TimeOn(parts)
<1>1. PICK days \in 0 .. LastDay : parts = Parts(DateTold(days), clock)
  BY DEF Dated
<1>2. OnClock(clock, NanosInSecond)
  BY DEF Dated
<1> DEFINE date == DateTold(days)
<1>3. /\ parts.year = date.year /\ parts.month = date.month /\ parts.day = date.day
      /\ parts.hour = clock.hour /\ parts.minute = clock.minute /\ parts.second = clock.second
      /\ parts.nanos = clock.part
  <2>1. parts = Parts(date, clock)
    BY <1>1
  <2> HIDE DEF date, clock
  <2> QED BY <2>1 DEF Parts
<1>4. date.year \in 1601 .. LastYear /\ date.month \in 1 .. 12 /\ date.day - 1 \in Nat
  <2>1. PICK y \in 1601 .. LastYear - 1 :
          /\ InYear(days, y) /\ y \in Nat
          /\ to_years(days) = <<y, Clipped(days - DaysBefore(y))>>
    BY YearOf
  <2> DEFINE rest == Clipped(days - DaysBefore(y))
             later == {p \in 1 .. 12 : Before(y)[p] > rest}
             month == IF later = {} THEN 12 ELSE Min(later) - 1
             before == IF later = {} THEN 335 ELSE Before(y)[month]
  <2>2. date = [year |-> y, month |-> month, day |-> 1 + IF rest < before THEN 0 ELSE rest - before]
    BY <2>1 DEF DateTold, MonthDay
  <2>3. date.month \in 1 .. 12
    BY DateAgrees
  <2>4. y \in 1601 .. LastYear /\ y >= 1
    BY <2>1, ConstantsPos DEF Pos
  <2>5. rest \in Int
    <3>1. DaysBefore(y) \in Int
      BY <2>1, <2>4, YearLength
    <3> QED BY <3>1 DEF Clipped
  <2>6. before \in Nat
    <3>1. month \in 1 .. 12
      <4> HIDE DEF month, later, rest, before
      <4> QED BY <2>2, <2>3
    <3>2. Before(y)[month] \in Nat
      <4> HIDE DEF month
      <4> QED BY <2>1, <2>4, <3>1, MonthsAre
    <3> HIDE DEF month, later
    <3> QED BY <3>2
  <2> HIDE DEF rest, later, month, before
  <2>7. (1 + IF rest < before THEN 0 ELSE rest - before) - 1 \in Nat
    BY <2>5, <2>6
  <2> HIDE DEF date
  <2> QED BY <2>2, <2>3, <2>4, <2>7
<1> HIDE DEF date
<1>5. days_from_year(parts.year) \in Nat
  <2>1. DaysBefore(date.year) - DaysBefore(1601) >= 365 * (date.year - 1601) /\ DaysBefore(1601) = 0
        /\ DaysBefore(date.year) \in Int
    <3>1. PICK y \in Nat : y = date.year /\ y >= 1601 /\ y >= 1
      BY <1>4
    <3>2. DaysBefore(y) - DaysBefore(1601) >= 365 * (y - 1601)
      BY <3>1, YearsLength
    <3>3. DaysBefore(1601) = 0
      BY DEF DaysBefore, LeapDays
    <3> QED BY <3>1, <3>2, <3>3, YearLength
  <2>2. days_from_year(date.year) = DaysBefore(date.year)
    BY <1>4, YearBegins
  <2> QED BY <1>3, <1>4, <2>1, <2>2
<1>6. acumulated_day_month(parts.month, parts.year) \in Nat
  <2>1. \A m \in 1 .. 12 : Before(date.year)[m] \in Nat
    <3>1. date.year \in Nat /\ date.year >= 1
      BY <1>4
    <3> QED BY <3>1, MonthsAre
  <2> QED BY <1>3, <1>4, <2>1 DEF acumulated_day_month
<1> DEFINE count == days_from_year(parts.year) + acumulated_day_month(parts.month, parts.year) + (parts.day - 1)
           seconds == parts.second + SecondsInMinute *
                        (parts.minute + MinutesInHour * (parts.hour + HoursInDay * count))
<1>7. with_ymd_and_hms(parts) =
        [original |-> (parts.nanos \div NanosInTick) + (seconds * MillisInSecond * TicksInMilli),
         parts |-> parts]
  BY DEF with_ymd_and_hms
<1>8. count \in Nat
  BY <1>3, <1>4, <1>5, <1>6
<1> HIDE DEF count
<1>9. /\ parts.hour \in Nat /\ parts.minute \in Nat /\ parts.second \in Nat /\ parts.nanos \in Nat
      /\ SecondsInMinute \in Nat /\ MinutesInHour \in Nat /\ HoursInDay \in Nat
      /\ MillisInSecond \in Nat /\ TicksInMilli \in Nat
  BY <1>2, <1>3, Units, ConstantsPos DEF OnClock, Pos
<1>10. seconds \in Nat
  <2>1. parts.hour + HoursInDay * count \in Nat
    BY <1>8, <1>9
  <2> DEFINE hours == parts.hour + HoursInDay * count
             minutes == parts.minute + MinutesInHour * hours
  <2> HIDE DEF hours
  <2>2. minutes \in Nat
    BY <1>9, <2>1 DEF hours
  <2> HIDE DEF minutes
  <2>3. parts.second + SecondsInMinute * minutes \in Nat
    BY <1>9, <2>2
  <2> QED BY <2>3 DEF minutes, hours
<1> HIDE DEF seconds
<1>11. (parts.nanos \div NanosInTick) + (seconds * MillisInSecond * TicksInMilli) \in Nat
  <2>1. parts.nanos \div NanosInTick \in Nat
    <3>1. \A n \in Nat : n \div NanosInTick \in Nat
      BY ConstantsPos, DivSplit, SMTT(60)
    <3> QED BY <1>9, <3>1
  <2>2. seconds * MillisInSecond * TicksInMilli \in Nat
    BY <1>9, <1>10
  <2> QED BY <2>1, <2>2
<1> QED BY <1>7, <1>11

\* A Filetime of new, whatever it replaces.
LEMMA NewAgain ==
  ASSUME NEW t \in 0 .. Width - 1, time' = new(t), made' = "new"
  PROVE  IInv'
<1>1. new(t).original = t /\ new(t) = new(new(t).original) /\ Dated(new(t).parts)
  BY NewKeeps
<1>2. time'.original \in 0 .. Width - 1 /\ time' = new(time'.original) /\ Dated(time'.parts)
  BY <1>1
<1> QED BY <1>2 DEF IInv

\* A date keeps with another clock.
LEMMA DatedAgain ==
  ASSUME NEW parts, Dated(parts), NEW c \in Clocks
  PROVE  Dated([n \in DOMAIN parts |-> IF n \in DOMAIN c THEN c[n] ELSE parts[n]])
<1> DEFINE clock == TimeOn(parts)
           again == [n \in DOMAIN parts |-> IF n \in DOMAIN c THEN c[n] ELSE parts[n]]
           now == TimeOn(again)
<1>1. PICK days \in 0 .. LastDay : parts = Parts(DateTold(days), clock)
  BY DEF Dated
<1> DEFINE date == DateTold(days)
<1>2. parts = [year |-> date.year, month |-> date.month, day |-> date.day, hour |-> clock.hour,
               minute |-> clock.minute, second |-> clock.second, nanos |-> clock.part]
  <2>1. parts = Parts(date, clock)
    BY <1>1
  <2> HIDE DEF date, clock
  <2> QED BY <2>1 DEF Parts
<1>3. OnClock(clock, NanosInSecond)
  BY DEF Dated
<1>4. /\ "year" \notin DOMAIN c /\ "month" \notin DOMAIN c /\ "day" \notin DOMAIN c
      /\ "hour" \in DOMAIN c => c.hour \in 0 .. HoursInDay - 1
      /\ "minute" \in DOMAIN c => c.minute \in 0 .. MinutesInHour - 1
      /\ "second" \in DOMAIN c => c.second \in 0 .. SecondsInMinute - 1
      /\ "nanos" \in DOMAIN c => c.nanos \in 0 .. NanosInSecond - 1
  <2>1. \A n \in DOMAIN c : n \in {"hour", "minute", "second", "nanos"} /\ c[n] \in 0 .. Radix[n] - 1
    BY FileTimesAssumption DEF Radix
  <2>2. /\ Radix["hour"] = HoursInDay /\ Radix["minute"] = MinutesInHour
        /\ Radix["second"] = SecondsInMinute /\ Radix["nanos"] = NanosInSecond
    BY DEF Radix
  <2> QED BY <2>1, <2>2
<1> HIDE DEF date, clock
<1>5. again = [year |-> date.year, month |-> date.month, day |-> date.day,
               hour |-> IF "hour" \in DOMAIN c THEN c.hour ELSE clock.hour,
               minute |-> IF "minute" \in DOMAIN c THEN c.minute ELSE clock.minute,
               second |-> IF "second" \in DOMAIN c THEN c.second ELSE clock.second,
               nanos |-> IF "nanos" \in DOMAIN c THEN c.nanos ELSE clock.part]
  BY <1>2, <1>4
<1> HIDE DEF again
<1>6. now = [hour |-> again.hour, minute |-> again.minute, second |-> again.second, part |-> again.nanos]
  BY DEF TimeOn
<1>7. OnClock(now, NanosInSecond)
  <2>1. /\ again.hour \in 0 .. HoursInDay - 1 /\ again.minute \in 0 .. MinutesInHour - 1
        /\ again.second \in 0 .. SecondsInMinute - 1 /\ again.nanos \in 0 .. NanosInSecond - 1
    BY <1>3, <1>4, <1>5 DEF OnClock
  <2> QED BY <1>6, <2>1 DEF OnClock
<1>8. again = Parts(date, now)
  BY <1>5, <1>6 DEF Parts
<1> HIDE DEF now
<1>9. \E x \in 0 .. LastDay : again = Parts(DateTold(x), now)
  BY <1>8 DEF date
<1> QED BY <1>7, <1>9 DEF Dated, now, again

\* Every operation keeps the invariant.
LEMMA IInvKept == IInv /\ [Next]_vars => IInv'
<1> SUFFICES ASSUME IInv, [Next]_vars PROVE IInv'
  OBVIOUS
<1>1. time.original \in 0 .. Width - 1 /\ time.original \in Nat
  BY DEF IInv
<1>2. CASE UNCHANGED vars
  BY <1>2 DEF IInv, vars
<1>3. ASSUME NEW c \in Clocks, WithYmd(c) PROVE IInv'
  <2> DEFINE parts == [n \in DOMAIN time.parts |-> IF n \in DOMAIN c THEN c[n] ELSE time.parts[n]]
             ft == with_ymd_and_hms(parts)
  <2>1. ft.original < Width /\ time' = ft /\ made' = "ymd" /\ made # "assigned"
    BY <1>3 DEF WithYmd
  <2>2. Dated(time.parts)
    BY <2>1 DEF IInv
  <2>3. Dated(parts)
    BY <2>2, DatedAgain
  <2> HIDE DEF parts
  <2>4. ft.original \in Nat /\ ft.parts = parts /\ ft = with_ymd_and_hms(ft.parts)
    BY <2>3, YmdKeeps
  <2>5. ft.original \in 0 .. Width - 1
    BY <2>1, <2>4, ConstantsPos DEF Pos
  <2> HIDE DEF ft
  <2>6. time'.original \in 0 .. Width - 1 /\ time' = with_ymd_and_hms(time'.parts) /\ Dated(time'.parts)
    BY <2>1, <2>3, <2>4, <2>5
  <2> QED BY <2>1, <2>6 DEF IInv
<1>4. ASSUME NEW d \in Durations, Add(d) PROVE IInv'
  <2>1. PICK t \in 0 .. Width - 1 : Later(d) = new(t)
    BY <1>1, LaterIs
  <2> QED BY <1>4, <2>1, NewAgain DEF Add
<1>5. ASSUME NEW d \in Durations, AddAssign(d) PROVE IInv'
  <2>1. PICK t \in 0 .. Width - 1 : Later(d) = new(t)
    BY <1>1, LaterIs
  <2> DEFINE month == time.parts.month
  <2>2. time' = [original |-> new(t).original, parts |-> [new(t).parts EXCEPT !.month = month]]
        /\ made' = "assigned"
    BY <1>5, <2>1 DEF AddAssign
  <2>3. new(t).original = t
    BY NewKeeps
  <2>4. "month" \in DOMAIN new(t).parts
    BY <1>1, NewShows DEF Parts
  <2> HIDE DEF month
  <2>5. time'.original = t /\ time'.parts = [new(t).parts EXCEPT !.month = month]
        /\ time'.parts.month = month
    BY <2>2, <2>3, <2>4
  <2> QED BY <2>2, <2>5 DEF IInv
<1>6. ASSUME NEW d \in Durations, Sub(d) PROVE IInv'
  <2>1. (time.original * NanosInTick - d) \div NanosInTick \in 0 .. Width - 1
    BY <1>1, <1>6, EarlierIs DEF Sub
  <2> QED BY <1>6, <2>1, NewAgain DEF Sub
<1>7. ASSUME NEW d \in Durations, SubUnderflow(d) PROVE IInv'
  <2>1. PICK t \in Wraps : time' = new(t) /\ made' = "new"
    BY <1>7 DEF SubUnderflow
  <2>2. t \in 0 .. Width - 1
    BY FileTimesAssumption
  <2> QED BY <2>1, <2>2, NewAgain
<1> QED BY <1>2, <1>3, <1>4, <1>5, <1>6, <1>7 DEF Next

\* A Filetime begins as new makes it of a timestamp.
LEMMA IInvInit == Init => IInv
<1> SUFFICES ASSUME Init PROVE IInv
  OBVIOUS
<1>1. PICK t \in Starts : time = new(t) /\ made = "new"
  BY DEF Init
<1>2. t \in 0 .. Width - 1
  BY FileTimesAssumption
<1>3. new(t).original = t /\ Dated(new(t).parts)
  BY <1>2, NewKeeps
<1> QED BY <1>1, <1>2, <1>3 DEF IInv

\* What PartsFollow says of the day and the time of day, by their clock.
LEMMA PartsFollowIf ==
  ASSUME NEW days, NEW clock, Day = days, Clock(TimeOfDay, TicksInSecond) = clock,
         LET date == DateOf(days)
         IN  (date.month # 12 /\ ~(made = "ymd" /\ time.parts.month = 12)) =>
               /\ time.parts.year = date.year /\ time.parts.day = date.day
               /\ made # "assigned" => time.parts.month = date.month
               /\ time.parts.hour = clock.hour /\ time.parts.minute = clock.minute
               /\ time.parts.second = clock.second
               /\ time.parts.nanos \div NanosInTick = clock.part
  PROVE  PartsFollow
<1>1. NanosInSecond \div NanosInTick = TicksInSecond
  BY Units
<1>2. [ClockTold(time.parts) EXCEPT !.nanos = @ \div NanosInTick] =
        [hour |-> time.parts.hour, minute |-> time.parts.minute, second |-> time.parts.second,
         nanos |-> time.parts.nanos \div NanosInTick]
  <2> DEFINE p == time.parts
             told == [hour |-> p.hour, minute |-> p.minute, second |-> p.second, nanos |-> p.nanos]
  <2>1. ClockTold(p) = told
    BY DEF ClockTold
  <2>2. [told EXCEPT !.nanos = @ \div NanosInTick] =
          [hour |-> p.hour, minute |-> p.minute, second |-> p.second, nanos |-> p.nanos \div NanosInTick]
    OBVIOUS
  <2> QED BY <2>1, <2>2
<1> QED BY <1>1, <1>2 DEF PartsFollow

\* The invariant has the parts follow the timestamp.
LEMMA PartsFollowOf == IInv => PartsFollow
<1> SUFFICES ASSUME IInv PROVE PartsFollow
  OBVIOUS
<1> DEFINE shown == Clock(TimeOfDay, TicksInSecond)
<1>1. /\ time.original \in 0 .. Width - 1
      /\ Day \in 0 .. LastDay /\ TimeOfDay \in 0 .. TicksInDay - 1
      /\ time.original = Day * TicksInDay + TimeOfDay
  BY DaysReached DEF IInv, Day, TimeOfDay
<1>2. /\ new(time.original).parts = Parts(DateTold(Day), InNanos(shown))
      /\ OnClock(InNanos(shown), NanosInSecond) /\ InTicks(InNanos(shown)) = shown
  BY <1>1, NewShows DEF Day, TimeOfDay
<1>3. DateOf(Day).month # 12 =>
        /\ DateTold(Day).year = DateOf(Day).year /\ DateTold(Day).day = DateOf(Day).day
        /\ DateTold(Day).month = DateOf(Day).month
  BY <1>1, DateAgrees
<1> HIDE DEF shown
<1>4. ASSUME time.parts = [new(time.original).parts EXCEPT !.month = time.parts.month],
             made = "assigned" \/ time.parts.month = DateTold(Day).month
      PROVE  PartsFollow
  <2> DEFINE clock == InNanos(shown)
             p == Parts(DateTold(Day), clock)
  <2>1. clock.part \div NanosInTick = shown.part /\ clock.hour = shown.hour
        /\ clock.minute = shown.minute /\ clock.second = shown.second
    <3>1. /\ InTicks(clock).part = clock.part \div NanosInTick /\ InTicks(clock).hour = clock.hour
          /\ InTicks(clock).minute = clock.minute /\ InTicks(clock).second = clock.second
      BY <1>2 DEF InTicks, OnClock
    <3> QED BY <1>2, <3>1
  <2> HIDE DEF clock
  <2>2. /\ time.parts.year = DateTold(Day).year /\ time.parts.day = DateTold(Day).day
        /\ time.parts.hour = clock.hour /\ time.parts.minute = clock.minute
        /\ time.parts.second = clock.second /\ time.parts.nanos = clock.part
    <3>1. time.parts = [p EXCEPT !.month = time.parts.month]
      BY <1>2, <1>4 DEF clock
    <3> QED BY <3>1 DEF Parts
  <2> QED BY <1>3, <1>4, <2>1, <2>2, PartsFollowIf DEF shown
<1>5. CASE made = "assigned"
  BY <1>4, <1>5 DEF IInv
<1>6. CASE made = "new"
  <2>1. time = new(time.original)
    BY <1>6 DEF IInv
  <2>2. time.parts = Parts(DateTold(Day), InNanos(shown))
    BY <1>2, <2>1
  <2>3. time.parts.month = DateTold(Day).month
    BY <2>2 DEF Parts
  <2>4. time.parts = [time.parts EXCEPT !.month = time.parts.month]
    BY <2>2 DEF Parts
  <2> QED BY <1>4, <2>1, <2>3, <2>4
<1>7. CASE made = "ymd" /\ time.parts.month # 12
  <2> DEFINE clock == TimeOn(time.parts)
             ticks == Told(InTicks(clock), TicksInSecond)
  <2>1. time = with_ymd_and_hms(time.parts) /\ OnClock(clock, NanosInSecond)
    BY <1>7 DEF IInv, Dated
  <2>2. PICK days \in 0 .. LastDay : time.parts = Parts(DateTold(days), clock)
    BY <1>7 DEF IInv, Dated
  <2>3. DateTold(days).month # 12 /\ DateTold(days).month = time.parts.month
        /\ DateTold(days).year = time.parts.year /\ DateTold(days).day = time.parts.day
    BY <1>7, <2>2 DEF Parts
  <2> HIDE DEF clock
  <2>4. time.original = days * TicksInDay + ticks
    <3>1. with_ymd_and_hms(Parts(DateTold(days), clock)).original = days * TicksInDay + ticks
      BY <2>1, <2>3, YmdIs
    <3> QED BY <2>1, <2>2, <3>1
  <2>5. OnClock(InTicks(clock), TicksInSecond)
    BY <2>1, InTicksFits
  <2>6. ticks \in 0 .. TicksInDay - 1 /\ Clock(ticks, TicksInSecond) = InTicks(clock)
    BY <2>5, ClockBack, Units
  <2>7. Day = days /\ TimeOfDay = ticks
    <3>1. TicksInDay \in Pos /\ days \in Nat
      BY Units
    <3> HIDE DEF ticks
    <3>2. (days * TicksInDay + ticks) \div TicksInDay = days /\ (days * TicksInDay + ticks) % TicksInDay = ticks
      BY <2>6, <3>1, DivUnique
    <3> QED BY <2>4, <3>2 DEF Day, TimeOfDay
  <2>8. /\ InTicks(clock).part = clock.part \div NanosInTick /\ InTicks(clock).hour = clock.hour
        /\ InTicks(clock).minute = clock.minute /\ InTicks(clock).second = clock.second
    BY <2>1 DEF InTicks, OnClock
  <2>9. /\ time.parts.hour = clock.hour /\ time.parts.minute = clock.minute
        /\ time.parts.second = clock.second /\ time.parts.nanos = clock.part
    BY DEF TimeOn, clock
  <2>10. DateTold(days).year = DateOf(days).year /\ DateTold(days).day = DateOf(days).day
         /\ DateTold(days).month = DateOf(days).month
    BY <1>3, <2>3, DateAgrees
  <2> HIDE DEF ticks
  <2> QED BY <2>3, <2>6, <2>7, <2>8, <2>9, <2>10, PartsFollowIf
<1>8. CASE made = "ymd" /\ time.parts.month = 12
  BY <1>8, PartsFollowIf
<1>9. made \in {"new", "ymd", "assigned"}
  BY DEF IInv
<1> QED BY <1>5, <1>6, <1>7, <1>8, <1>9
-----------------------------------------------------------------------------
(* However often a Filetime is made, added to and taken from, its timestamp *)
(* and its parts are made one of the other (Filetime, time.rs).            *)
THEOREM FileTimesInvariant == Spec => []IInv
  BY IInvInit, IInvKept, PTL DEF Spec

(* The date and the clock a Filetime tells are those of its timestamp, but *)
(* for December and for the month += leaves.                               *)
THEOREM PartsFollowAlways == Spec => []PartsFollow
  BY FileTimesInvariant, PartsFollowOf, PTL

(* Filetime, WinFiletime and UnixTimestamp tell one date and clock of the  *)
(* same instant.                                                           *)
THEOREM OneCalendarAlways == Spec => []OneCalendar
<1>1. IInv => OneCalendar
  BY OneCalendarOf DEF IInv
<1> QED BY <1>1, FileTimesInvariant, PTL

(* with_ymd_and_hms of the parts a Filetime tells is equal to it.          *)
THEOREM RebuiltAlways == Spec => []Rebuilt
<1>1. IInv => Rebuilt
  BY RebuiltOf DEF IInv
<1> QED BY <1>1, FileTimesInvariant, PTL

\* To what a duration moves a count of nanoseconds that is then cut to ticks.
LEMMA Rounded ==
  ASSUME NEW ticks \in Nat, NEW d \in Int, ticks * NanosInTick + d >= 0
  PROVE  LET q == (ticks * NanosInTick + d) \div NanosInTick
         IN  q \in Nat /\ q * NanosInTick - ticks * NanosInTick \in d - NanosInTick + 1 .. d
<1> DEFINE at == ticks * NanosInTick
           x == at + d
           q == x \div NanosInTick
<1>1. NanosInTick \in Pos /\ at \in Nat /\ x \in Nat
  BY ConstantsPos DEF Pos
<1> HIDE DEF at, x
<1>2. q \in Nat /\ x % NanosInTick \in 0 .. NanosInTick - 1 /\ x = q * NanosInTick + (x % NanosInTick)
  BY <1>1, DivSplit
<1> HIDE DEF q
<1> DEFINE qn == q * NanosInTick
<1>3. qn \in Int
  BY <1>1, <1>2 DEF Pos
<1>4. x = qn + (x % NanosInTick)
  BY <1>2
<1> HIDE DEF qn
<1>5. qn - at \in d - NanosInTick + 1 .. d
  BY <1>1, <1>2, <1>3, <1>4 DEF x, Pos
<1> QED BY <1>2, <1>5 DEF q, x, at, qn

\* Of two timestamps near an instant, the times elapsed lie as far apart.
LEMMA ElapsedApart ==
  ASSUME NEW a \in Nat, NEW b \in Nat, NEW e \in Nat, Near(a, e), Near(b, e)
  PROVE  Elapsed(b, e) - Elapsed(a, e) = b * NanosInTick - a * NanosInTick
<1>1. a * NanosInTick \in Nat /\ b * NanosInTick \in Nat
  BY ConstantsPos DEF Pos
<1>2. /\ Elapsed(a, e) = a * NanosInTick - e
      /\ Elapsed(b, e) = b * NanosInTick - e
  BY ElapsedIs
<1> DEFINE an == a * NanosInTick
           bn == b * NanosInTick
<1> HIDE DEF an, bn
<1>3. (bn - e) - (an - e) = bn - an
  BY <1>1 DEF an, bn
<1> QED BY <1>2, <1>3 DEF an, bn

\* What + and += come to, unless they go past the last timestamp.
LEMMA AddMoves ==
  ASSUME time.original \in Nat, NEW d \in Nat, Add(d) \/ AddAssign(d),
         (time.original * NanosInTick + d) \div NanosInTick < Width
  PROVE  /\ time'.original \in Nat
         /\ time'.original * NanosInTick - time.original * NanosInTick \in d - NanosInTick + 1 .. d
<1> DEFINE x == (time.original * NanosInTick + d) \div NanosInTick
<1>1. time.original * NanosInTick + d >= 0
  BY ConstantsPos DEF Pos
<1>2. /\ x \in Nat
      /\ x * NanosInTick - time.original * NanosInTick \in d - NanosInTick + 1 .. d
  BY <1>1, Rounded
<1>3. x < Width
  OBVIOUS
<1>4. Later(d).original = x % Width
  <2>1. Later(d) = new(x % Width)
    BY DEF Later
  <2> HIDE DEF x
  <2> QED BY <2>1 DEF new
<1>5. time'.original = Later(d).original
  BY DEF Add, AddAssign
<1> HIDE DEF x
<1>6. x % Width = x
  BY <1>2, <1>3, ConstantsPos DEF Pos
<1> QED BY <1>2, <1>4, <1>5, <1>6

LEMMA SubMoves ==
  ASSUME time.original \in Nat, NEW d \in Nat, Sub(d)
  PROVE  /\ time'.original \in Nat
         /\ time.original * NanosInTick - time'.original * NanosInTick \in d .. d + NanosInTick - 1
<1> DEFINE at == time.original * NanosInTick
           x == (at - d) \div NanosInTick
           back == at + (-d)
<1>1. at \in Nat /\ d <= at /\ NanosInTick \in Nat
  BY ConstantsPos DEF Sub, Pos
<1>2. time'.original = x
  <2>1. time' = new(x)
    BY DEF Sub
  <2> HIDE DEF x
  <2> QED BY <2>1 DEF new
<1> HIDE DEF at
<1>3. back = at - d /\ back >= 0 /\ -d \in Int
  BY <1>1
<1>4. x \in Nat /\ x * NanosInTick - at \in (-d) - NanosInTick + 1 .. -d
  <2> HIDE DEF x
  <2> QED BY <1>3, Rounded DEF x, at, back
<1> DEFINE xn == x * NanosInTick
<1>5. xn \in Int
  BY <1>1, <1>4
<1> HIDE DEF x
<1>6. xn - at \in (-d) - NanosInTick + 1 .. -d
  BY <1>4
<1> HIDE DEF xn
<1>7. at - xn \in d .. d + NanosInTick - 1
  BY <1>1, <1>5, <1>6
<1> QED BY <1>2, <1>4, <1>7 DEF at, xn

(* What is added to a Filetime or taken from it changes what duration_since *)
(* tells of any instant by as much, to the tick, within 2^64 nanoseconds.  *)
THEOREM ElapsedMovesAlways == Spec => ElapsedMoves
<1> DEFINE Grows(d) ==
             \A e \in Instants :
               Near(time.original, e) /\ Near(time'.original, e) =>
                 Elapsed(time'.original, e) - Elapsed(time.original, e) \in d - NanosInTick + 1 .. d
           Shrinks(d) ==
             \A e \in Instants :
               Near(time.original, e) /\ Near(time'.original, e) =>
                 Elapsed(time.original, e) - Elapsed(time'.original, e) \in d .. d + NanosInTick - 1
           Moves ==
             \A d \in Durations :
               /\ /\ Add(d) \/ AddAssign(d)
                  /\ (time.original * NanosInTick + d) \div NanosInTick < Width
                  => Grows(d)
               /\ Sub(d) => Shrinks(d)
<1>1. ASSUME IInv, NEW d \in Durations
      PROVE  time.original \in Nat /\ d \in Nat /\ Instants \subseteq Nat
  BY <1>1, FileTimesAssumption DEF IInv
<1>2. ASSUME IInv, NEW d \in Durations, Add(d) \/ AddAssign(d),
             (time.original * NanosInTick + d) \div NanosInTick < Width
      PROVE  Grows(d)
  <2>1. /\ time'.original \in Nat
        /\ time'.original * NanosInTick - time.original * NanosInTick \in d - NanosInTick + 1 .. d
    BY <1>1, <1>2, AddMoves
  <2> QED BY <1>1, <1>2, <2>1, ElapsedApart
<1>3. ASSUME IInv, NEW d \in Durations, Sub(d)
      PROVE  Shrinks(d)
  <2>1. /\ time'.original \in Nat
        /\ time.original * NanosInTick - time'.original * NanosInTick \in d .. d + NanosInTick - 1
    BY <1>1, <1>3, SubMoves
  <2> QED BY <1>1, <1>3, <2>1, ElapsedApart
<1>4. IInv => Moves
  BY <1>2, <1>3
<1>5. [](IInv) => [][Moves]_vars
  <2>1. IInv => [Moves]_vars
    BY <1>4
  <2> QED BY <2>1, PTL
<1> QED BY <1>5, FileTimesInvariant, PTL DEF ElapsedMoves
=============================================================================
