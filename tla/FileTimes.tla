------------------------------ MODULE FileTimes -------------------------------
(***************************************************************************)
(* src/utils/time.rs: an instant as Windows counts it, in ticks since      *)
(* 1601, and the date and clock that Filetime keeps beside it, WinFiletime *)
(* computes when asked and UnixTimestamp computes from 1970.               *)
(* Leap years and months are the code's; a day is cut in parts so few that *)
(* four centuries of ticks fit TLC's integers, by radices that differ, so  *)
(* that one taken for the other is seen.                                   *)
(* A definition X_<bug> before a definition X is X with a plausible bug.   *)
(***************************************************************************)
EXTENDS Integers, Sequences, FiniteSetsExt

CONSTANTS
  HoursInDay, MinutesInHour, SecondsInMinute, MillisInSecond,  \* 24, 60, 60, 1000
  TicksInMilli,  \* 10 000
  NanosInTick,   \* 100
  Width,         \* how many numbers a u64 has
  Starts,        \* timestamps to begin with
  Wraps,         \* some that a subtraction below 1601 may give
  Clocks,        \* what with_ymd_and_hms is given for the clock
  Durations,     \* in nanoseconds
  Instants,      \* of a SystemTime, in nanoseconds from 1970
  LastYear,      \* the last year a u16 has
  MaxSteps       \* bound of the model: operations on one Filetime

MillisInDay == HoursInDay * MinutesInHour * SecondsInMinute * MillisInSecond
TicksInDay == MillisInDay * TicksInMilli
NanosInSecond == MillisInSecond * TicksInMilli * NanosInTick

\* How many of each there are on a clock.
Radix == [hour |-> HoursInDay, minute |-> MinutesInHour, second |-> SecondsInMinute,
          nanos |-> NanosInSecond]

\* A u64 of ticks ends in the year 60056, a u16 of years in 65535.
ASSUME FileTimesAssumption ==
  /\ {HoursInDay, MinutesInHour, SecondsInMinute, MillisInSecond, TicksInMilli,
      NanosInTick, Width, LastYear} \subseteq Nat \ {0}
  /\ Starts \cup Wraps \subseteq 0 .. Width - 1 /\ Durations \cup Instants \subseteq Nat
  /\ MaxSteps \in Nat
  /\ \A c \in Clocks : \A n \in DOMAIN c : n \in DOMAIN Radix /\ c[n] \in 0 .. Radix[n] - 1
  /\ LastYear > 1971 /\ Width <= 365 * (LastYear - 1602) * TicksInDay

VARIABLES
  time,   \* a Filetime
  made,   \* what made it: "new", "ymd" or "assigned"
  steps

vars == <<time, made, steps>>
-----------------------------------------------------------------------------
is_leap_year(year) ==
  \/ year % 4 = 0 /\ year % 100 # 0
  \/ year % 100 = 0 /\ year % 400 = 0

LeapsTo == [year \in 1600 .. LastYear |-> Cardinality({y \in 1601 .. year : is_leap_year(y)})]

\* The loops of to_years and to_years_unix, started in `first`: what is left of
\* the days when the test at the head is made in `year`, and the year and the
\* days with which either that test or the `break` ends them.
Left(first, days, year) == days - 365 * (year - first) - (LeapsTo[year] - LeapsTo[first])
Breaks(first, days, year) == year > first /\ Left(first, days, year - 1) - 365 < 365
YearFrom(first, days) ==
  LET within == {y \in first + days \div 366 - 1 .. first + days \div 365 : y >= first}
      year == Min({y \in within : Left(first, days, y) < 365 \/ Breaks(first, days, y)})
  IN  IF Breaks(first, days, year) THEN <<year, Left(first, days, year - 1) - 365>>
      ELSE <<year, Left(first, days, year)>>
to_years(days) == YearFrom(1601, days)

to_years_unix_NoLeap(days) == <<1970 + days \div 365, days % 365>>
to_years_unix(days) == YearFrom(1970, days)

days_from_year(year) ==
  IF year <= 1601 THEN 0 ELSE 365 * (year - 1601) + LeapsTo[year - 1]

\* The days of the year before each month.
Before(year) ==
  IF is_leap_year(year) THEN <<0, 31, 60, 91, 121, 152, 182, 213, 244, 274, 305, 335>>
  ELSE <<0, 31, 59, 90, 120, 151, 181, 212, 243, 273, 304, 334>>

acumulated_day_month_Next(month, year) ==
  IF month >= 12 THEN IF is_leap_year(year) THEN 366 ELSE 365
  ELSE Before(year)[month + 1]
acumulated_day_month(month, year) ==
  IF month >= 12 THEN IF is_leap_year(year) THEN 366 ELSE 365
  ELSE Before(year)[month]

\* The month is the one before the first that begins later; from December on
\* none does.
MonthDay(year, rest) ==
  LET later == {p \in 1 .. 12 : Before(year)[p] > rest}
      month == IF later = {} THEN 12 ELSE Min(later) - 1
      acumulated == IF later = {} THEN 335 ELSE Before(year)[month]
  IN  [year |-> year, month |-> month,
       day |-> 1 + IF rest < acumulated THEN 0 ELSE rest - acumulated]

\* What a part of a day is on the clock, counted in units of which a second has
\* so many.
Clock(part, units) ==
  LET hours == part \div (MinutesInHour * SecondsInMinute * units)
      rest == part - hours * MinutesInHour * SecondsInMinute * units
      minutes == rest \div (SecondsInMinute * units)
      last == rest - minutes * SecondsInMinute * units
  IN  [hour |-> hours, minute |-> minutes, second |-> last \div units,
       part |-> last % units]

Parts(date, clock) ==
  [year |-> date.year, month |-> date.month, day |-> date.day, hour |-> clock.hour,
   minute |-> clock.minute, second |-> clock.second, nanos |-> clock.part]
-----------------------------------------------------------------------------
\* Filetime::new
new(timestamp) ==
  LET nanos == timestamp * NanosInTick
      days == nanos \div (TicksInDay * NanosInTick)
      year == to_years(days)
  IN  [original |-> timestamp,
       parts |-> Parts(MonthDay(year[1], year[2]),
                       Clock(nanos - days * TicksInDay * NanosInTick, NanosInSecond))]

\* Filetime::with_ymd_and_hms
with_ymd_and_hms(p) ==
  LET days == days_from_year(p.year) + acumulated_day_month(p.month, p.year) + p.day - 1
      seconds == p.second + SecondsInMinute * (p.minute + MinutesInHour * (p.hour + HoursInDay * days))
  IN  [original |-> p.nanos \div NanosInTick + seconds * MillisInSecond * TicksInMilli,
       parts |-> p]

\* WinFiletime: its accessors, and its Debug form.
WinFiletime(ticks) ==
  LET millis == ticks \div TicksInMilli
      days == millis \div MillisInDay
      year == to_years(days)
  IN  Parts(MonthDay(year[1], year[2]), Clock(millis - days * MillisInDay, MillisInSecond))

UnixTimestamp(millis) ==
  LET days == millis \div MillisInDay
      year == to_years_unix(days)
  IN  Parts(MonthDay(year[1], year[2]), Clock(millis - days * MillisInDay, MillisInSecond))

\* 11644473600000 ms: from 1601 to 1970.
UnixEpoch == 134774 * MillisInDay

filetime_to_unix_timestamp(ticks) ==
  LET millis == (ticks + TicksInMilli - 1) \div TicksInMilli
  IN  IF millis < UnixEpoch THEN 0 ELSE millis - UnixEpoch

\* duration_since, of an instant counted in nanoseconds from 1970; the answer is
\* cast to a u64.
duration_since_Unsigned(ticks, nanos) ==
  IF nanos < 0 THEN [is |-> "Err", nanos |-> -nanos]
  ELSE [is |-> "Ok", nanos |-> (ticks * NanosInTick - nanos) % Width]
duration_since(ticks, nanos) ==
  IF nanos < 0 THEN [is |-> "Err", nanos |-> -nanos]
  ELSE IF nanos > ticks * NanosInTick
       THEN [is |-> "Err", nanos |-> (nanos - ticks * NanosInTick) % Width]
  ELSE [is |-> "Ok", nanos |-> (ticks * NanosInTick - nanos) % Width]
-----------------------------------------------------------------------------
Init == /\ \E t \in Starts : time = new(t)
        /\ made = "new" /\ steps = 0

Continues == steps < MaxSteps /\ steps' = steps + 1

\* A Filetime is made of a date that exists, one that another tells, and a clock;
\* of those a u64 counts.
WithYmd(c) ==
  /\ Continues /\ made # "assigned"
  /\ LET ft == with_ymd_and_hms([n \in DOMAIN time.parts |->
                  IF n \in DOMAIN c THEN c[n] ELSE time.parts[n]])
     IN  ft.original < Width /\ time' = ft
  /\ made' = "ymd"

Later(d) == new(((time.original * NanosInTick + d) \div NanosInTick) % Width)

Add(d) ==
  /\ Continues
  /\ time' = Later(d) /\ made' = "new"

AddAssign_Date(d) ==
  /\ Continues
  /\ time' = [original |-> Later(d).original,
              parts |-> [Later(d).parts EXCEPT !.month = time.parts.month, !.day = time.parts.day]]
  /\ made' = "assigned"
\* All but the month is taken over.
AddAssign(d) ==
  /\ Continues
  /\ time' = [original |-> Later(d).original,
              parts |-> [Later(d).parts EXCEPT !.month = time.parts.month]]
  /\ made' = "assigned"

Sub(d) ==
  /\ Continues /\ d <= time.original * NanosInTick
  /\ time' = new((time.original * NanosInTick - d) \div NanosInTick) /\ made' = "new"

\* Below 1601 a debug build panics; a release build goes on from the end of a
\* u128, at a timestamp that has nothing to do with either operand.
SubUnderflow(d) ==
  /\ Continues /\ d > time.original * NanosInTick
  /\ \E t \in Wraps : time' = new(t)
  /\ made' = "new"

Next ==
  \/ \E c \in Clocks : WithYmd(c)
  \/ \E d \in Durations : Add(d) \/ AddAssign(d) \/ Sub(d) \/ SubUnderflow(d)

Spec == Init /\ [][Next]_vars
=============================================================================
