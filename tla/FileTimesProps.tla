---------------------------- MODULE FileTimesProps ----------------------------
(***************************************************************************)
(* What is claimed of src/utils/time.rs, against a calendar of its own: a  *)
(* day's date is found from the lengths of the months and the count of     *)
(* leap days before a year.                                                *)
(***************************************************************************)
EXTENDS FileTimes

LeapDays(year) == LET y == year - 1 IN y \div 4 - y \div 100 + y \div 400
DaysBefore(year) == 365 * (year - 1601) + LeapDays(year) - LeapDays(1601)
LengthOf(year, month) ==
  CASE month = 2 -> DaysBefore(year + 1) - DaysBefore(year) - 337
    [] month \in {4, 6, 9, 11} -> 30
    [] OTHER -> 31

\* The date of a day, counted from the first of January 1601.
DateOf(days) ==
  LET year == CHOOSE y \in (1601 + days \div 366) .. (1601 + days \div 365) :
                DaysBefore(y) <= days /\ days < DaysBefore(y + 1)
      start[m \in 1 .. 12] == IF m = 1 THEN DaysBefore(year) ELSE start[m - 1] + LengthOf(year, m - 1)
      month == CHOOSE m \in 1 .. 12 : start[m] <= days /\ days < start[m] + LengthOf(year, m)
  IN  [year |-> year, month |-> month, day |-> days - start[month] + 1]

ClockTold(parts) == [n \in {"hour", "minute", "second", "nanos"} |-> parts[n]]
ToMillis(parts) == [parts EXCEPT !.nanos = @ \div (TicksInMilli * NanosInTick)]

Day == time.original \div TicksInDay
TimeOfDay == time.original % TicksInDay

(* After any operations on a Filetime, the date and the clock it tells are *)
(* those of its timestamp, in any month but December, over leap years and  *)
(* the ends of centuries; but for the month once += was used.              *)
PartsFollow ==
  LET date == DateOf(Day)
      clock == Clock(TimeOfDay, NanosInSecond \div NanosInTick)
  IN  (date.month # 12 /\ ~(made = "ymd" /\ time.parts.month = 12)) =>
        /\ time.parts.year = date.year /\ time.parts.day = date.day
        /\ made # "assigned" => time.parts.month = date.month
        /\ [ClockTold(time.parts) EXCEPT !.nanos = @ \div NanosInTick] =
             [hour |-> clock.hour, minute |-> clock.minute, second |-> clock.second,
              nanos |-> clock.part]

(* The three types tell one date and clock, to the millisecond, of the     *)
(* same instant, in December too; UnixTimestamp of an instant between two  *)
(* milliseconds tells the later one, of one before 1970 the epoch.         *)
OneCalendar ==
  LET ticks == time.original
      millis == (ticks + TicksInMilli - 1) \div TicksInMilli
  IN  /\ WinFiletime(ticks) = ToMillis(new(ticks).parts)
      /\ UnixTimestamp(filetime_to_unix_timestamp(ticks)) =
           WinFiletime(IF millis < UnixEpoch THEN UnixEpoch * TicksInMilli
                       ELSE millis * TicksInMilli)

(* A Filetime made of the parts another one tells is equal to it, up to    *)
(* November; equality compares timestamps (time.rs:650-654).               *)
Rebuilt ==
  LET ft == new(time.original)
  IN  DateOf(Day).month # 12 => with_ymd_and_hms(ft.parts).original = ft.original

\* What duration_since tells, an error as less than nothing, and where it counts
\* less than 2^64 nanoseconds.
Elapsed(ticks, e) ==
  LET told == duration_since(ticks, e) IN IF told.is = "Ok" THEN told.nanos ELSE -told.nanos
Near(ticks, e) == ticks * NanosInTick - e \in 1 - Width .. Width - 1

(* What is added to a Filetime, or taken from it, is what the time told to *)
(* have elapsed since an instant from 1970 on grows or shrinks by, to the  *)
(* tick, also where the answer turns into an error; unless the Filetime    *)
(* goes past the last timestamp, or 2^64 nanoseconds are counted before or *)
(* after, where the answer starts again at zero (time.rs:217, 219).  How   *)
(* long it is itself is not claimed: it is 369 years too long (213).       *)
ElapsedMoves ==
  [][\A d \in Durations :
       /\ /\ Add(d) \/ AddAssign(d)
          /\ (time.original * NanosInTick + d) \div NanosInTick < Width
          => \A e \in Instants :
               Near(time.original, e) /\ Near(time'.original, e) =>
                 Elapsed(time'.original, e) - Elapsed(time.original, e) \in d - NanosInTick + 1 .. d
       /\ Sub(d) =>
            \A e \in Instants :
              Near(time.original, e) /\ Near(time'.original, e) =>
                Elapsed(time.original, e) - Elapsed(time'.original, e) \in d .. d + NanosInTick - 1]_vars
-----------------------------------------------------------------------------
(* time.rs:134 "Returns the day number": of a Filetime made by new.        *)
DayTold == made = "new" => time.parts.day = DateOf(Day).day

=============================================================================
