----------------------------- MODULE MCFileTimes ------------------------------
\* Every day around the leap years and centuries where calendars go wrong, at
\* the first and the last tick of it.
EXTENDS FileTimesProps

Days == UNION {DaysBefore(y) - 40 .. DaysBefore(y + 1) + 40 : y \in {1604, 1700, 2000}}
          \cup 0 .. 70 \cup 134774 - 40 .. 134774 + 2
MCStarts == {d * TicksInDay + t : d \in Days, t \in {0, TicksInDay - 1}}
MCWraps == {37, 100 * TicksInDay}
MCClocks ==
  {<<>>, [hour |-> HoursInDay - 1, minute |-> 0, second |-> SecondsInMinute - 1, nanos |-> 3]}
MCDurations == {1, TicksInDay * NanosInTick, 32 * TicksInDay * NanosInTick + 5,
                366 * TicksInDay * NanosInTick}
\* As far from 1970 as some of the days are from 1601, where an answer turns into
\* an error.
MCInstants == {d * TicksInDay * NanosInTick + n :
                 d \in {0, 1, 1097, 1461, 10957, 36200, 36524}, n \in {0, 5}}
=============================================================================
