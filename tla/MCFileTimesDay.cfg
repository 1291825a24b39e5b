SPECIFICATION Spec
CONSTANTS
  HoursInDay = 2
  MinutesInHour = 3
  SecondsInMinute = 5
  MillisInSecond = 2
  TicksInMilli = 3
  NanosInTick = 2
  Width = 30000000
  Starts <- MCStarts
  Wraps <- MCWraps
  Clocks <- MCClocks
  Durations <- MCDurations
  Instants <- MCInstants
  LastYear = 2100
  MaxSteps = 2
INVARIANT DayTold
\* The bound on operations ends a run.
CHECK_DEADLOCK FALSE
