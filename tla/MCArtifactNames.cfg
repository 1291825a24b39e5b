SPECIFICATION NamesSpec
CONSTANTS
  Given <- MCGiven
  MaxHops = 6
INVARIANTS
  ReadAsWritten
PROPERTY NamesSettle
CHECK_DEADLOCK FALSE
