CONSTANTS
  App = app
  n1 = n1
  Thread = {app, w1}
  Chan = {l1, n1}
  Caps <- MCCaps
  Data <- MCData
  KindOf <- MCKindOf
  Default = default
  Level = {3}
  Limit = {0, 5}
  Priority = {1}
  MaxSent = 2
  MaxCalls = 2
  MaxDepth = 2
SPECIFICATION DrainedSpec
INVARIANTS
  MsgTypeOK
  CallOrder
  NoMisrouting
PROPERTIES
  EveryCallReturns
  DrainThreadEnds
CHECK_DEADLOCK FALSE
