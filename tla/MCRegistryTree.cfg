SPECIFICATION FairSpec
CONSTANTS
  Sorted <- MCSorted
  Sid <- MCSid
  Values <- MCValues
  KeyPaths <- MCKeyPaths
  Opened <- MCOpened
  MaxFrames = 4
  MaxCounter = 2
INVARIANTS
  ReadLikeRegistry
PROPERTIES
  StepsLikeRegistry
  AddKeyEnds
CHECK_DEADLOCK FALSE
