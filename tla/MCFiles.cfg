SPECIFICATION FairSpec
CONSTANTS
  Part <- MCPart
  Environments <- MCEnvironments
  Paths <- MCPaths
  Csidls <- MCCsidls
  MaxFrames = 4
  MaxRet = 1
  Disks <- MCDisks
  Mounts <- MCMounts
  Calls <- MCCalls
  Asked <- MCAsked
  MaxLayers = 2
INVARIANTS
  StackSuffices
  NothingOnNone
  ListedIsThere
  ExistsAgrees
  FoundWhereMeant
PROPERTIES
  Implements
  CallAnswered
CHECK_DEADLOCK FALSE
