SPECIFICATION FairSpec
CONSTANTS
  Contents <- MCContents
  Updates <- MCUpdates
  Closes = TRUE
  MaxHandles = 3
  MaxDepth = 2
  MaxLost = 1
  User = {"u", "s"}
  System = "s"
  Nobody = ""
INVARIANTS
  HandlesAccounted
  EnvironmentTold
  SteadyProfilesFound
  KnownFoldersFound
PROPERTY EnvVarsReturn
