SPECIFICATION Spec
CONSTANTS
  Contents <- MCContents
  Updates = {}
  Closes = TRUE
  MaxHandles = 3
  MaxDepth = 0
  MaxLost = 0
  User = {"u", "s"}
  System = "s"
  Nobody = ""
INVARIANT TempFromEnvironment
