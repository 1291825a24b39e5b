SPECIFICATION FairSpec
CONSTANTS
  Texts <- MCTexts
  Hextets = 3
  Digits = 2
INVARIANTS
  IndexInBounds
  ParsedAsMeant
  ReadBack
PROPERTY IpRead
CHECK_DEADLOCK FALSE
