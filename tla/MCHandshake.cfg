SPECIFICATION FairSpec
CONSTANTS
  w1 = w1
  w2 = w2
  Lowered <- MCLowered
  Value <- MCValue
  Clients <- MCClients
  Workers = {w1, w2}
  Versions = {65, 66, 68}
  Ours = 66
  TDs = {0, 1}
  HasNode = TRUE
  MaxHeight = 1
  MaxProbes = 2
INVARIANTS
  TypeOK
  NeverNil
  OneEach
  NamesRecognised
PROPERTIES
  HeadsInOrder
  EndsUnlessAtNode
CHECK_DEADLOCK FALSE
