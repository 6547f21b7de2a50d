SPECIFICATION Spec
CONSTANTS
  w1 = w1
  w2 = w2
  Lowered <- MCLowered
  Value <- MCValue
  Clients <- MCClients
  Workers = {w1, w2}
  Versions = {66}
  Ours = 66
  TDs = {1, 2}
  HasNode = FALSE
  MaxHeight = 0
  MaxProbes = 1
PROPERTY TDNeverLowered
CHECK_DEADLOCK FALSE
