SPECIFICATION Spec
CONSTANTS
  a = a
  b = b
  w1 = w1
  w2 = w2
  Ids = {a}
  Seqs = {1}
  NilNode = NilNode
  Absent = Absent
  Workers = {w1}
  Inputs <- SmallInputs
  ReqCap = 1
  Interval = 1
  HasTimeout = TRUE
  MaxTime = 1
PROPERTY DroppedUntilValid
CHECK_DEADLOCK FALSE
