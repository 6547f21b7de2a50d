SPECIFICATION Spec
CONSTANTS
  a = a
  b = b
  w1 = w1
  w2 = w2
  Ids = {a, b}
  Seqs = {1}
  NilNode = NilNode
  Absent = Absent
  Workers = {w1, w2}
  Inputs <- MCInputs
  ReqCap = 2
  Interval = 1
  HasTimeout = TRUE
  MaxTime = 1
INVARIANTS
  TypeOK
  NoSendOnClosed
  Quiescent
  NoForgottenNode
  RemovedAtZero
  TimesOrdered
PROPERTY ContractSpec
CHECK_DEADLOCK FALSE
SYMMETRY WorkerSymmetry
