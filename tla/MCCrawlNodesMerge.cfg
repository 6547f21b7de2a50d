SPECIFICATION Spec
CONSTANTS
  a = a
  b = b
  Ids = {a}
  Seqs = {1}
  NilNode = NilNode
  Absent = Absent
  NoFile = NoFile
  Torn = Torn
  Flags <- DbOnly
  Supplied <- NoneSupplied
  Interval = 1
  MaxTime = 2
  MaxChanges <- OneEach
  MaxCrashes = 0
INVARIANT LastResponseIsLatest
