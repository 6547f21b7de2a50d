SPECIFICATION FairSpec
CONSTANTS
  a = a
  b = b
  Ids = {a, b}
  Seqs = {1}
  NilNode = NilNode
  Absent = Absent
  NoFile = NoFile
  Torn = Torn
  Flags <- MCFlags
  Supplied <- MCSupplied
  Interval = 2
  MaxTime = 3
  MaxChanges <- TwoAndOne
  MaxCrashes = 1
INVARIANTS
  TypeOK
  FileCommitted
  AnsweredIsKept
PROPERTIES
  ResumesAfterCrash
  TableSpec
