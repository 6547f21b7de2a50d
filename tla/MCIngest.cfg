SPECIFICATION FairSpec
CONSTANTS
  a = a
  b = b
  Ids = {a}
  Absent = Absent
  DropAge = 1
  MaxTime = 5
  MaxErrors = 1
  MaxCrashes = 1
INVARIANTS
  TypeOK
  ReadIsPut
  TablesThere
PROPERTY ReadableIsPut
