SPECIFICATION Spec
CONSTANTS
  a = a
  b = b
  Ids = {a}
  Absent = Absent
  DropAge = 2
  MaxTime = 4
  MaxErrors = 0
  MaxCrashes = 0
INVARIANT NoRowSkipped
