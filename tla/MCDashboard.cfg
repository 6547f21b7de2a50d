SPECIFICATION Spec
CONSTANTS
  h1 = h1
  h2 = h2
  one = one
  other = other
  twin = twin
  Handlers = {h1, h2}
  Queries = {one, other, twin}
  Named = {one, twin}
  Where <- MCWhere
  Plain <- MCPlain
  NoAnswer = NoAnswer
  Absent = Absent
  MaxEvents = 2
INVARIANTS
  TypeOK
  OwnAnswers
  VersionsAnswered
  NoStaleUnlessCarried
SYMMETRY HandlerSymmetry
