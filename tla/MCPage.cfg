SPECIFICATION Spec
CONSTANTS
  Chars <- MCChars
  Unescape <- MCUnescape
  Names <- MCNames
  Values <- MCValues
  Rank <- MCRank
  Undefined = Undefined
  Ops <- MCOps
  Typed <- MCTyped
  Drills <- MCDrills
  Known <- MCKnown
  NoSearch = NoSearch
  Links <- MCLinks
  MaxGroups = 2
  MaxItems = 2
  MaxEdits = 2
  MaxAsked = 2
  Errors <- MCErrors
  Unnamed <- MCUnnamed
  Top = 2
INVARIANTS
  TypeOK
  KnownUntouched
  PushedIsReadable
  NewestIsOfUrl
  CountsWhatIsMeant
  CountedOnce
CHECK_DEADLOCK FALSE
