SPECIFICATION FairSpec
CONSTANTS
  None = None
  Invalid = Invalid
  MaxRows = 4
  MaxDeletes = 2
  MaxSize = 3
INVARIANTS
  EndIsTheEnd
  NoRowTwice
  NeverLost
PROPERTIES
  PagesFit
  WalkEnds
CHECK_DEADLOCK FALSE
