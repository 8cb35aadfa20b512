SPECIFICATION Spec
CONSTANTS
  None = None
  Invalid = Invalid
  MaxRows = 3
  MaxCount = 2
INVARIANTS
  PageIsDescribed
  LimitRespected
  LegalArgumentsAreServed
  PageInfoIsTrue
CHECK_DEADLOCK FALSE
