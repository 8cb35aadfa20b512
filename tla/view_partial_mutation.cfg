SPECIFICATION Spec
CONSTANTS
  MaxEntries = 1
  MaxFields = 2
  NoEntry = NoEntry
INVARIANT
  AllFieldsOccurOrNone
CHECK_DEADLOCK FALSE
