SPECIFICATION FairSpec
CONSTANTS
  MaxEntries = 2
  MaxFields = 2
  NoEntry = NoEntry
INVARIANTS
  BlocksMatchCode
  RequestAllOrNothing
  ErrorsRollBackRequest
  FlagRollsMutationBack
  CleanAnswerIsDurable
  BadRequestHasNoEffect
  GetIsSafe
PROPERTIES
  AtomicUnitsKept
  RequestIsAnswered
CHECK_DEADLOCK FALSE
