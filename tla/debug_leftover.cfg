SPECIFICATION Spec
CONSTANTS
  Threads = {t1}
  MaxRequests = 2
  MaxFields = 3
INVARIANT
  RequestQueriesAreShown
CHECK_DEADLOCK FALSE
