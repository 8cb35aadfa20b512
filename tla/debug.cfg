SPECIFICATION Spec
CONSTANTS
  Threads = {t1, t2}
  MaxRequests = 3
  MaxFields = 4
INVARIANTS
  ShowsOwnQueries
  CleanThreadShowsAll
  ShownIsFinal
CHECK_DEADLOCK FALSE
