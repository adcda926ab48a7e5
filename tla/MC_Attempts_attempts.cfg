SPECIFICATION Spec
CONSTANTS
  MaxHistory = 3
  MaxRetry = 3
  Reviews <- MCReviews
  Scans = 2
  MaxWords = 5
  MaxChats = 1
CHECK_DEADLOCK FALSE
INVARIANTS
  RoleIsTold
  ProvidersAgree
  ContextIsBounded
  ContainersAreRemoved
