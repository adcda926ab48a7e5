SPECIFICATION Spec
CONSTANTS
  Task = {t1, t2, t3}
  NoTask = NoTask
  UnknownId = UnknownId
  Path = {}
  Role <- MCRole
  Registered <- MCRegistered
  HasReviewer = TRUE
  HasSecurityReviewer = FALSE
  MaxRetry = 2
  MinQueueDepth = 1
  CrashesHappen = TRUE
  SavesFail = TRUE
  WritesFail = TRUE
  StopsHappen = TRUE
SYMMETRY Symmetry
INVARIANTS
  TypeOK
  DependenciesRespected
  ParkedTaskHasItsSubtask
  RetryBudgetKept
PROPERTIES
  KeepsLifecycle
