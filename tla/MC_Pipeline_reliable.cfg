SPECIFICATION Spec
CONSTANTS
  Task = {t1, t2, t3}
  NoTask = NoTask
  UnknownId = UnknownId
  Path = {f1}
  Role <- MCRegistered
  Registered <- MCRegistered
  HasReviewer = TRUE
  HasSecurityReviewer = TRUE
  MaxRetry = 2
  MinQueueDepth = 1
  CrashesHappen = FALSE
  SavesFail = FALSE
  WritesFail = TRUE
  StopsHappen = TRUE
SYMMETRY Symmetry
INVARIANTS
  NothingStranded
  NoLostWakeup
  EscalationReachesPM
  EscalationCleansUp
  RejectedWorkStops
ACTION_CONSTRAINT InOneSecond
