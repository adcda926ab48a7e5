SPECIFICATION Spec
CONSTANTS
  Task = {t1, t2}
  NoTask = NoTask
  UnknownId = UnknownId
  Path = {f1}
  Role <- MCRegistered
  Registered <- MCRegistered
  HasReviewer = TRUE
  HasSecurityReviewer = TRUE
  MaxRetry = 2
  MinQueueDepth = 1
  CrashesHappen = TRUE
  SavesFail = FALSE
  WritesFail = FALSE
  StopsHappen = FALSE
INVARIANTS
  ResumesWhereItLeftOff

