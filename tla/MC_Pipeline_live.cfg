SPECIFICATION FairSpec
CONSTANTS
  Task = {t1, t2, t3}
  NoTask = NoTask
  UnknownId = UnknownId
  Path = {}
  Role <- MCRegistered
  Registered <- MCRegistered
  HasReviewer = TRUE
  HasSecurityReviewer = FALSE
  MaxRetry = 2
  MinQueueDepth = 1
  CrashesHappen = FALSE
  SavesFail = FALSE
  WritesFail = FALSE
  StopsHappen = FALSE
PROPERTIES
  EveryRunEnds
  ParkedTaskWoken
ACTION_CONSTRAINT IdsInOrder
