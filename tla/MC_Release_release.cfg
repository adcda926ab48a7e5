SPECIFICATION Spec
CONSTANTS
  Task = {t1, t2, t3}
  Version = {v1}
  releaseInterval = 2
  MaxTime = 3
SYMMETRY Alike
ACTION_CONSTRAINT OneChat
INVARIANTS
  NoTaskListedTwice
  OnlyTheSecondOfACheckIsLost
  RecordsFollowTheFiles
PROPERTIES
  ChecksAreApart
CHECK_DEADLOCK FALSE
