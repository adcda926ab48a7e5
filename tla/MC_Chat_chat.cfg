SPECIFICATION FairSpec
CONSTANTS
  chatter = chatter
  Client <- MCClient
  Caller <- MCClient
  Role = {"backend"}
  RoleOf <- MCRoleOf
  MaxWait = 1
  MaxDelay = 2
  RetryAfter = {}
  LongestWait = 2
  Task = {t1, t2}
  ChanCap = 1
  MaxChunks = 3
  MaxCopies = 3
INVARIANTS
  ChunksInOrder
  AnswerIsWhole
PROPERTIES
  ChatEnds
  InjectChangesNoStatus
  FeedsTheClient
ACTION_CONSTRAINT OneAtATime
