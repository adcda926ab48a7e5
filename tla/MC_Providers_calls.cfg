SPECIFICATION ProvFairSpec
CONSTANTS
  goroutine = goroutine
  Caller = {goroutine}
  Role = {"backend"}
  RoleOf <- MCRoleOf
  MaxWait = 3
  MaxDelay = 2
  RetryAfter = {4}
  LongestWait = 4
  MaxPieces = 3
INVARIANTS
  WaitBounded
  CancelLeavesNoProcess
  LimitIsHeard
  VerdictIsTheReplys
PROPERTIES
  CallReturns
