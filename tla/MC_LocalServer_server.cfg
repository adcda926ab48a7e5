SPECIFICATION FairSpec
CONSTANTS
  Handler = {h1, h2}
  Chat = {c1}
  Main = Main
  NoOne = NoOne
  MaxRuns = 2
  StoreFails = TRUE
INVARIANTS
  AtMostOneRun
  StoppedRunStaysSilent
  NoLostResume
PROPERTIES
  ResetReturns
  PauseTakesHold
ACTION_CONSTRAINT EarlierRunsChat
