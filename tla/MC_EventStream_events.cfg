SPECIFICATION Spec
CONSTANTS
  Writer = {w1, w2}
  Stream = {s1}
  TicksPerSecond = 2
  ChanCap = 1
  MaxTick = 5
  MaxEvents = 3
  MaxRuns = 2
SYMMETRY Symmetry
INVARIANTS
  InOrderAndOnce
  OnlyOvertakenEventsAreLost
  NewEventsAreShown
