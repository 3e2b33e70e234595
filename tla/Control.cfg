\* Two calls, one slot per channel; the system stops once both returned.
CONSTANTS
  Call = {a, b}
  MaxId = 1
  ChanCap = 1
  NetCap = 1
  MaxEvents = 2
  None = None
SPECIFICATION FairSpec
INVARIANTS OwnFrames EventsComplete NothingPending
PROPERTIES EveryCallReturns ReadLoopEnds
CHECK_DEADLOCK FALSE
