\* One connection of each role; everything stops when both clients have left.
CONSTANTS
  Host = {h1}
  Guest = {g1}
  Code = {c1}
  TTL = 1
  SendBuffer = 2
  NetBuffer = 1
  MaxFrames = 2
  None = None
SPECIFICATION ServerFairSpec
INVARIANTS FramesInOrder LinkedMeansPaired
PROPERTIES NeverWedged HostWaitEnds NoHandlerLeak
CHECK_DEADLOCK FALSE
