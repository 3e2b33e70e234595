\* One host, to be added; two requests of the user and one poll in flight.
CONSTANTS
  Host = {h1}
  None = None
  Saved = {}
  MaxCalls = 2
  MaxPolls = 1
SPECIFICATION Spec
PROPERTIES DeadHostDropped OnlyDeadDropped StaysDisconnected
CHECK_DEADLOCK FALSE
