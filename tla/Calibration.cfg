\* Two calls or workers and one scanner; writes fail and the program ends.
CONSTANTS
  Caller = {c1, c2}
  Scanner = {s1}
  None = None
  Missing = Missing
  Empty = Empty
  Torn = Torn
  MaxCalls = 1
  MaxItems = 1
  Faults = TRUE
SPECIFICATION Spec
INVARIANTS ClaimsAreBacked RunningMeansRunning StepsSerialised
SYMMETRY CallerSymmetry
