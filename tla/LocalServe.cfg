\* Two calls at once, three programs ever started.
CONSTANTS
  Frontend = {c1, c2}
  Model = {m1}
  NoModel = NoModel
  MaxServers = 3
SPECIFICATION ServeFairSpec
INVARIANTS LiveIsTracked
PROPERTIES NeverReplaced StopEnds
