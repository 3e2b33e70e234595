\* Two hosts, one model; one request and two lists in flight.
CONSTANTS
  RemoteHost = {h1, h2}
  Model = {m1}
  Nothing = Nothing
  PullHost = {h1}
  MaxAsked = 1
  MaxReads = 1
SPECIFICATION ViewsSpec
PROPERTIES NeverStaleAgain PullSeen
CHECK_DEADLOCK FALSE
