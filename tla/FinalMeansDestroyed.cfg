CONSTANTS
  Matches = {m1}
  NoMatch = NoMatch
  Ports = {p1}
  NoPort = NoPort
  RunMax = 1
  QueueCap = 1
  Played = {}
  Stopped = {m1}
  MaxFaults = 0
SPECIFICATION LiveSpec
PROPERTIES
  FinalMeansDestroyed
CHECK_DEADLOCK FALSE
