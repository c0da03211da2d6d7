CONSTANTS
  Matches = {m1}
  NoMatch = NoMatch
  Ports = {p1}
  NoPort = NoPort
  RunMax = 1
  QueueCap = 1
  Played = {m1}
  Stopped = {m1}
  MaxFaults = 2
SPECIFICATION FairSpec
INVARIANTS
  TypeOK
  EndedMatchIsTornDown
  RowsFollowTheGame
  
PROPERTIES
  MatchesAreClosed
CHECK_DEADLOCK FALSE
