CONSTANTS
  Matches = {m1}
  NoMatch = NoMatch
  Tokens = {t1, t2}
  NoToken = NoToken
  MaxRequests = 2
SPECIFICATION FairSpec
INVARIANTS
  TypeOK
  SpinnersHaveRequests
  
  
PROPERTIES
  ViewConverges
  DeadSessionIsNoticed
