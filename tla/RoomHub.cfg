CONSTANTS
  Creator = cr
  Joiners = {j1, j2}
  Nobody = Nobody
  Conns = {c1, c2}
  NoConn = NoConn
  MaxHubs = 2
  MaxMatches = 1
SYMMETRY MCSymmetry
SPECIFICATION Spec
INVARIANTS
  TypeOK
  OneCreationInFlight
  SlotsAreLive
  RowIsJoinable
  NobodyMissesTheMatch
PROPERTIES
  JoinerIsNeverReplaced
  OnlyItsOwnerEmptiesASlot
CHECK_DEADLOCK FALSE
