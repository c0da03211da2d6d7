CONSTANTS
  Creator = cr
  Joiners = {j1, j2}
  Nobody = Nobody
  Conns = {c1, c2, c3}
  NoConn = NoConn
  MaxHubs = 2
  MaxMatches = 1
SYMMETRY MCSymmetry
SPECIFICATION Spec
PROPERTIES
  ConfirmationIsNotCarriedOver
CHECK_DEADLOCK FALSE
