CONSTANTS
  Hosts = {h1, h2}
  NoHost = NoHost
  Tabs = {b1}
  MaxPatches = 1
  Cores = 3
  V8 = V8
  V10 = V10
  Dev = Dev
  Versions <- MCVersions
  Blank = Blank
  Segments <- MCSegments
  Word = Word
  Text <- MCText
  Drafts <- MCDrafts
SYMMETRY MCSymmetry
SPECIFICATION Spec
INVARIANTS
  TypeOK
  
  LatestLeavesSomebody
PROPERTIES
  PortsSufficeUnlessLifted
