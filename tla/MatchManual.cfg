CONSTANTS
  a = a
  b = b
  d = d
  bot1 = bot1
  bot2 = bot2
  NoUser = NoUser
  Users = {a, b, d}
  Bots = {}
  MaxClients = 2
  MatchMode = FALSE
  BotTestMode = FALSE
  SteamId <- MCSteamId
  Commands = {"start", "stop"}
  TeamChoices = {"T"}
  TotalRounds = 1
  WinThreshold = 2
  WarmupTime = 2
  MaxMatches = 1
  MaxTimers = 2
  MaxStartTasks = 0
SYMMETRY MCSymmetry
SPECIFICATION Spec
INVARIANTS
  
  WaitIsTimed
  WarmupCvarsRestored
