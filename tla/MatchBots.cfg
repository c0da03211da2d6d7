CONSTANTS
  a = a
  b = b
  d = d
  bot1 = bot1
  bot2 = bot2
  NoUser = NoUser
  Users = {a}
  Bots = {bot1, bot2}
  MaxClients = 2
  MatchMode = FALSE
  BotTestMode = FALSE
  SteamId <- MCSteamId
  Commands = {"start_bot_test", "map", "hardreset"}
  TeamChoices = {"T"}
  TotalRounds = 2
  WinThreshold = 1
  WarmupTime = 1
  MaxMatches = 1
  MaxTimers = 1
  MaxStartTasks = 1
SYMMETRY MCSymmetry
SPECIFICATION Spec
INVARIANTS
  
  SidesAlternate
  DecidedMatchIsAnnounced
