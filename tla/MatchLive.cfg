CONSTANTS
  a = a
  b = b
  d = d
  bot1 = bot1
  bot2 = bot2
  NoUser = NoUser
  Users = {a, b}
  Bots = {bot1, bot2}
  MaxClients = 2
  MatchMode = TRUE
  BotTestMode = TRUE
  SteamId <- MCSteamId
  Commands = {}
  TeamChoices = {}
  TotalRounds = 2
  WinThreshold = 1
  WarmupTime = 1
  MaxMatches = 1
  MaxTimers = 1
  MaxStartTasks = 0
SPECIFICATION FairSpec
INVARIANTS
  ModePlaysOnce
PROPERTIES
  LiveMatchEnds
