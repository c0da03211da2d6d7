CONSTANTS
  a = a
  b = b
  d = d
  bot1 = bot1
  bot2 = bot2
  NoUser = NoUser
  Users = {a, b}
  Bots = {}
  MaxClients = 2
  MatchMode = TRUE
  BotTestMode = FALSE
  SteamId <- MCSteamId
  Commands = {"stop"}
  TeamChoices = {}
  TotalRounds = 3
  WinThreshold = 2
  WarmupTime = 1
  MaxMatches = 1
  MaxTimers = 1
  MaxStartTasks = 0
SPECIFICATION Spec
INVARIANTS
  TypeOK
  DecidedMatchIsAnnounced
  SidesAlternate
  ReportsAgreeWithScore
  StartedMatchIsClosed
  ModePlaysOnce
PROPERTIES
  NoRoundAfterEnd
  LifecycleSpec
  GameSpec
