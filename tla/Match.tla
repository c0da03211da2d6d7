------------------------------- MODULE Match -------------------------------
(***************************************************************************)
(* The match plugin of a 1v1 game server (mr1v1_match.sma): who sits in    *)
(* the two seats, warm-up, rounds and score, drops and reconnects, the     *)
(* delayed tasks, and the reports sent to the gateway.                     *)
(*                                                                         *)
(* The plugin is single threaded: every engine callback, chat command and  *)
(* timer runs to completion, so each of them is one action.  What may      *)
(* interleave is their ORDER: tasks created by set_task fire later, and    *)
(* all but the warm-up timer are never cancelled.                          *)
(*                                                                         *)
(* Time is abstracted: a pending task may fire at any moment, except that  *)
(* the three tasks of a round end keep the order of their delays (0.1 <    *)
(* 0.3 < 0.4 s) and anything the engine or the plugin does at least a      *)
(* second later (the next round end, a warm-up tick) comes after them.     *)
(***************************************************************************)
EXTENDS Integers, FiniteSets

CONSTANTS
  Users,         (* human players, identified by their SteamID             *)
  Bots,          (* bots the engine may add                                *)
  NoUser,        (* nobody                                                 *)
  MaxClients,    (* number of client entities of the server                *)
  MatchMode,     (* g_bMatchModeEnabled: a container made for one match    *)
  BotTestMode,   (* g_bBotTestModeEnabled: bots stand in for the players   *)
  SteamId,       (* g_szMatchModeSteamId: who owns each slot in match mode *)
  Commands,      (* the commands people use in this instance               *)
  TeamChoices,   (* the teams they choose in the team menu                 *)
  TotalRounds,   (* TOTAL_ROUNDS                                           *)
  WinThreshold,  (* WIN_THRESHOLD                                          *)
  WarmupTime,    (* mr1v1_warmup_time, in ticks                            *)
  MaxMatches,    (* bound: match ids generated                             *)
  MaxTimers,     (* bound: reconnect timers pending for one slot           *)
  MaxStartTasks  (* bound: pending Task_StartMatch                         *)

Clients == 1..MaxClients
Slots   == {0, 1}
Sides   == {"T", "CT"}
Teams   == Sides \cup {"SPEC", "NONE"}
Ids     == 0..MaxMatches      \* 0 is the empty g_szMatchId of a fresh load
CommandNames == {"start", "start_bot", "start_bot_test", "stop", "map",
                 "hardreset"}

ASSUME MatchAssumption ==
  /\ Users \cap Bots = {} /\ NoUser \notin Users \cup Bots
  /\ IsFiniteSet(Users) /\ IsFiniteSet(Bots)
  /\ MaxClients \in Nat
  /\ MatchMode \in BOOLEAN /\ BotTestMode \in BOOLEAN
  /\ MatchMode => SteamId \in [Slots -> Users] /\ SteamId[0] # SteamId[1]
  /\ Commands \subseteq CommandNames
  /\ TeamChoices \subseteq Sides \cup {"SPEC"}
  /\ TotalRounds \in Nat \ {0} /\ WinThreshold \in Nat \ {0}
  /\ WarmupTime \in Nat
  /\ MaxMatches \in Nat \ {0} /\ MaxTimers \in Nat /\ MaxStartTasks \in Nat

VARIABLES
  (* the engine *)
  up,               \* the server process runs (nothing happens when it does not)
  user,             \* who is connected on each client entity
  auth,             \* client_authorized was called for it
  ingame,           \* is_user_connected: client_putinserver was called
  team,             \* m_iTeam
  (* match mode *)
  modeTeam,         \* g_eMatchModeTeam
  modeConnected,    \* g_bMatchModeConnected
  modePlayer,       \* g_iMatchModePlayer, 0 when never set
  (* the match *)
  matchActive,      \* g_bMatchActive
  warmupActive,     \* g_bWarmupActive
  testMode,         \* g_bTestMode
  player,           \* g_iPlayer, 0 when the seat is empty
  side,             \* g_eCurrentTeam
  authId,           \* g_szAuthId
  pendingReconnect, \* g_bPendingReconnect
  wins,             \* g_iWins
  roundNum,         \* g_iRoundNum
  last,             \* g_iLastRoundNum and g_iLastWinnerSlot (2: nobody)
  matchId,          \* g_szMatchId
  (* server variables the plugin saves and restores *)
  warmCvar,         \* mp_round_infinite, mp_forcerespawn, immunity time
  warmCvarOld,      \* the values saved by StartWarmup
  botCvar,          \* bot_join_after_player, bot_quota_mode, bot_difficulty
  botCvarOld,       \* the values saved by StartWithBot
  botCvarsModified, \* g_bBotCvarsModified
  botQuota,         \* bot_quota
  (* pending tasks *)
  startTasks,       \* number of pending Task_StartMatch
  onceTasks,        \* other one-shot tasks
  warmupTimer,      \* TASK_WARMUP_TIMER is running
  warmupSecLeft,    \* g_iWarmupSecLeft
  roundTasks,       \* tasks created by the last round end
  rejoin,           \* Task_AbortIfNoReconnect timers of each slot
  (* what was reported: history, read by no handler *)
  lastId,           \* number of match ids generated so far
  starts,           \* match_start reports per id (0, 1, 2 = more)
  ends,             \* match_end reports per id (0, 1, 2 = more)
  rounds,           \* round_end reports per id: [num, winner]
  firstSide         \* the side slot 0 plays in round 1, "T" between matches

connVars   == <<user, auth, ingame, team>>
modeVars   == <<modeTeam, modeConnected, modePlayer>>
seatVars   == <<player, side, authId>>
playVars   == <<matchActive, warmupActive, pendingReconnect, wins, roundNum>>
cvarVars   == <<warmCvar, warmCvarOld, botCvar, botCvarOld,
                botCvarsModified, botQuota>>
warmupVars == <<warmupTimer, warmupSecLeft>>
idVars     == <<matchId, lastId>>
reportVars == <<starts, ends, rounds, firstSide>>
vars == <<up, connVars, modeVars, seatVars, playVars, testMode, last, idVars,
          cvarVars, startTasks, onceTasks, warmupVars, roundTasks, rejoin,
          reportVars>>

NoSeats == [s \in Slots |-> 0]
NoFlags == [s \in Slots |-> FALSE]
NoTimer == [s \in Slots |-> [stale |-> 0, live |-> FALSE]]
Other(s) == 1 - s
SideSplits == {f \in [Slots -> Sides] : f[0] # f[1]}
Live == matchActive /\ ~warmupActive
\* Counters of reports only tell none, one and more.
Inc(n) == IF n < 2 THEN n + 1 ELSE 2

-----------------------------------------------------------------------------
(* Loading the plugin: all globals are zero and no task is pending.         *)

\* plugin_init and LoadMatchModeConfig.  bot_quota is 0 from server.cfg in
\* both modes; with the bot test mode Task_EnableBotTestMode is scheduled.
PluginInit ==
  /\ user = [c \in Clients |-> NoUser]
  /\ auth = [c \in Clients |-> FALSE]
  /\ ingame = [c \in Clients |-> FALSE]
  /\ team = [c \in Clients |-> "NONE"]
  /\ modeTeam \in IF MatchMode THEN SideSplits
                  ELSE {[s \in Slots |-> IF s = 0 THEN "T" ELSE "CT"]}
  /\ modeConnected = NoFlags /\ modePlayer = NoSeats
  /\ matchActive = FALSE /\ warmupActive = FALSE /\ testMode = FALSE
  /\ player = NoSeats /\ authId = [s \in Slots |-> NoUser]
  /\ side = [s \in Slots |-> IF s = 0 THEN "T" ELSE "CT"]
  /\ pendingReconnect = NoFlags
  /\ wins = NoSeats /\ roundNum = 0
  /\ last = [num |-> 0, winner |-> 2]
  /\ matchId = 0
  /\ botCvar = "base" /\ botCvarOld = "base" /\ botCvarsModified = FALSE
  /\ botQuota = 0
  /\ startTasks = 0
  /\ onceTasks = IF MatchMode /\ BotTestMode THEN {"botTest"} ELSE {}
  /\ warmupTimer = FALSE /\ warmupSecLeft = 0
  /\ roundTasks = {}
  /\ rejoin = NoTimer

Init ==
  /\ up = TRUE
  /\ PluginInit
  /\ warmCvar = "base" /\ warmCvarOld = "base"
  /\ lastId = 0
  /\ starts = [i \in Ids |-> 0]
  /\ ends = [i \in Ids |-> 0]
  /\ rounds = [i \in Ids |-> {}]
  /\ firstSide = "T"

-----------------------------------------------------------------------------
(* Helpers of the handlers.                                                 *)

IsMatchPlayer(c) == matchActive /\ c \in {player[0], player[1]}

GetSlot(c) == IF c = player[0] THEN 0 ELSE 1

IsBot(c) == user[c] \in Bots

\* Timers whose drop was answered, or whose match is over, are still pending
\* (only they do not stand for a present drop any more).  Timers of a slot
\* have equal delays: the stale ones are older and fire first.
TimerCount(r) == r.stale + (IF r.live THEN 1 ELSE 0)
Orphaned(r) == [stale |-> TimerCount(r), live |-> FALSE]
AllOrphaned(rj) == [s \in Slots |-> Orphaned(rj[s])]
\* Seeded: an earlier timer of the slot serves for the new drop as well.
ArmedOnce(r) ==
  IF TimerCount(r) > 0 THEN r ELSE [stale |-> TimerCount(r), live |-> TRUE]
Armed(r) == [stale |-> TimerCount(r), live |-> TRUE]

\* Members of T and CT, bots included: get_players(.., "h") sees only
\* clients that were put in the server.
Candidates == {c \in Clients : ingame[c] /\ team[c] \in Sides}

\* SelectMatchModePlayers / the numCandidates test of SelectMatchPlayers.
CanSelect ==
  IF MatchMode
  THEN \A s \in Slots : modeConnected[s] /\ ingame[modePlayer[s]]
  ELSE Cardinality(Candidates) >= 2

\* Seat two clients and split the sides: the clients that joined the slots in
\* match mode, otherwise any two candidates; the rest of the server then
\* become spectators.
SelectMatchPlayers ==
  \E p \in IF MatchMode THEN {modePlayer}
           ELSE {f \in [Slots -> Candidates] : f[0] # f[1]},
     sd \in IF MatchMode THEN {modeTeam} ELSE SideSplits :
    /\ player' = p
    /\ side' = sd
    /\ authId' = IF MatchMode THEN SteamId ELSE [s \in Slots |-> user[p[s]]]
    /\ team' = [c \in Clients |->
                  IF c = p[1] THEN sd[1]
                  ELSE IF c = p[0] THEN sd[0]
                  ELSE IF ~MatchMode /\ ingame[c] THEN "SPEC" ELSE team[c]]

\* GenerateMatchId: the id of the container in match mode, else a new one.
GenerateMatchId ==
  /\ matchId' = IF MatchMode THEN 1 ELSE lastId + 1
  /\ lastId' = matchId'

\* InitMatch from GenerateMatchId on, and what it resets.
BeginMatch ==
  /\ MatchMode \/ lastId < MaxMatches                          \* bound
  /\ wins' = NoSeats
  /\ roundNum' = 1
  /\ matchActive' = TRUE
  /\ warmupActive' = FALSE
  /\ pendingReconnect' = NoFlags
  /\ GenerateMatchId
  /\ starts' = [starts EXCEPT ![matchId'] = Inc(@)]
  /\ firstSide' = side'[0]
  /\ UNCHANGED <<ends, rounds>>

\* StartWarmup after a successful selection.
EnterWarmup ==
  /\ matchActive' = TRUE
  /\ warmupActive' = TRUE
  /\ pendingReconnect' = NoFlags
  /\ wins' = NoSeats
  /\ warmCvarOld' = warmCvar
  /\ warmCvar' = "warmup"
  /\ warmupSecLeft' = WarmupTime
  /\ warmupTimer' = TRUE
  /\ UNCHANGED <<roundNum, idVars, reportVars,
                 botCvar, botCvarOld, botCvarsModified, botQuota>>

\* StartWarmup: nothing happens when two players cannot be selected.
StartWarmup ==
  \/ /\ CanSelect
     /\ SelectMatchPlayers
     /\ EnterWarmup
     /\ rejoin' = AllOrphaned(rejoin)
     /\ UNCHANGED <<user, auth, ingame>>
  \/ /\ ~CanSelect
     /\ UNCHANGED <<connVars, seatVars, playVars, cvarVars, warmupVars,
                    idVars, reportVars, rejoin>>

\* KickAllBots, executed at once by the server_exec of RefreshServer (the
\* match is already inactive, client_disconnected ignores the bots).
KickAllBots ==
  /\ user' = [c \in Clients |-> IF IsBot(c) THEN NoUser ELSE user[c]]
  /\ auth' = [c \in Clients |-> auth[c] /\ ~IsBot(c)]
  /\ ingame' = [c \in Clients |-> ingame[c] /\ ~IsBot(c)]
  /\ team' = [c \in Clients |-> IF IsBot(c) THEN "NONE" ELSE team[c]]

\* Seeded: the warm-up flag is cleared before it is tested.
RestoreServerCvarsFlagFirst ==
  /\ testMode' = FALSE
  /\ warmupActive' = FALSE
  /\ botCvar' = IF botCvarsModified THEN botCvarOld ELSE botCvar
  /\ botCvarsModified' = FALSE
  /\ UNCHANGED <<warmCvar, warmupTimer, warmCvarOld, botCvarOld, warmupSecLeft>>

\* RestoreServerCvars
RestoreServerCvars ==
  /\ testMode' = FALSE
  /\ warmupTimer' = (warmupTimer /\ ~warmupActive)
  /\ warmCvar' = IF warmupActive THEN warmCvarOld ELSE warmCvar
  /\ warmupActive' = FALSE
  /\ botCvar' = IF botCvarsModified THEN botCvarOld ELSE botCvar
  /\ botCvarsModified' = FALSE
  /\ UNCHANGED <<warmCvarOld, botCvarOld, warmupSecLeft>>

\* Seeded: the match is forgotten before its end is reported.
ClosedWithoutId(i) == [ends EXCEPT ![0] = Inc(@)]

\* Seeded: a container reports the end under its own id, whatever began.
ClosedAsContainer(i) == [ends EXCEPT ![IF MatchMode THEN 1 ELSE i] = Inc(@)]

\* ReportMatchEnd: one more match_end report under the id of the moment.
Closed(i) == [ends EXCEPT ![i] = Inc(@)]

\* The end of AbortMatch and Task_AnnounceMatchResult: a match_end report,
\* RestoreServerCvars and ResetMatchState.
EndMatch ==
  /\ ends' = Closed(matchId)
  /\ firstSide' = "T"
  /\ UNCHANGED <<starts, rounds>>
  /\ RestoreServerCvars
  /\ matchActive' = FALSE
  /\ player' = NoSeats
  /\ wins' = NoSeats
  /\ roundNum' = 0
  /\ pendingReconnect' = NoFlags
  /\ botQuota' = 0
  /\ KickAllBots
  /\ UNCHANGED <<side, authId, last, idVars, modeVars>>

-----------------------------------------------------------------------------
(* Clients come and go (engine callbacks).                                  *)

\* A human connects: the engine gives it the first free client entity.
Connect(u) ==
  /\ up
  /\ \A c \in Clients : user[c] # u
  /\ \E c \in Clients :
       /\ user[c] = NoUser
       /\ \A d \in 1..(c - 1) : user[d] # NoUser
       /\ user' = [user EXCEPT ![c] = u]
  /\ UNCHANGED <<up, auth, ingame, team, modeVars, seatVars, playVars,
                 testMode, last, idVars, cvarVars, startTasks, onceTasks,
                 warmupVars, roundTasks, rejoin, reportVars>>

\* Slot s of match mode is taken by c; when both are, the match is scheduled.
JoinModeSlot(s, c) ==
  /\ modeConnected' = [modeConnected EXCEPT ![s] = TRUE]
  /\ modePlayer' = [modePlayer EXCEPT ![s] = c]
  /\ onceTasks' = onceTasks \cup
                    (IF modeConnected[Other(s)] THEN {"startMode"} ELSE {})
  /\ UNCHANGED modeTeam

\* Seeded: a slot can be taken again by the reconnecting owner.
ModeSlotsAgain(u) == {s \in Slots : MatchMode /\ ~matchActive /\ SteamId[s] = u}

ModeSlots(u) == {s \in Slots : /\ MatchMode /\ ~matchActive
                               /\ ~modeConnected[s] /\ SteamId[s] = u}
\* Seeded: whoever joins takes the waiting seat.
RejoinSlotsOfAnyone(u) == {s \in Slots : matchActive /\ pendingReconnect[s]}

RejoinSlots(u) == {s \in Slots : /\ matchActive /\ pendingReconnect[s]
                                 /\ authId[s] = u}

\* client_authorized, which may come before or after client_putinserver.
Authorized(c) ==
  /\ user[c] \in Users /\ ~auth[c]
  /\ auth' = [auth EXCEPT ![c] = TRUE]
  /\ \/ \E s \in ModeSlots(user[c]) :
          /\ JoinModeSlot(s, c)
          /\ UNCHANGED <<player, pendingReconnect, rejoin>>
     \/ \E s \in RejoinSlots(user[c]) :
          /\ player' = [player EXCEPT ![s] = c]
          /\ pendingReconnect' = [pendingReconnect EXCEPT ![s] = FALSE]
          /\ rejoin' = [rejoin EXCEPT ![s] = Orphaned(@)]
          /\ UNCHANGED <<modeVars, onceTasks>>
     \/ /\ ModeSlots(user[c]) \cup RejoinSlots(user[c]) = {}
        /\ UNCHANGED <<modeVars, onceTasks, player, pendingReconnect, rejoin>>
  /\ UNCHANGED <<up, user, ingame, team, side, authId, matchActive,
                 warmupActive, wins, roundNum, testMode, last, idVars,
                 cvarVars, startTasks, warmupVars, roundTasks, reportVars>>

\* The team client_putinserver gives to a human; before its authorization
\* get_user_authid does not yet return the SteamID.
SeatedTeam(c) ==
  IF matchActive
  THEN IF IsMatchPlayer(c) THEN side[GetSlot(c)] ELSE "SPEC"
  ELSE IF ~MatchMode THEN team[c]
  ELSE IF auth[c] /\ \E s \in Slots : SteamId[s] = user[c]
  THEN modeTeam[CHOOSE s \in Slots : SteamId[s] = user[c]]
  ELSE "SPEC"

\* client_putinserver of a human.
PutInServer(c) ==
  /\ user[c] \in Users /\ ~ingame[c]
  /\ ingame' = [ingame EXCEPT ![c] = TRUE]
  /\ team' = [team EXCEPT ![c] = SeatedTeam(c)]
  /\ UNCHANGED <<up, user, auth, modeVars, seatVars, playVars, testMode, last,
                 idVars, cvarVars, startTasks, onceTasks, warmupVars,
                 roundTasks, rejoin, reportVars>>

\* The engine adds a bot while bot_quota asks for one: connect, authorize
\* ("BOT" is nobody's SteamID) and client_putinserver follow each other.  In
\* the bot test mode the bot takes the first free slot.
BotJoin(b) ==
  /\ \A c \in Clients : user[c] # b
  /\ Cardinality({c \in Clients : IsBot(c)}) < botQuota
  /\ \E c \in Clients, t \in Sides :
       /\ user[c] = NoUser
       /\ \A d \in 1..(c - 1) : user[d] # NoUser
       /\ user' = [user EXCEPT ![c] = b]
       /\ auth' = [auth EXCEPT ![c] = TRUE]
       /\ ingame' = [ingame EXCEPT ![c] = TRUE]
       /\ team' = [team EXCEPT ![c] = t]
       /\ IF /\ MatchMode /\ ~matchActive /\ BotTestMode
             /\ \E s \in Slots : ~modeConnected[s]
          THEN JoinModeSlot(IF modeConnected[0] THEN 1 ELSE 0, c)
          ELSE UNCHANGED <<modeVars, onceTasks>>
  /\ UNCHANGED <<up, seatVars, playVars, testMode, last, idVars, cvarVars,
                 startTasks, warmupVars, roundTasks, rejoin, reportVars>>

\* client_disconnected.  A match player leaves the seat empty for 60 seconds.
\* The test for bots compares the seat's id with "BOT", which
\* GenerateBotAuthId never leaves there: bots are given 60 seconds too.
Disconnect(c) ==
  /\ user[c] # NoUser
  /\ user' = [user EXCEPT ![c] = NoUser]
  /\ auth' = [auth EXCEPT ![c] = FALSE]
  /\ ingame' = [ingame EXCEPT ![c] = FALSE]
  /\ team' = [team EXCEPT ![c] = "NONE"]
  /\ \/ /\ IsMatchPlayer(c)
        /\ TimerCount(rejoin[GetSlot(c)]) < MaxTimers          \* bound
        /\ player' = [player EXCEPT ![GetSlot(c)] = 0]
        /\ pendingReconnect' = [pendingReconnect EXCEPT ![GetSlot(c)] = TRUE]
        /\ rejoin' = [rejoin EXCEPT ![GetSlot(c)] = Armed(@)]
     \/ /\ ~IsMatchPlayer(c)
        /\ UNCHANGED <<player, pendingReconnect, rejoin>>
  /\ UNCHANGED <<up, modeVars, side, authId, matchActive, warmupActive, wins,
                 roundNum, testMode, last, idVars, cvarVars, startTasks,
                 onceTasks, warmupVars, roundTasks, reportVars>>

\* HandleMenu_ChooseTeam_Pre lets the engine change the team of anyone while
\* no match is active, and of the match players only while one is.
ChooseTeam(c, t) ==
  /\ user[c] \in Users /\ ingame[c]
  /\ ~matchActive \/ IsMatchPlayer(c)
  /\ team' = [team EXCEPT ![c] = t]
  /\ UNCHANGED <<up, user, auth, ingame, modeVars, seatVars, playVars,
                 testMode, last, idVars, cvarVars, startTasks, onceTasks,
                 warmupVars, roundTasks, rejoin, reportVars>>

\* Task_EnforceSpectators, every second.
EnforceSpectators ==
  /\ matchActive
  /\ team' = [c \in Clients |->
                IF ingame[c] /\ ~IsBot(c) /\ ~IsMatchPlayer(c) THEN "SPEC"
                ELSE team[c]]
  /\ UNCHANGED <<up, user, auth, ingame, modeVars, seatVars, playVars,
                 testMode, last, idVars, cvarVars, startTasks, onceTasks,
                 warmupVars, roundTasks, rejoin, reportVars>>

\* CBasePlayer_Spawn_Post: a match player spawns on the side it plays.
Spawn(c) ==
  /\ Live /\ ingame[c] /\ IsMatchPlayer(c) /\ team[c] \in Sides
  /\ team' = [team EXCEPT ![c] = side[GetSlot(c)]]
  /\ UNCHANGED <<up, user, auth, ingame, modeVars, seatVars, playVars,
                 testMode, last, idVars, cvarVars, startTasks, onceTasks,
                 warmupVars, roundTasks, rejoin, reportVars>>

-----------------------------------------------------------------------------
(* Starting a match.                                                        *)

\* CmdStart and CmdConsoleStart
CmdStart ==
  /\ "start" \in Commands
  /\ ~MatchMode /\ ~matchActive
  /\ testMode' = FALSE
  /\ StartWarmup
  /\ UNCHANGED <<up, modeVars, last, startTasks, onceTasks, roundTasks>>

\* StartWithBot, asked by client r (0: the console, or somebody on no team).
\* Everybody else becomes a spectator, the old bots are kicked, and the match
\* is scheduled for when the new bots have joined.
StartWithBot(test, r) ==
  /\ (IF test THEN "start_bot_test" ELSE "start_bot") \in Commands
  /\ r # 0 => user[r] \in Users /\ ingame[r] /\ team[r] \in Sides
  /\ ~MatchMode /\ ~matchActive
  /\ startTasks < MaxStartTasks                                \* bound
  /\ testMode' = test
  /\ LET kept(c) == user[c] \in Users /\ ingame[c] IN
     /\ user' = [c \in Clients |-> IF IsBot(c) THEN NoUser ELSE user[c]]
     /\ auth' = [c \in Clients |-> auth[c] /\ ~IsBot(c)]
     /\ ingame' = [c \in Clients |-> ingame[c] /\ ~IsBot(c)]
     /\ team' = [c \in Clients |-> IF IsBot(c) THEN "NONE"
                                   ELSE IF kept(c) /\ c # r THEN "SPEC"
                                   ELSE team[c]]
  /\ botQuota' = IF r = 0 THEN 2 ELSE 1
  /\ botCvarOld' = botCvar
  /\ botCvarsModified' = TRUE
  /\ botCvar' = "expert"
  /\ startTasks' = startTasks + 1
  /\ UNCHANGED <<up, modeVars, seatVars, playVars, last, idVars, warmCvar,
                 warmCvarOld, onceTasks, warmupVars, roundTasks, rejoin,
                 reportVars>>

\* Task_StartMatch, 1.5 seconds after StartWithBot.  It does not look at
\* g_bMatchActive again.
TaskStartMatch ==
  /\ startTasks > 0
  /\ startTasks' = startTasks - 1
  /\ \/ ~testMode /\ StartWarmup
     \/ /\ testMode /\ CanSelect
        /\ SelectMatchPlayers
        /\ BeginMatch
        /\ rejoin' = AllOrphaned(rejoin)
        /\ UNCHANGED <<user, auth, ingame, cvarVars, warmupVars>>
     \/ /\ testMode /\ ~CanSelect
        /\ UNCHANGED <<connVars, seatVars, playVars, cvarVars, warmupVars,
                       idVars, reportVars, rejoin>>
  /\ UNCHANGED <<up, modeVars, testMode, last, onceTasks, roundTasks>>

\* Task_StartMatchMode, one second after the second slot was taken.  Nothing
\* else starts a match in match mode, so that its test of g_bMatchActive never
\* makes it return early.
TaskStartMatchMode ==
  /\ "startMode" \in onceTasks
  /\ ~matchActive
  /\ onceTasks' = onceTasks \ {"startMode"}
  /\ testMode' = FALSE
  /\ StartWarmup
  /\ UNCHANGED <<up, modeVars, last, startTasks, roundTasks>>

\* Task_EnableBotTestMode, three seconds after the plugin was loaded.
TaskEnableBotTestMode ==
  /\ up /\ "botTest" \in onceTasks
  /\ onceTasks' = onceTasks \ {"botTest"}
  /\ botCvar' = "expert"
  /\ botQuota' = 2
  /\ UNCHANGED <<up, connVars, modeVars, seatVars, playVars, testMode, last,
                 idVars, warmCvar, warmCvarOld, botCvarOld, botCvarsModified,
                 startTasks, warmupVars, roundTasks, rejoin, reportVars>>

\* Task_WarmupTimer; the last tick is EndWarmup, which restores the cvars and
\* goes on to InitMatch without selecting players again.
WarmupTick ==
  /\ warmupTimer /\ warmupActive
  /\ roundTasks = {}
  /\ UNCHANGED seatVars
  /\ warmupSecLeft' = warmupSecLeft - 1
  /\ \/ /\ warmupSecLeft > 1
        /\ UNCHANGED <<warmupTimer, warmCvar, playVars, idVars, reportVars>>
     \/ /\ warmupSecLeft <= 1
        /\ warmupTimer' = FALSE
        /\ warmCvar' = warmCvarOld
        /\ BeginMatch
  /\ UNCHANGED <<up, connVars, modeVars, testMode, last, warmCvarOld, botCvar,
                 botCvarOld, botCvarsModified, botQuota, startTasks,
                 onceTasks, roundTasks, rejoin>>

-----------------------------------------------------------------------------
(* Rounds.                                                                  *)

\* The slot that plays the winning side; 2 when the round is drawn.
WinnerSlot(status) ==
  IF status = "draw" THEN 2 ELSE IF side[0] = status THEN 0 ELSE 1

Scored(w, slot) == IF slot = 2 THEN w ELSE [w EXCEPT ![slot] = @ + 1]

\* Seeded: only slot 0 can win early.
MatchDecidedBySlot0(n, w) == n >= TotalRounds \/ w[0] >= WinThreshold

\* Seeded: one round more than TOTAL_ROUNDS.
MatchDecidedOneLate(n, w) ==
  n > TotalRounds \/ w[0] >= WinThreshold \/ w[1] >= WinThreshold

\* The test that ends the match.
MatchDecided(n, w) ==
  n >= TotalRounds \/ w[0] >= WinThreshold \/ w[1] >= WinThreshold

\* Seeded: a match played out without a majority is forgotten; the sides are
\* swapped after the deciding round too.
RoundEndTasksNoTie(n, w) ==
  {"damage"} \cup
    (IF w[0] >= WinThreshold \/ w[1] >= WinThreshold THEN {"announce"}
     ELSE IF n < TotalRounds THEN {"swap"} ELSE {})
RoundEndTasksAlwaysSwap(n, w) ==
  {"damage", "swap"} \cup (IF MatchDecided(n, w) THEN {"announce"} ELSE {})

\* The tasks a round end creates, from the new score.
RoundEndTasks(n, w) ==
  {"damage", IF MatchDecided(n, w) THEN "announce" ELSE "swap"}

\* RoundEnd_Post.  The engine ends rounds only while mp_round_infinite is
\* off, and mp_round_restart_delay (1 s) after the previous one at least.
RoundEnd(status) ==
  /\ Live /\ warmCvar = "base"
  /\ roundTasks = {}
  /\ LET slot == WinnerSlot(status) IN
     /\ wins' = Scored(wins, slot)
     /\ last' = [num |-> roundNum, winner |-> slot]
     /\ roundTasks' = RoundEndTasks(roundNum, Scored(wins, slot))
  /\ UNCHANGED <<up, connVars, modeVars, seatVars, matchActive, warmupActive,
                 pendingReconnect, roundNum, testMode, idVars, cvarVars,
                 startTasks, onceTasks, warmupVars, rejoin, reportVars>>

\* Seeded: a drawn round is replayed on the same sides.
SwappedSidesUnlessDrawn ==
  IF last.winner = 2 THEN side ELSE [s \in Slots |-> side[Other(s)]]

SwappedSides == [s \in Slots |-> side[Other(s)]]

\* Task_AfterRoundEnd: SwapSides for the seated clients, then the next round.
AfterRoundEnd ==
  /\ "swap" \in roundTasks
  /\ roundTasks' = roundTasks \ {"swap"}
  /\ side' = SwappedSides
  /\ team' = [c \in Clients |->
                IF c = player[1] /\ ingame[c] THEN side[0]
                ELSE IF c = player[0] /\ ingame[c] THEN side[1] ELSE team[c]]
  /\ roundNum' = roundNum + 1
  /\ UNCHANGED <<up, user, auth, ingame, modeVars, player, authId,
                 matchActive, warmupActive, pendingReconnect, wins, testMode,
                 last, idVars, cvarVars, startTasks, onceTasks, warmupVars,
                 rejoin, reportVars>>

\* Seeded: the round is reported whoever is left.
RoundReportedAlways == TRUE

\* Task_RoundDamage reports the round, unless a seat is empty or its client
\* is not in the game.
RoundReported ==
  \A s \in Slots : player[s] # 0 /\ ingame[player[s]]

\* Seeded: the round number is read when the task runs.
ReportedRoundLate == [last EXCEPT !.num = roundNum]

\* The round reported is the one saved by RoundEnd: roundNum has moved on.
ReportedRound == last

RoundDamage ==
  /\ "damage" \in roundTasks /\ "swap" \notin roundTasks
  /\ roundTasks' = roundTasks \ {"damage"}
  /\ rounds' = IF RoundReported
               THEN [rounds EXCEPT ![matchId] = @ \cup {ReportedRound}] ELSE rounds
  /\ UNCHANGED <<up, connVars, modeVars, seatVars, playVars, testMode, last,
                 idVars, cvarVars, startTasks, onceTasks, warmupVars, rejoin,
                 starts, ends, firstSide>>

\* Task_AnnounceMatchResult: the match ends normally.  It does not look at
\* g_bMatchActive.
AnnounceMatchResult ==
  /\ "announce" \in roundTasks /\ "damage" \notin roundTasks
  /\ roundTasks' = roundTasks \ {"announce"}
  /\ EndMatch
  /\ rejoin' = AllOrphaned(rejoin)
  /\ UNCHANGED <<up, startTasks, onceTasks>>

-----------------------------------------------------------------------------
(* Ending a match early, and reloading the server.                          *)

\* CmdStop and CmdConsoleStop, then AbortMatch("manual_stop").
CmdStop ==
  /\ "stop" \in Commands
  /\ matchActive
  /\ EndMatch
  /\ rejoin' = AllOrphaned(rejoin)
  /\ UNCHANGED <<up, startTasks, onceTasks, roundTasks>>

\* Task_AbortIfNoReconnect, 60 seconds after a drop: the oldest timer of the
\* slot fires, whichever drop it was created for.
Fired(r) == IF r.stale > 0 THEN [r EXCEPT !.stale = @ - 1]
            ELSE [stale |-> 0, live |-> FALSE]

AbortIfNoReconnect(s) ==
  /\ TimerCount(rejoin[s]) > 0
  /\ LET left == [rejoin EXCEPT ![s] = Fired(@)] IN
     \/ /\ matchActive /\ pendingReconnect[s]
        /\ EndMatch
        /\ rejoin' = AllOrphaned(left)
     \/ /\ ~(matchActive /\ pendingReconnect[s])
        /\ rejoin' = left
        /\ UNCHANGED <<connVars, modeVars, seatVars, playVars, testMode, last,
                       idVars, cvarVars, warmupVars, reportVars>>
  /\ UNCHANGED <<up, startTasks, onceTasks, roundTasks>>

\* The same, when the plugin is loaded again by a map change or a restart.
PluginLoad ==
  /\ user' = [c \in Clients |-> NoUser]
  /\ auth' = [c \in Clients |-> FALSE]
  /\ ingame' = [c \in Clients |-> FALSE]
  /\ team' = [c \in Clients |-> "NONE"]
  /\ modeTeam' \in IF MatchMode THEN SideSplits
                  ELSE {[s \in Slots |-> IF s = 0 THEN "T" ELSE "CT"]}
  /\ modeConnected' = NoFlags /\ modePlayer' = NoSeats
  /\ matchActive' = FALSE /\ warmupActive' = FALSE /\ testMode' = FALSE
  /\ player' = NoSeats /\ authId' = [s \in Slots |-> NoUser]
  /\ side' = [s \in Slots |-> IF s = 0 THEN "T" ELSE "CT"]
  /\ pendingReconnect' = NoFlags
  /\ wins' = NoSeats /\ roundNum' = 0
  /\ last' = [num |-> 0, winner |-> 2]
  /\ matchId' = 0
  /\ botCvar' = "base" /\ botCvarOld' = "base" /\ botCvarsModified' = FALSE
  /\ botQuota' = 0
  /\ startTasks' = 0
  /\ onceTasks' = IF MatchMode /\ BotTestMode THEN {"botTest"} ELSE {}
  /\ warmupTimer' = FALSE /\ warmupSecLeft' = 0
  /\ roundTasks' = {}
  /\ rejoin' = NoTimer

\* CmdMap, then Task_ChangeMap 3 seconds later: the plugin is loaded again.
\* server.cfg sets the bot cvars, nothing sets those of the warm-up.
CmdMap ==
  /\ "map" \in Commands
  /\ up /\ ~matchActive /\ "map" \notin onceTasks
  /\ onceTasks' = onceTasks \cup {"map"}
  /\ UNCHANGED <<up, connVars, modeVars, seatVars, playVars, testMode, last,
                 idVars, cvarVars, startTasks, warmupVars, roundTasks, rejoin,
                 reportVars>>

ChangeMap ==
  /\ "map" \in onceTasks
  /\ PluginLoad
  /\ UNCHANGED <<up, warmCvar, warmCvarOld, lastId, reportVars>>

\* CmdHardReset or Task_DailyRestart, then DoHardReset a second later.  The
\* standing test server is restarted by docker; the container of a match has
\* no restart policy.
CmdHardReset ==
  /\ "hardreset" \in Commands
  /\ up /\ ~matchActive /\ "quit" \notin onceTasks
  /\ onceTasks' = onceTasks \cup {"quit"}
  /\ UNCHANGED <<up, connVars, modeVars, seatVars, playVars, testMode, last,
                 idVars, cvarVars, startTasks, warmupVars, roundTasks, rejoin,
                 reportVars>>

DoHardReset ==
  /\ "quit" \in onceTasks
  /\ up' = ~MatchMode
  /\ PluginLoad
  /\ warmCvar' = "base" /\ warmCvarOld' = "base"
  /\ UNCHANGED <<lastId, reportVars>>

-----------------------------------------------------------------------------
Next ==
  \/ \E u \in Users : Connect(u)
  \/ \E b \in Bots : BotJoin(b)
  \/ \E c \in Clients : Authorized(c)
  \/ \E c \in Clients : PutInServer(c)
  \/ \E c \in Clients : Disconnect(c)
  \/ \E c \in Clients : Spawn(c)
  \/ \E c \in Clients, t \in TeamChoices : ChooseTeam(c, t)
  \/ EnforceSpectators
  \/ CmdStart
  \/ \E test \in BOOLEAN, r \in Clients \cup {0} : StartWithBot(test, r)
  \/ TaskStartMatch
  \/ TaskStartMatchMode
  \/ TaskEnableBotTestMode
  \/ WarmupTick
  \/ \E status \in Sides \cup {"draw"} : RoundEnd(status)
  \/ AfterRoundEnd
  \/ RoundDamage
  \/ AnnounceMatchResult
  \/ CmdStop
  \/ \E s \in Slots : AbortIfNoReconnect(s)
  \/ CmdMap
  \/ ChangeMap
  \/ CmdHardReset
  \/ DoHardReset

Spec == Init /\ [][Next]_vars

\* The plugin's tasks fire when they are due, and mp_roundtime ends a round
\* that nobody wins.  Players owe nothing.
FairSpec ==
  /\ Spec
  /\ WF_vars(TaskStartMatch) /\ WF_vars(TaskStartMatchMode)
  /\ WF_vars(WarmupTick)
  /\ WF_vars(\E status \in Sides \cup {"draw"} : RoundEnd(status))
  /\ WF_vars(AfterRoundEnd) /\ WF_vars(RoundDamage)
  /\ WF_vars(AnnounceMatchResult)
  /\ \A s \in Slots : WF_vars(AbortIfNoReconnect(s))

-----------------------------------------------------------------------------
(* Properties.                                                              *)

RoundRecords == [num : 0..TotalRounds, winner : 0..2]
Timers == [stale : Nat, live : BOOLEAN]
TaskNames == {"startMode", "botTest", "map", "quit"}

FlagOK ==
  /\ up \in BOOLEAN
  /\ matchActive \in BOOLEAN /\ warmupActive \in BOOLEAN
  /\ testMode \in BOOLEAN
  /\ botCvarsModified \in BOOLEAN
  /\ warmupTimer \in BOOLEAN

ConnOK ==
  /\ user \in [Clients -> Users \cup Bots \cup {NoUser}]
  /\ auth \in [Clients -> BOOLEAN]
  /\ ingame \in [Clients -> BOOLEAN]
  /\ team \in [Clients -> Teams]

ModeOK ==
  /\ modeTeam \in [Slots -> Sides]
  /\ modeConnected \in [Slots -> BOOLEAN]
  /\ modePlayer \in [Slots -> Clients \cup {0}]

SeatOK ==
  /\ player \in [Slots -> Clients \cup {0}]
  /\ side \in [Slots -> Sides]
  /\ authId \in [Slots -> Users \cup Bots \cup {NoUser}]

PlayOK ==
  /\ pendingReconnect \in [Slots -> BOOLEAN]
  /\ wins \in [Slots -> 0..WinThreshold]
  /\ roundNum \in 0..TotalRounds
  /\ last \in RoundRecords
  /\ matchId \in Ids /\ lastId \in Ids

CvarOK ==
  /\ warmCvar \in {"base", "warmup"} /\ warmCvarOld \in {"base", "warmup"}
  /\ botCvar \in {"base", "expert"} /\ botCvarOld \in {"base", "expert"}
  /\ botQuota \in 0..2

TaskOK ==
  /\ startTasks \in Nat
  /\ onceTasks \subseteq TaskNames
  /\ warmupSecLeft \in Int
  /\ roundTasks \subseteq {"swap", "damage", "announce"}
  /\ rejoin \in [Slots -> Timers]

ReportOK ==
  /\ starts \in [Ids -> 0..2] /\ ends \in [Ids -> 0..2]
  /\ rounds \in [Ids -> SUBSET RoundRecords]
  /\ firstSide \in Sides

\* The type of every variable: the score stays within the threshold and the
\* round number within the number of rounds.
TypeOK ==
  /\ FlagOK /\ ConnOK /\ ModeOK /\ SeatOK
  /\ PlayOK /\ CvarOK /\ TaskOK /\ ReportOK

\* A match never runs past the round that decides it: whoever reaches the
\* threshold has the announcement pending, the score never exceeds the
\* rounds played, and the last round is never followed by another
\* (RoundEnd_Post, Task_AfterRoundEnd, Task_AnnounceMatchResult).
DecidedMatchIsAnnounced ==
  Live => /\ (\E s \in Slots : wins[s] >= WinThreshold)
               => "announce" \in roundTasks
          /\ wins[0] + wins[1] + (IF roundTasks \cap {"swap", "announce"} = {}
                                  THEN 1 ELSE 0) <= roundNum
          /\ "swap" \in roundTasks => roundNum < TotalRounds

\* The players swap sides after every round, drawn, won or abandoned by one
\* of them: the side of a slot in round n depends on the parity of n only.
SidesAlternate ==
  Live => /\ side[0] # side[1]
          /\ (side[0] = firstSide) <=> (roundNum % 2 = 1)

\* A seat is held by the player whose id the reports carry: no client that
\* reuses an entity, and nobody else who joins, plays for another
\* (SelectMatchPlayers, client_disconnected, client_authorized).
SeatsHoldTheirPlayers ==
  \A s \in Slots : player[s] # 0 =>
    /\ matchActive
    /\ user[player[s]] = authId[s]
    /\ player[s] # player[Other(s)]

\* Whoever waits for a reconnect left an empty seat in an active match, and
\* a timer created by that very drop will end the wait (client_disconnected,
\* Task_AbortIfNoReconnect).
WaitIsTimed ==
  \A s \in Slots : pendingReconnect[s] =>
    matchActive /\ player[s] = 0 /\ rejoin[s].live

\* The round_end reports of the match in progress agree with its score: no
\* round is reported twice with different winners, and no slot is reported
\* to have won more rounds than it is credited with.
ReportsAgreeWithScore ==
  Live =>
    /\ \A r, q \in rounds[matchId] : r.num = q.num => r = q
    /\ \A s \in Slots :
         Cardinality({r \in rounds[matchId] : r.winner = s}) <= wins[s]

\* A match that was reported to start is reported to end: the platform never
\* waits for the end of a match that is no longer played.
StartedMatchIsClosed ==
  \A i \in Ids : starts[i] > 0 /\ ends[i] = 0 => matchActive /\ matchId = i

\* In match mode the container plays its match once: it is not started again
\* after it was started, and the server stays idle once it was stopped.
ModePlaysOnce ==
  MatchMode => /\ starts[1] <= 1
               /\ \A i \in Ids : ends[i] > 0 => ~matchActive

\* No round of a match is reported after its end, or before its start.
NoRoundAfterEnd ==
  [][\A i \in Ids : rounds'[i] # rounds[i] => starts[i] > 0 /\ ends[i] = 0]_vars

\* The cvars of the warm-up are those of the server again when it is over:
\* mp_round_infinite in particular, without which no round would ever end.
WarmupCvarsRestored == ~warmupActive => warmCvar = "base"

\* A match that got going is over some day, whoever leaves it.
LiveMatchEnds == Live ~> ~matchActive

-----------------------------------------------------------------------------
(* What the comments and the documents say, and the code does not do.       *)

\* A drop leaves 60 seconds to reconnect: the match is only cancelled by the
\* timer of a drop that was never answered.
FullReconnectWait ==
  [][\A s \in Slots :
       AbortIfNoReconnect(s) /\ matchActive' # matchActive
         => rejoin[s].stale = 0]_vars

=============================================================================
