---------------------------- MODULE MatchProofs ----------------------------
(***************************************************************************)
(* Theorems about the match plugin, for any number of clients, players,    *)
(* bots, rounds and pending timers.                                        *)
(*                                                                         *)
(* TypeOK is not inductive: the score stays within the threshold only       *)
(* because a round never ends while the announcement of the previous one   *)
(* is pending, and the round number within the last only because a swap is *)
(* never scheduled in the last round.  ScoreInv adds both, and the score   *)
(* outside a match.                                                        *)
(***************************************************************************)
EXTENDS Match, TLAPS

\* A round can only end while nobody has won yet, and a swap pending leaves
\* a round to be played.
ScoreInv ==
  /\ warmupActive => matchActive
  /\ ~Live => wins = NoSeats
  /\ Live => roundNum >= 1
  /\ Live /\ "announce" \notin roundTasks =>
       \A s \in Slots : wins[s] < WinThreshold
  /\ "swap" \in roundTasks => TotalRounds >= 2 /\ roundNum < TotalRounds

Inv == TypeOK /\ ScoreInv

-----------------------------------------------------------------------------
(* The invariant holds at first, and every action keeps it.                 *)

LEMMA Bounds ==
  /\ TotalRounds \in Nat \ {0} /\ WinThreshold \in Nat \ {0}
  /\ MaxClients \in Nat /\ MaxMatches \in Nat \ {0} /\ WarmupTime \in Nat
  /\ MaxTimers \in Nat /\ MaxStartTasks \in Nat
BY MatchAssumption

LEMMA InitInv == Init => Inv
<1> SUFFICES ASSUME Init PROVE Inv
  OBVIOUS
<1> USE DEF Init, PluginInit
<1>0. FlagOK
  BY DEF FlagOK
<1>1. ConnOK
  BY DEF ConnOK, Teams
<1>2. ModeOK
  BY DEF ModeOK, SideSplits, NoFlags, NoSeats, Sides, Slots
<1>3. SeatOK
  BY DEF SeatOK, NoSeats, Sides, Slots
<1>4. PlayOK
  BY Bounds DEF PlayOK, NoFlags, NoSeats, Slots, RoundRecords, Ids
<1>5. CvarOK
  BY DEF CvarOK
<1>6. TaskOK
  BY DEF TaskOK, Timers, TaskNames, NoTimer, Slots
<1>7. ReportOK
  BY Bounds DEF ReportOK, Ids, Sides, RoundRecords
<1>8. ScoreInv
  BY Bounds DEF ScoreInv, Live
<1>. QED
  BY <1>0, <1>1, <1>2, <1>3, <1>4, <1>5, <1>6, <1>7, <1>8 DEF Inv, TypeOK

LEMMA Frame ==
  ASSUME Inv
  PROVE  /\ UNCHANGED <<up, matchActive, warmupActive, testMode,
                        botCvarsModified, warmupTimer>> => FlagOK'
         /\ UNCHANGED connVars => ConnOK'
         /\ UNCHANGED modeVars => ModeOK'
         /\ UNCHANGED seatVars => SeatOK'
         /\ UNCHANGED <<pendingReconnect, wins, roundNum, last, idVars>>
              => PlayOK'
         /\ UNCHANGED <<warmCvar, warmCvarOld, botCvar, botCvarOld, botQuota>>
              => CvarOK'
         /\ UNCHANGED <<startTasks, onceTasks, warmupSecLeft, roundTasks,
                        rejoin>> => TaskOK'
         /\ UNCHANGED reportVars => ReportOK'
         /\ UNCHANGED <<matchActive, warmupActive, wins, roundNum, roundTasks>>
              => ScoreInv'
<1> USE DEF Inv, TypeOK
<1>1. UNCHANGED <<up, matchActive, warmupActive, testMode, botCvarsModified,
                  warmupTimer>> => FlagOK'
  BY DEF FlagOK
<1>2. UNCHANGED connVars => ConnOK'
  BY DEF ConnOK, connVars
<1>3. UNCHANGED modeVars => ModeOK'
  BY DEF ModeOK, modeVars
<1>4. UNCHANGED seatVars => SeatOK'
  BY DEF SeatOK, seatVars
<1>5. UNCHANGED <<pendingReconnect, wins, roundNum, last, idVars>> => PlayOK'
  BY DEF PlayOK, idVars
<1>6. UNCHANGED <<warmCvar, warmCvarOld, botCvar, botCvarOld, botQuota>>
        => CvarOK'
  BY DEF CvarOK
<1>7. UNCHANGED <<startTasks, onceTasks, warmupSecLeft, roundTasks, rejoin>>
        => TaskOK'
  BY DEF TaskOK
<1>8. UNCHANGED reportVars => ReportOK'
  BY DEF ReportOK, reportVars
<1>9. UNCHANGED <<matchActive, warmupActive, wins, roundNum, roundTasks>>
        => ScoreInv'
  BY DEF ScoreInv, Live
<1>. QED
  BY <1>1, <1>2, <1>3, <1>4, <1>5, <1>6, <1>7, <1>8, <1>9

LEMMA TimerTypes ==
  ASSUME NEW r \in Timers
  PROVE  Orphaned(r) \in Timers /\ Armed(r) \in Timers /\ Fired(r) \in Timers
<1>1. \A n \in Nat, l \in BOOLEAN : [stale |-> n, live |-> l] \in Timers
  BY DEF Timers
<1>2. /\ r.stale \in Nat /\ r.live \in BOOLEAN
      /\ r = [stale |-> r.stale, live |-> r.live]
  BY DEF Timers
<1>3. TimerCount(r) \in Nat
  <2>1. (IF r.live THEN 1 ELSE 0) \in Nat
    OBVIOUS
  <2>. QED
    BY <1>2, <2>1 DEF TimerCount
<1>4. Orphaned(r) \in Timers /\ Armed(r) \in Timers
  BY <1>1, <1>3, Zenon DEF Orphaned, Armed
<1>5. Fired(r) \in Timers
  <2>1. CASE r.stale > 0
    <3>1. [r EXCEPT !.stale = @ - 1] = [stale |-> r.stale - 1, live |-> r.live]
      BY <1>2
    <3>2. r.stale - 1 \in Nat
      BY <1>2, <2>1
    <3>3. Fired(r) = [r EXCEPT !.stale = @ - 1]
      BY <2>1, Zenon DEF Fired
    <3>. QED
      BY <1>1, <1>2, <3>1, <3>2, <3>3, Zenon
  <2>2. CASE ~(r.stale > 0)
    <3>1. Fired(r) = [stale |-> 0, live |-> FALSE]
      BY <2>2, Zenon DEF Fired
    <3>. QED
      BY <1>1, <3>1, Zenon
  <2>. QED
    BY <2>1, <2>2
<1>. QED
  BY <1>4, <1>5

LEMMA AllOrphanedType ==
  ASSUME NEW rj \in [Slots -> Timers]
  PROVE  AllOrphaned(rj) \in [Slots -> Timers]
BY TimerTypes DEF AllOrphaned

LEMMA ConnectInv == ASSUME Inv, NEW u \in Users, Connect(u) PROVE Inv'
<1>1. ConnOK'
  BY DEF Connect, Inv, TypeOK, ConnOK
<1>. QED
  BY <1>1, Frame DEF Connect, Inv, TypeOK, playVars, cvarVars, warmupVars

LEMMA PutInServerInv == ASSUME Inv, NEW c \in Clients, PutInServer(c) PROVE Inv'
<1>1. SeatedTeam(c) \in Teams
  <2>1. CASE matchActive
    BY <2>1 DEF SeatedTeam, GetSlot, Inv, TypeOK, SeatOK, Slots, Teams
  <2>2. CASE ~matchActive /\ ~MatchMode
    BY <2>2 DEF SeatedTeam, Inv, TypeOK, ConnOK
  <2>3. CASE ~matchActive /\ MatchMode
    BY <2>3 DEF SeatedTeam, Inv, TypeOK, ModeOK, Teams
  <2>. QED
    BY <2>1, <2>2, <2>3
<1>2. ConnOK'
  BY <1>1 DEF PutInServer, Inv, TypeOK, ConnOK
<1>. QED
  BY <1>2, Frame DEF PutInServer, Inv, TypeOK, playVars, cvarVars, warmupVars

LEMMA ChooseTeamInv ==
  ASSUME Inv, NEW c \in Clients, NEW t \in TeamChoices, ChooseTeam(c, t)
  PROVE  Inv'
<1>1. t \in Teams
  BY MatchAssumption DEF Teams
<1>2. ConnOK'
  BY <1>1 DEF ChooseTeam, Inv, TypeOK, ConnOK
<1>. QED
  BY <1>2, Frame DEF ChooseTeam, Inv, TypeOK, playVars, cvarVars, warmupVars

LEMMA SpawnInv == ASSUME Inv, NEW c \in Clients, Spawn(c) PROVE Inv'
<1>1. side[GetSlot(c)] \in Teams
  BY DEF GetSlot, Inv, TypeOK, SeatOK, Slots, Teams
<1>2. ConnOK'
  BY <1>1 DEF Spawn, Inv, TypeOK, ConnOK
<1>. QED
  BY <1>2, Frame DEF Spawn, Inv, TypeOK, playVars, cvarVars, warmupVars

LEMMA EnforceSpectatorsInv == ASSUME Inv, EnforceSpectators PROVE Inv'
<1>1. ConnOK'
  BY DEF EnforceSpectators, Inv, TypeOK, ConnOK, Teams
<1>. QED
  BY <1>1, Frame
     DEF EnforceSpectators, Inv, TypeOK, playVars, cvarVars, warmupVars

LEMMA JoinModeSlotTypes ==
  ASSUME Inv, NEW s \in Slots, NEW c \in Clients, JoinModeSlot(s, c)
  PROVE  ModeOK' /\ onceTasks' \subseteq TaskNames
BY DEF JoinModeSlot, Inv, TypeOK, ModeOK, TaskOK, TaskNames

LEMMA BotJoinInv == ASSUME Inv, NEW b \in Bots, BotJoin(b) PROVE Inv'
<1>1. ConnOK'
  BY DEF BotJoin, Inv, TypeOK, ConnOK, Teams
<1>2. ModeOK' /\ onceTasks' \subseteq TaskNames
  <2>1. PICK c \in Clients :
          \/ JoinModeSlot(0, c) \/ JoinModeSlot(1, c)
          \/ UNCHANGED <<modeVars, onceTasks>>
    BY DEF BotJoin
  <2>. QED
    BY <2>1, JoinModeSlotTypes, Frame DEF Slots, Inv, TypeOK, TaskOK
<1>3. TaskOK'
  BY <1>2 DEF BotJoin, Inv, TypeOK, TaskOK, warmupVars
<1>. QED
  BY <1>1, <1>2, <1>3, Frame
     DEF BotJoin, Inv, TypeOK, playVars, cvarVars, warmupVars

LEMMA AuthorizedInv == ASSUME Inv, NEW c \in Clients, Authorized(c) PROVE Inv'
<1>1. ConnOK'
  BY DEF Authorized, Inv, TypeOK, ConnOK
<1>2. ModeOK' /\ SeatOK' /\ PlayOK' /\ TaskOK'
  <2>1. CASE \E s \in ModeSlots(user[c]) :
               JoinModeSlot(s, c) /\ UNCHANGED <<player, pendingReconnect, rejoin>>
    BY <2>1, JoinModeSlotTypes, Frame
       DEF Authorized, ModeSlots, Inv, TypeOK, SeatOK, PlayOK, TaskOK, idVars,
           warmupVars
  <2>2. CASE \E s \in RejoinSlots(user[c]) :
               /\ player' = [player EXCEPT ![s] = c]
               /\ pendingReconnect' = [pendingReconnect EXCEPT ![s] = FALSE]
               /\ rejoin' = [rejoin EXCEPT ![s] = Orphaned(@)]
               /\ UNCHANGED <<modeVars, onceTasks>>
    <3>1. PICK s \in Slots :
               /\ player' = [player EXCEPT ![s] = c]
               /\ pendingReconnect' = [pendingReconnect EXCEPT ![s] = FALSE]
               /\ rejoin' = [rejoin EXCEPT ![s] = Orphaned(@)]
               /\ UNCHANGED <<modeVars, onceTasks>>
      BY <2>2 DEF RejoinSlots
    <3>2. SeatOK'
      BY <3>1 DEF Authorized, Inv, TypeOK, SeatOK
    <3>3. PlayOK'
      BY <3>1 DEF Authorized, Inv, TypeOK, PlayOK, idVars
    <3>4. TaskOK'
      BY <3>1, TimerTypes DEF Authorized, Inv, TypeOK, TaskOK, warmupVars
    <3>. QED
      BY <3>1, <3>2, <3>3, <3>4, Frame
  <2>3. CASE UNCHANGED <<modeVars, onceTasks, player, pendingReconnect, rejoin>>
    BY <2>3, Frame DEF Authorized, Inv, TypeOK, seatVars, warmupVars
  <2>. QED
    BY <2>1, <2>2, <2>3 DEF Authorized
<1>. QED
  BY <1>1, <1>2, Frame DEF Authorized, Inv, TypeOK, cvarVars, warmupVars

LEMMA DisconnectInv == ASSUME Inv, NEW c \in Clients, Disconnect(c) PROVE Inv'
<1>1. ConnOK'
  BY DEF Disconnect, Inv, TypeOK, ConnOK, Teams
<1>2. GetSlot(c) \in Slots
  BY DEF GetSlot, Slots
<1>3. SeatOK'
  BY <1>2 DEF Disconnect, Inv, TypeOK, SeatOK
<1>4. PlayOK'
  BY <1>2 DEF Disconnect, Inv, TypeOK, PlayOK, idVars
<1>5. TaskOK'
  BY <1>2, TimerTypes DEF Disconnect, Inv, TypeOK, TaskOK, warmupVars
<1>. QED
  BY <1>1, <1>3, <1>4, <1>5, Frame
     DEF Disconnect, Inv, TypeOK, cvarVars, warmupVars

LEMMA SelectTypes ==
  ASSUME Inv, SelectMatchPlayers
  PROVE  SeatOK' /\ team' \in [Clients -> Teams]
<1>1. PICK p \in IF MatchMode THEN {modePlayer}
                 ELSE {f \in [Slots -> Candidates] : f[0] # f[1]},
           sd \in IF MatchMode THEN {modeTeam} ELSE SideSplits :
        /\ player' = p /\ side' = sd
        /\ authId' = IF MatchMode THEN SteamId ELSE [s \in Slots |-> user[p[s]]]
        /\ team' = [c \in Clients |->
                      IF c = p[1] THEN sd[1]
                      ELSE IF c = p[0] THEN sd[0]
                      ELSE IF ~MatchMode /\ ingame[c] THEN "SPEC" ELSE team[c]]
  BY DEF SelectMatchPlayers
<1>2. /\ p \in [Slots -> Clients \cup {0}] /\ sd \in [Slots -> Sides]
      /\ MatchMode \/ p \in [Slots -> Clients]
  <2>1. CASE MatchMode
    BY <1>1, <2>1 DEF Inv, TypeOK, ModeOK
  <2>2. CASE ~MatchMode
    <3>1. p \in [Slots -> Candidates] /\ sd \in SideSplits
      BY <1>1, <2>2
    <3>2. Candidates \subseteq Clients
      BY DEF Candidates
    <3>. QED
      BY <3>1, <3>2 DEF SideSplits
  <2>. QED
    BY <2>1, <2>2
<1>3. authId' \in [Slots -> Users \cup Bots \cup {NoUser}]
  <2>1. CASE MatchMode
    BY <1>1, <2>1, MatchAssumption
  <2>2. CASE ~MatchMode
    BY <1>1, <1>2, <2>2 DEF Inv, TypeOK, ConnOK
  <2>. QED
    BY <2>1, <2>2
<1>4. sd[0] \in Teams /\ sd[1] \in Teams
  BY <1>2 DEF Slots, Teams
<1>5. team' \in [Clients -> Teams]
  BY <1>1, <1>4 DEF Inv, TypeOK, ConnOK, Teams
<1>. QED
  BY <1>1, <1>3, <1>5, <1>2 DEF SeatOK

LEMMA BeginTypes ==
  ASSUME Inv, BeginMatch, side' \in [Slots -> Sides],
         UNCHANGED <<last, roundTasks>>
  PROVE  PlayOK' /\ ReportOK' /\ ScoreInv'
<1>1. matchId' \in Ids /\ lastId' \in Ids
  BY Bounds DEF BeginMatch, GenerateMatchId, Inv, TypeOK, PlayOK, Ids
<1>2. wins' = NoSeats /\ roundNum' = 1 /\ pendingReconnect' = NoFlags
      /\ matchActive' = TRUE /\ warmupActive' = FALSE
  BY DEF BeginMatch
<1>3. PlayOK'
  BY <1>1, <1>2, Bounds
     DEF Inv, TypeOK, PlayOK, NoSeats, NoFlags, Slots, RoundRecords
<1>4. starts' \in [Ids -> 0..2]
  BY <1>1 DEF BeginMatch, Inc, Inv, TypeOK, ReportOK
<1>5. ReportOK'
  BY <1>4 DEF BeginMatch, Inv, TypeOK, ReportOK, Slots
<1>6. ScoreInv'
  BY <1>2, Bounds DEF Inv, ScoreInv, Live, NoSeats, Slots
<1>. QED
  BY <1>3, <1>5, <1>6

LEMMA StartWarmupInv ==
  ASSUME Inv, StartWarmup, UNCHANGED <<up, modeVars, last, roundTasks>>,
         testMode' \in BOOLEAN, startTasks' \in Nat,
         onceTasks' \subseteq onceTasks
  PROVE  Inv'
<1>1. CASE CanSelect /\ SelectMatchPlayers /\ EnterWarmup
           /\ rejoin' = AllOrphaned(rejoin) /\ UNCHANGED <<user, auth, ingame>>
  <2>1. SeatOK' /\ ConnOK'
    BY <1>1, SelectTypes DEF Inv, TypeOK, ConnOK
  <2>2. FlagOK'
    BY <1>1 DEF EnterWarmup, Inv, TypeOK, FlagOK
  <2>3. PlayOK'
    BY <1>1, Bounds
       DEF EnterWarmup, Inv, TypeOK, PlayOK, NoSeats, NoFlags, Slots, idVars
  <2>4. CvarOK'
    BY <1>1 DEF EnterWarmup, Inv, TypeOK, CvarOK
  <2>5. TaskOK'
    BY <1>1, AllOrphanedType, Bounds DEF EnterWarmup, Inv, TypeOK, TaskOK
  <2>6. ScoreInv'
    BY <1>1 DEF EnterWarmup, Inv, ScoreInv, Live
  <2>7. ReportOK' /\ ModeOK'
    BY <1>1, Frame DEF EnterWarmup
  <2>. QED
    BY <2>1, <2>2, <2>3, <2>4, <2>5, <2>6, <2>7 DEF Inv, TypeOK
<1>2. CASE UNCHANGED <<connVars, seatVars, playVars, cvarVars, warmupVars,
                       idVars, reportVars, rejoin>>
  <2>1. FlagOK'
    BY <1>2 DEF Inv, TypeOK, FlagOK, playVars, cvarVars, warmupVars
  <2>2. TaskOK'
    BY <1>2 DEF Inv, TypeOK, TaskOK, warmupVars
  <2>. QED
    BY <1>2, <2>1, <2>2, Frame DEF Inv, TypeOK, playVars, cvarVars
<1>. QED
  BY <1>1, <1>2 DEF StartWarmup

LEMMA CmdStartInv == ASSUME Inv, CmdStart PROVE Inv'
<1>1. testMode' \in BOOLEAN
  BY Zenon DEF CmdStart
<1>. QED
  BY <1>1, StartWarmupInv DEF CmdStart, Inv, TypeOK, TaskOK

LEMMA TaskStartMatchModeInv == ASSUME Inv, TaskStartMatchMode PROVE Inv'
<1>1. testMode' \in BOOLEAN
  BY Zenon DEF TaskStartMatchMode
<1>. QED
  BY <1>1, StartWarmupInv DEF TaskStartMatchMode, Inv, TypeOK, TaskOK

LEMMA TaskStartMatchInv == ASSUME Inv, TaskStartMatch PROVE Inv'
<1>1. startTasks' \in Nat
  BY DEF TaskStartMatch, Inv, TypeOK, TaskOK
<1>2. CASE StartWarmup
  BY <1>1, <1>2, StartWarmupInv
     DEF TaskStartMatch, Inv, TypeOK, FlagOK, TaskOK
<1>3. CASE SelectMatchPlayers /\ BeginMatch /\ rejoin' = AllOrphaned(rejoin)
           /\ UNCHANGED <<user, auth, ingame, cvarVars, warmupVars>>
  <2>1. SeatOK' /\ ConnOK'
    BY <1>3, SelectTypes DEF Inv, TypeOK, ConnOK
  <2>2. PlayOK' /\ ReportOK' /\ ScoreInv'
    BY <1>3, <2>1, BeginTypes DEF TaskStartMatch, SeatOK
  <2>3. TaskOK'
    BY <1>1, <1>3, AllOrphanedType
       DEF TaskStartMatch, Inv, TypeOK, TaskOK, warmupVars
  <2>4. FlagOK'
    BY <1>3
       DEF TaskStartMatch, BeginMatch, Inv, TypeOK, FlagOK, cvarVars, warmupVars
  <2>. QED
    BY <1>3, <2>1, <2>2, <2>3, <2>4, Frame
       DEF TaskStartMatch, Inv, TypeOK, cvarVars
<1>4. CASE UNCHANGED <<connVars, seatVars, playVars, cvarVars, warmupVars,
                       idVars, reportVars, rejoin>>
  <2>1. TaskOK'
    BY <1>1, <1>4 DEF TaskStartMatch, Inv, TypeOK, TaskOK, warmupVars
  <2>. QED
    BY <1>4, <2>1, Frame
       DEF TaskStartMatch, Inv, TypeOK, playVars, cvarVars, warmupVars
<1>. QED
  BY <1>2, <1>3, <1>4 DEF TaskStartMatch

LEMMA StartWithBotInv ==
  ASSUME Inv, NEW test \in BOOLEAN, NEW r \in Clients \cup {0},
         StartWithBot(test, r)
  PROVE  Inv'
<1>1. ConnOK'
  BY DEF StartWithBot, Inv, TypeOK, ConnOK, Teams
<1>2. FlagOK'
  BY Zenon DEF StartWithBot, Inv, TypeOK, FlagOK, playVars, warmupVars
<1>3. CvarOK'
  BY DEF StartWithBot, Inv, TypeOK, CvarOK
<1>4. TaskOK'
  BY DEF StartWithBot, Inv, TypeOK, TaskOK, warmupVars
<1>. QED
  BY <1>1, <1>2, <1>3, <1>4, Frame DEF StartWithBot, Inv, TypeOK, playVars

LEMMA TaskEnableBotTestModeInv ==
  ASSUME Inv, TaskEnableBotTestMode PROVE Inv'
<1>1. CvarOK'
  BY DEF TaskEnableBotTestMode, Inv, TypeOK, CvarOK
<1>2. TaskOK'
  BY DEF TaskEnableBotTestMode, Inv, TypeOK, TaskOK, warmupVars
<1>. QED
  BY <1>1, <1>2, Frame
     DEF TaskEnableBotTestMode, Inv, TypeOK, playVars, warmupVars

LEMMA WarmupTickInv == ASSUME Inv, WarmupTick PROVE Inv'
<1>1. CASE UNCHANGED <<warmupTimer, warmCvar, playVars, idVars, reportVars>>
  <2>1. FlagOK'
    BY <1>1 DEF WarmupTick, Inv, TypeOK, FlagOK, playVars
  <2>2. TaskOK'
    BY <1>1 DEF WarmupTick, Inv, TypeOK, TaskOK
  <2>. QED
    BY <1>1, <2>1, <2>2, Frame DEF WarmupTick, Inv, TypeOK, playVars
<1>2. CASE warmupTimer' = FALSE /\ warmCvar' = warmCvarOld /\ BeginMatch
  <2>1. PlayOK' /\ ReportOK' /\ ScoreInv'
    BY <1>2, BeginTypes DEF WarmupTick, Inv, TypeOK, SeatOK, seatVars
  <2>2. FlagOK'
    BY <1>2, Zenon DEF WarmupTick, BeginMatch, Inv, TypeOK, FlagOK
  <2>3. TaskOK'
    BY <1>2 DEF WarmupTick, Inv, TypeOK, TaskOK
  <2>4. CvarOK'
    BY <1>2 DEF WarmupTick, Inv, TypeOK, CvarOK
  <2>. QED
    BY <2>1, <2>2, <2>3, <2>4, Frame DEF WarmupTick, Inv, TypeOK
<1>. QED
  BY <1>1, <1>2 DEF WarmupTick

LEMMA RoundEndInv ==
  ASSUME Inv, NEW status \in Sides \cup {"draw"}, RoundEnd(status) PROVE Inv'
<1>1. WinnerSlot(status) \in {0, 1, 2}
  BY DEF WinnerSlot
<1>2. wins \in [Slots -> 0..WinThreshold] /\ roundNum \in 1..TotalRounds
      /\ \A s \in Slots : wins[s] < WinThreshold
  BY DEF RoundEnd, Inv, TypeOK, PlayOK, ScoreInv
<1>3. wins' \in [Slots -> 0..WinThreshold]
  BY <1>1, <1>2, Bounds DEF RoundEnd, Scored, Slots
<1>4. PlayOK'
  BY <1>1, <1>2, <1>3
     DEF RoundEnd, Inv, TypeOK, PlayOK, RoundRecords, idVars
<1>5. roundTasks' = RoundEndTasks(roundNum, wins')
  BY DEF RoundEnd
<1>6. TaskOK'
  BY <1>5 DEF RoundEnd, RoundEndTasks, Inv, TypeOK, TaskOK, warmupVars
<1>7. ScoreInv'
  <2>1. CASE MatchDecided(roundNum, wins')
    <3>1. roundTasks' = {"damage", "announce"}
      BY <1>5, <2>1 DEF RoundEndTasks
    <3>. QED
      BY <1>2, <3>1 DEF RoundEnd, Inv, ScoreInv, Live
  <2>2. CASE ~MatchDecided(roundNum, wins')
    <3>1. roundTasks' = {"damage", "swap"}
      BY <1>5, <2>2 DEF RoundEndTasks
    <3>2. roundNum < TotalRounds /\ wins'[0] < WinThreshold
          /\ wins'[1] < WinThreshold
      BY <1>2, <1>3, <2>2, Bounds DEF MatchDecided, Slots
    <3>. QED
      BY <1>2, <3>1, <3>2, Bounds DEF RoundEnd, Inv, ScoreInv, Live, Slots
  <2>. QED
    BY <2>1, <2>2
<1>. QED
  BY <1>4, <1>6, <1>7, Frame DEF RoundEnd, Inv, TypeOK, cvarVars, warmupVars

LEMMA AfterRoundEndInv == ASSUME Inv, AfterRoundEnd PROVE Inv'
<1>1. ConnOK'
  BY DEF AfterRoundEnd, Inv, TypeOK, ConnOK, SeatOK, Slots, Teams
<1>2. SeatOK'
  BY DEF AfterRoundEnd, SwappedSides, Other, Inv, TypeOK, SeatOK, Slots
<1>3. roundNum' = roundNum + 1 /\ roundNum < TotalRounds
  BY DEF AfterRoundEnd, Inv, ScoreInv
<1>4. PlayOK'
  BY <1>3, Bounds DEF AfterRoundEnd, Inv, TypeOK, PlayOK, idVars
<1>5. TaskOK'
  BY DEF AfterRoundEnd, Inv, TypeOK, TaskOK, warmupVars
<1>6. ScoreInv'
  BY <1>3 DEF AfterRoundEnd, Inv, TypeOK, PlayOK, ScoreInv, Live
<1>. QED
  BY <1>1, <1>2, <1>4, <1>5, <1>6, Frame
     DEF AfterRoundEnd, Inv, TypeOK, cvarVars, warmupVars

LEMMA RoundDamageInv == ASSUME Inv, RoundDamage PROVE Inv'
<1>1. TaskOK'
  BY DEF RoundDamage, Inv, TypeOK, TaskOK, warmupVars
<1>2. ReportOK'
  BY DEF RoundDamage, ReportedRound, Inv, TypeOK, PlayOK, ReportOK
<1>3. ScoreInv'
  BY DEF RoundDamage, Inv, ScoreInv, Live, playVars
<1>. QED
  BY <1>1, <1>2, <1>3, Frame
     DEF RoundDamage, Inv, TypeOK, playVars, cvarVars, warmupVars

LEMMA EndMatchInv ==
  ASSUME Inv, EndMatch, roundTasks' \subseteq roundTasks,
         rejoin' \in [Slots -> Timers], UNCHANGED <<up, startTasks, onceTasks>>
  PROVE  Inv'
<1> USE DEF EndMatch
<1>1. FlagOK'
  BY Zenon DEF RestoreServerCvars, Inv, TypeOK, FlagOK
<1>2. ConnOK'
  BY DEF KickAllBots, Inv, TypeOK, ConnOK, Teams
<1>3. SeatOK'
  BY DEF Inv, TypeOK, SeatOK, NoSeats
<1>4. PlayOK'
  BY Bounds DEF Inv, TypeOK, PlayOK, NoSeats, NoFlags, idVars
<1>5. CvarOK'
  BY DEF RestoreServerCvars, Inv, TypeOK, CvarOK
<1>6. TaskOK'
  BY DEF RestoreServerCvars, Inv, TypeOK, TaskOK
<1>7. ReportOK'
  BY DEF Closed, Inc, Inv, TypeOK, ReportOK, PlayOK, Sides
<1>8. ScoreInv'
  BY Bounds DEF RestoreServerCvars, Inv, ScoreInv, Live
<1>. QED
  BY <1>1, <1>2, <1>3, <1>4, <1>5, <1>6, <1>7, <1>8, Frame DEF Inv, TypeOK

LEMMA CmdStopInv == ASSUME Inv, CmdStop PROVE Inv'
BY EndMatchInv, AllOrphanedType DEF CmdStop, Inv, TypeOK, TaskOK

LEMMA AnnounceMatchResultInv == ASSUME Inv, AnnounceMatchResult PROVE Inv'
BY EndMatchInv, AllOrphanedType DEF AnnounceMatchResult, Inv, TypeOK, TaskOK

LEMMA AbortIfNoReconnectInv ==
  ASSUME Inv, NEW s \in Slots, AbortIfNoReconnect(s) PROVE Inv'
<1> DEFINE left == [rejoin EXCEPT ![s] = Fired(@)]
<1>1. left \in [Slots -> Timers]
  BY TimerTypes DEF Inv, TypeOK, TaskOK
<1>2. CASE EndMatch /\ rejoin' = AllOrphaned(left)
  BY <1>1, <1>2, EndMatchInv, AllOrphanedType DEF AbortIfNoReconnect
<1>3. CASE /\ rejoin' = left
           /\ UNCHANGED <<connVars, modeVars, seatVars, playVars, testMode,
                          last, idVars, cvarVars, warmupVars, reportVars>>
  <2>1. TaskOK'
    BY <1>1, <1>3 DEF AbortIfNoReconnect, Inv, TypeOK, TaskOK, warmupVars
  <2>. QED
    BY <1>3, <2>1, Frame
       DEF AbortIfNoReconnect, Inv, TypeOK, playVars, cvarVars, warmupVars
<1>. QED
  BY <1>2, <1>3 DEF AbortIfNoReconnect

LEMMA LoadInv ==
  ASSUME Inv, PluginLoad, up' \in BOOLEAN, warmCvar' \in {"base", "warmup"},
         warmCvarOld' \in {"base", "warmup"}, UNCHANGED <<lastId, reportVars>>
  PROVE  Inv'
<1> USE DEF PluginLoad
<1>1. FlagOK'
  BY Zenon DEF FlagOK
<1>2. ConnOK'
  BY DEF ConnOK, Teams
<1>3. ModeOK'
  <2>1. modeTeam' \in [Slots -> Sides]
    BY DEF SideSplits, Sides, Slots
  <2>. QED
    BY <2>1 DEF ModeOK, NoFlags, NoSeats
<1>4. SeatOK'
  BY DEF SeatOK, NoSeats, Sides, Slots
<1>5. PlayOK'
  BY Bounds DEF Inv, TypeOK, PlayOK, NoFlags, NoSeats, Slots, RoundRecords, Ids
<1>6. CvarOK'
  BY DEF CvarOK
<1>7. TaskOK'
  BY DEF TaskOK, Timers, TaskNames, NoTimer, Slots
<1>8. ScoreInv'
  BY Bounds DEF ScoreInv, Live
<1>. QED
  BY <1>1, <1>2, <1>3, <1>4, <1>5, <1>6, <1>7, <1>8, Frame DEF Inv, TypeOK

LEMMA ChangeMapInv == ASSUME Inv, ChangeMap PROVE Inv'
BY LoadInv DEF ChangeMap, Inv, TypeOK, FlagOK, CvarOK

LEMMA DoHardResetInv == ASSUME Inv, DoHardReset PROVE Inv'
<1>1. up' \in BOOLEAN
  BY MatchAssumption, Zenon DEF DoHardReset
<1>. QED
  BY <1>1, LoadInv DEF DoHardReset

LEMMA CmdMapInv == ASSUME Inv, CmdMap PROVE Inv'
<1>1. TaskOK'
  BY DEF CmdMap, Inv, TypeOK, TaskOK, TaskNames, warmupVars
<1>. QED
  BY <1>1, Frame DEF CmdMap, Inv, TypeOK, playVars, cvarVars, warmupVars

LEMMA CmdHardResetInv == ASSUME Inv, CmdHardReset PROVE Inv'
<1>1. TaskOK'
  BY DEF CmdHardReset, Inv, TypeOK, TaskOK, TaskNames, warmupVars
<1>. QED
  BY <1>1, Frame DEF CmdHardReset, Inv, TypeOK, playVars, cvarVars, warmupVars

LEMMA NextInv == Inv /\ [Next]_vars => Inv'
<1> SUFFICES ASSUME Inv, [Next]_vars PROVE Inv'
  OBVIOUS
<1>1. CASE UNCHANGED vars
  BY <1>1, Frame DEF vars, Inv, TypeOK, playVars, cvarVars, warmupVars
<1>2. CASE Next
  BY <1>2, ConnectInv, BotJoinInv, AuthorizedInv, PutInServerInv,
     DisconnectInv, SpawnInv, ChooseTeamInv, EnforceSpectatorsInv,
     CmdStartInv, StartWithBotInv, TaskStartMatchInv, TaskStartMatchModeInv,
     TaskEnableBotTestModeInv, WarmupTickInv, RoundEndInv, AfterRoundEndInv,
     RoundDamageInv, AnnounceMatchResultInv, CmdStopInv,
     AbortIfNoReconnectInv, CmdMapInv, ChangeMapInv, CmdHardResetInv,
     DoHardResetInv DEF Next
<1>. QED
  BY <1>1, <1>2

LEMMA Invariance == Spec => []Inv
BY InitInv, NextInv, PTL DEF Spec

\* The types of the match plugin's variables; in particular no slot is
\* credited with more rounds than win the match, and no round is numbered
\* past the last (RoundEnd_Post, Task_AfterRoundEnd).
THEOREM TypeCorrect == Spec => []TypeOK
BY Invariance, PTL DEF Inv

-----------------------------------------------------------------------------
(* What a step may do to the match being played.                            *)

Quiet == UNCHANGED <<matchActive, warmupActive, wins, roundNum, roundTasks,
                     side, modeTeam, firstSide>>

Warming == SelectMatchPlayers /\ EnterWarmup /\ UNCHANGED <<roundTasks, modeTeam>>

Beginning ==
  /\ BeginMatch
  /\ UNCHANGED <<roundTasks, modeTeam>>
  /\ (warmupActive /\ UNCHANGED side) \/ SelectMatchPlayers

Ending == EndMatch /\ roundTasks' \subseteq roundTasks

Loading == PluginLoad /\ UNCHANGED firstSide

LEMMA NextKinds ==
  ASSUME [Next]_vars
  PROVE  \/ Quiet \/ Warming \/ Beginning \/ Ending \/ Loading
         \/ \E status \in Sides \cup {"draw"} : RoundEnd(status)
         \/ AfterRoundEnd \/ RoundDamage
<1> USE DEF Quiet, playVars, seatVars, modeVars, reportVars
<1>1. CASE UNCHANGED vars
  BY <1>1 DEF vars
<1>2. ASSUME NEW u \in Users, Connect(u) PROVE Quiet
  BY <1>2 DEF Connect
<1>3. ASSUME NEW b \in Bots, BotJoin(b) PROVE Quiet
  BY <1>3 DEF BotJoin, JoinModeSlot
<1>4. ASSUME NEW c \in Clients, Authorized(c) PROVE Quiet
  BY <1>4 DEF Authorized, JoinModeSlot
<1>5. ASSUME NEW c \in Clients, PutInServer(c) \/ Disconnect(c) \/ Spawn(c)
      PROVE  Quiet
  BY <1>5 DEF PutInServer, Disconnect, Spawn
<1>6. ASSUME NEW c \in Clients, NEW t \in TeamChoices, ChooseTeam(c, t)
      PROVE  Quiet
  BY <1>6 DEF ChooseTeam
<1>7. CASE EnforceSpectators \/ TaskEnableBotTestMode \/ CmdMap \/ CmdHardReset
  BY <1>7 DEF EnforceSpectators, TaskEnableBotTestMode, CmdMap, CmdHardReset
<1>8. ASSUME NEW test \in BOOLEAN, NEW r \in Clients \cup {0},
             StartWithBot(test, r)
      PROVE  Quiet
  BY <1>8 DEF StartWithBot
<1>9. ASSUME StartWarmup, UNCHANGED <<roundTasks, modeTeam>>
      PROVE  Quiet \/ Warming
  BY <1>9 DEF StartWarmup, Warming
<1>10. CASE CmdStart
  BY <1>9, <1>10 DEF CmdStart
<1>11. CASE TaskStartMatch
  BY <1>9, <1>11 DEF TaskStartMatch, Beginning
<1>12. CASE TaskStartMatchMode
  BY <1>9, <1>12 DEF TaskStartMatchMode
<1>13. CASE WarmupTick
  BY <1>13 DEF WarmupTick, Beginning
<1>14. CASE AnnounceMatchResult \/ CmdStop
  BY <1>14 DEF AnnounceMatchResult, CmdStop, Ending
<1>15. ASSUME NEW s \in Slots, AbortIfNoReconnect(s) PROVE Quiet \/ Ending
  BY <1>15 DEF AbortIfNoReconnect, Ending
<1>16. CASE ChangeMap \/ DoHardReset
  BY <1>16 DEF ChangeMap, DoHardReset, Loading
<1>. QED
  BY <1>1, <1>2, <1>3, <1>4, <1>5, <1>6, <1>7, <1>8, <1>10, <1>11, <1>12,
     <1>13, <1>14, <1>15, <1>16 DEF Next

-----------------------------------------------------------------------------
(* A match is played up to the round that decides it.                       *)

RoundsScored ==
  Live => wins[0] + wins[1] + (IF roundTasks \cap {"swap", "announce"} = {}
                               THEN 1 ELSE 0) <= roundNum

LEMMA RoundsScoredStep ==
  Inv /\ Inv' /\ RoundsScored /\ [Next]_vars => RoundsScored'
<1> SUFFICES ASSUME Inv, Inv', RoundsScored, [Next]_vars, Live'
             PROVE  wins'[0] + wins'[1] +
                      (IF roundTasks' \cap {"swap", "announce"} = {}
                       THEN 1 ELSE 0) <= roundNum'
  BY DEF RoundsScored
<1>1. CASE Quiet
  BY <1>1 DEF Quiet, RoundsScored, Live
<1>2. CASE Warming
  BY <1>2 DEF Warming, EnterWarmup, Live
<1>3. CASE Beginning
  BY <1>3 DEF Beginning, BeginMatch, NoSeats, Slots
<1>4. CASE Ending
  BY <1>4 DEF Ending, EndMatch, Live
<1>5. CASE Loading
  BY <1>5 DEF Loading, PluginLoad, Live
<1>6. ASSUME NEW status \in Sides \cup {"draw"}, RoundEnd(status)
      PROVE  wins'[0] + wins'[1] +
               (IF roundTasks' \cap {"swap", "announce"} = {}
                THEN 1 ELSE 0) <= roundNum'
  <2>1. WinnerSlot(status) \in {0, 1, 2}
    BY DEF WinnerSlot
  <2>2. wins[0] \in Nat /\ wins[1] \in Nat /\ roundNum \in Nat
    BY Bounds DEF Inv, TypeOK, PlayOK, Slots
  <2>3. wins[0] + wins[1] + 1 <= roundNum
    BY <1>6 DEF RoundEnd, RoundsScored
  <2>4. wins'[0] + wins'[1] <= wins[0] + wins[1] + 1
    BY <1>6, <2>1, <2>2 DEF RoundEnd, Scored, Inv, TypeOK, PlayOK, Slots
  <2>5. roundTasks' \cap {"swap", "announce"} # {}
    BY <1>6 DEF RoundEnd, RoundEndTasks
  <2>6. wins'[0] \in Nat /\ wins'[1] \in Nat /\ roundNum' = roundNum
    BY <1>6, Bounds DEF RoundEnd, Inv, TypeOK, PlayOK, Slots
  <2>. QED
    BY <2>2, <2>3, <2>4, <2>5, <2>6
<1>7. CASE AfterRoundEnd
  <2>1. wins[0] \in Nat /\ wins[1] \in Nat /\ roundNum \in Nat
    BY Bounds DEF Inv, TypeOK, PlayOK, Slots
  <2>2. wins[0] + wins[1] <= roundNum
    BY <1>7, <2>1 DEF AfterRoundEnd, RoundsScored, Live
  <2>. QED
    BY <1>7, <2>1, <2>2 DEF AfterRoundEnd
<1>8. CASE RoundDamage
  <2>1. roundTasks' \cap {"swap", "announce"}
          = roundTasks \cap {"swap", "announce"}
    BY <1>8 DEF RoundDamage
  <2>. QED
    BY <1>8, <2>1 DEF RoundDamage, RoundsScored, Live, playVars
<1>. QED
  BY <1>1, <1>2, <1>3, <1>4, <1>5, <1>6, <1>7, <1>8, NextKinds

\* Whatever the number of rounds, a decided match is about to be announced
\* and plays no further round (RoundEnd_Post, Task_AfterRoundEnd).
THEOREM DecidedIsAnnounced == Spec => []DecidedMatchIsAnnounced
<1>1. Init => RoundsScored
  BY DEF Init, PluginInit, RoundsScored, Live
<1>2. Inv /\ RoundsScored => DecidedMatchIsAnnounced
  <2> SUFFICES ASSUME Inv, RoundsScored, Live PROVE DecidedMatchIsAnnounced
    BY DEF DecidedMatchIsAnnounced
  <2>1. \A s \in Slots : wins[s] \in Nat
    BY Bounds DEF Inv, TypeOK, PlayOK
  <2>2. (\E s \in Slots : wins[s] >= WinThreshold) => "announce" \in roundTasks
    BY <2>1, Bounds DEF Inv, ScoreInv
  <2>. QED
    BY <2>2 DEF RoundsScored, DecidedMatchIsAnnounced, Inv, ScoreInv
<1>. QED
  BY <1>1, <1>2, RoundsScoredStep, Invariance, PTL DEF Spec

-----------------------------------------------------------------------------
(* The sides.                                                               *)

SidesInv ==
  /\ side[0] # side[1] /\ modeTeam[0] # modeTeam[1]
  /\ SidesAlternate

LEMMA SidesStep == Inv /\ Inv' /\ SidesInv /\ [Next]_vars => SidesInv'
<1> SUFFICES ASSUME Inv, Inv', SidesInv, [Next]_vars PROVE SidesInv'
  OBVIOUS
<1> USE DEF SidesInv, SidesAlternate
<1>1. ASSUME SelectMatchPlayers PROVE side'[0] # side'[1]
  BY <1>1 DEF SelectMatchPlayers, SideSplits
<1>2. CASE Quiet
  BY <1>2 DEF Quiet, Live
<1>3. CASE Warming
  BY <1>1, <1>3 DEF Warming, EnterWarmup, Live
<1>4. CASE Beginning
  <2>1. side'[0] # side'[1]
    BY <1>1, <1>4 DEF Beginning
  <2>2. roundNum' % 2 = 1 /\ firstSide' = side'[0]
    BY <1>4 DEF Beginning, BeginMatch
  <2>. QED
    BY <1>4, <2>1, <2>2 DEF Beginning
<1>5. CASE Ending
  BY <1>5 DEF Ending, EndMatch, modeVars, Live
<1>6. CASE Loading
  <2>1. side'[0] # side'[1]
    BY <1>6 DEF Loading, PluginLoad, Slots
  <2>2. modeTeam'[0] # modeTeam'[1]
    BY <1>6 DEF Loading, PluginLoad, SideSplits, Slots
  <2>. QED
    BY <1>6, <2>1, <2>2 DEF Loading, PluginLoad, Live
<1>7. ASSUME NEW status \in Sides \cup {"draw"}, RoundEnd(status)
      PROVE  SidesInv'
  BY <1>7 DEF RoundEnd, seatVars, modeVars, reportVars, Live
<1>8. CASE AfterRoundEnd
  <2>1. side'[0] = side[1] /\ side'[1] = side[0]
    BY <1>8 DEF AfterRoundEnd, SwappedSides, Other, Slots
  <2>2. roundNum' = roundNum + 1 /\ roundNum \in Nat
    BY <1>8, Bounds DEF AfterRoundEnd, Inv, TypeOK, PlayOK
  <2>3. roundNum' % 2 = 1 <=> roundNum % 2 # 1
    BY <2>2
  <2>4. side[0] \in Sides /\ side[1] \in Sides /\ firstSide \in Sides
    BY DEF Inv, TypeOK, SeatOK, ReportOK, Slots
  <2>5. Live' => ((side'[0] = firstSide') <=> (roundNum' % 2 = 1))
    BY <1>8, <2>1, <2>3, <2>4 DEF AfterRoundEnd, reportVars, Live, Sides
  <2>. QED
    BY <1>8, <2>1, <2>5 DEF AfterRoundEnd, modeVars
<1>9. CASE RoundDamage
  BY <1>9 DEF RoundDamage, playVars, seatVars, modeVars, Live
<1>. QED
  BY <1>2, <1>3, <1>4, <1>5, <1>6, <1>7, <1>8, <1>9, NextKinds

\* In a match of any length the two seats play opposite sides and swap them
\* after every round (SelectMatchPlayers, SwapSides).
THEOREM SidesAreAlternated == Spec => []SidesAlternate
<1>1. Init => SidesInv
  <2>1. Init => modeTeam[0] # modeTeam[1]
    BY DEF Init, PluginInit, SideSplits, Slots
  <2>2. Init => side[0] # side[1] /\ ~Live
    BY DEF Init, PluginInit, Slots, Live
  <2>. QED
    BY <2>1, <2>2 DEF SidesInv, SidesAlternate
<1>2. SidesInv => SidesAlternate
  BY DEF SidesInv
<1>. QED
  BY <1>1, <1>2, SidesStep, Invariance, PTL DEF Spec

=============================================================================
