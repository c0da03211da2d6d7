------------------------- MODULE MatchReportProofs -------------------------
(***************************************************************************)
(* Theorems about what the match plugin reports and about the server       *)
(* variables it borrows for the warm-up.                                   *)
(*                                                                         *)
(* They are about servers that are used in a certain way, for otherwise    *)
(* the code does not keep them (see the README): the hypotheses say which  *)
(* commands are given, and each theorem has only those it needs.           *)
(***************************************************************************)
EXTENDS MatchSeatProofs, FiniteSetTheorems

\* No bot practice: the commands for it are refused in a match container.
NoPractice == MatchMode \/ Commands \cap {"start_bot", "start_bot_test"} = {}
\* The map is never changed.
NoMapChange == "map" \notin Commands
\* The plugin is never loaded again.
NoReload == Commands \cap {"map", "hardreset"} = {}

-----------------------------------------------------------------------------
(* What a step may do to a match, its reports and the cvars.                *)

Calm == UNCHANGED <<matchActive, warmupActive, wins, roundNum, roundTasks, last,
                    matchId, lastId, starts, ends, rounds, warmCvar, warmCvarOld>>

\* A match is warmed up.  Only Task_StartMatch does so while one is played.
Entering ==
  /\ EnterWarmup /\ UNCHANGED <<roundTasks, last>>
  /\ ~matchActive \/ startTasks > 0

\* A match begins: after its warm-up, or by the test of the bots.
Starting ==
  /\ BeginMatch /\ UNCHANGED <<roundTasks, last, warmCvarOld>>
  /\ \/ warmupActive /\ roundTasks = {} /\ warmCvar' = warmCvarOld
     \/ testMode /\ startTasks > 0

\* The plugin is loaded again.
Reloading ==
  /\ PluginLoad /\ UNCHANGED <<lastId, reportVars>>
  /\ \/ "map" \in onceTasks
     \/ "quit" \in onceTasks /\ warmCvar' = "base"

LEMMA ReportKinds ==
  ASSUME [Next]_vars
  PROVE  \/ Calm \/ Entering \/ Starting \/ Ending \/ Reloading
         \/ \E status \in Sides \cup {"draw"} : RoundEnd(status)
         \/ AfterRoundEnd \/ RoundDamage
<1> USE DEF Calm, playVars, idVars, cvarVars, reportVars
<1>1. CASE UNCHANGED vars
  BY <1>1 DEF vars
<1>2. ASSUME NEW u \in Users, Connect(u) PROVE Calm
  BY <1>2 DEF Connect
<1>3. ASSUME NEW b \in Bots, BotJoin(b) PROVE Calm
  BY <1>3 DEF BotJoin
<1>4. ASSUME NEW c \in Clients, Authorized(c) PROVE Calm
  BY <1>4 DEF Authorized
<1>5. ASSUME NEW c \in Clients, PutInServer(c) \/ Disconnect(c) \/ Spawn(c)
      PROVE  Calm
  BY <1>5 DEF PutInServer, Disconnect, Spawn
<1>6. ASSUME NEW c \in Clients, NEW t \in TeamChoices, ChooseTeam(c, t)
      PROVE  Calm
  BY <1>6 DEF ChooseTeam
<1>7. CASE EnforceSpectators \/ TaskEnableBotTestMode \/ CmdMap \/ CmdHardReset
  BY <1>7 DEF EnforceSpectators, TaskEnableBotTestMode, CmdMap, CmdHardReset
<1>8. ASSUME NEW test \in BOOLEAN, NEW r \in Clients \cup {0},
             StartWithBot(test, r)
      PROVE  Calm
  BY <1>8 DEF StartWithBot
<1>9. ASSUME StartWarmup, UNCHANGED <<roundTasks, last>>,
             ~matchActive \/ startTasks > 0
      PROVE  Calm \/ Entering
  BY <1>9 DEF StartWarmup, Entering
<1>10. CASE CmdStart \/ TaskStartMatchMode
  BY <1>9, <1>10 DEF CmdStart, TaskStartMatchMode
<1>11. CASE TaskStartMatch
  BY <1>9, <1>11 DEF TaskStartMatch, Starting
<1>12. CASE WarmupTick
  BY <1>12 DEF WarmupTick, Starting
<1>13. CASE AnnounceMatchResult \/ CmdStop
  BY <1>13 DEF AnnounceMatchResult, CmdStop, Ending
<1>14. ASSUME NEW s \in Slots, AbortIfNoReconnect(s) PROVE Calm \/ Ending
  BY <1>14 DEF AbortIfNoReconnect, Ending
<1>15. CASE ChangeMap \/ DoHardReset
  BY <1>15 DEF ChangeMap, DoHardReset, Reloading
<1>. QED
  BY <1>1, <1>2, <1>3, <1>4, <1>5, <1>6, <1>7, <1>8, <1>10, <1>11, <1>12,
     <1>13, <1>14, <1>15 DEF Next

\* The tasks that are never scheduled, because the commands that do so are
\* not given.
Unscheduled ==
  /\ NoPractice => startTasks = 0
  /\ (MatchMode \/ "start_bot_test" \notin Commands) => ~testMode
  /\ NoMapChange => "map" \notin onceTasks
  /\ NoReload => "quit" \notin onceTasks

LEMMA UnscheduledStep == Inv /\ Unscheduled /\ [Next]_vars => Unscheduled'
<1> SUFFICES ASSUME Inv, Unscheduled, [Next]_vars PROVE Unscheduled'
  OBVIOUS
<1> USE DEF Unscheduled
<1>1. CASE UNCHANGED <<startTasks, testMode, onceTasks>>
  BY <1>1
<1>2. ASSUME NEW b \in Bots, BotJoin(b) PROVE Unscheduled'
  BY <1>2 DEF BotJoin, JoinModeSlot
<1>3. ASSUME NEW c \in Clients, Authorized(c) PROVE Unscheduled'
  BY <1>3 DEF Authorized, JoinModeSlot
<1>4. ASSUME NEW test \in BOOLEAN, NEW r \in Clients \cup {0},
             StartWithBot(test, r)
      PROVE  Unscheduled'
  <2>1. ~NoPractice /\ ~MatchMode /\ onceTasks' = onceTasks
    BY <1>4 DEF StartWithBot, NoPractice
  <2>2. "start_bot_test" \notin Commands => ~testMode'
    BY <1>4 DEF StartWithBot
  <2>. QED
    BY <2>1, <2>2
<1>5. CASE CmdStart \/ TaskStartMatchMode \/ TaskEnableBotTestMode
  BY <1>5 DEF CmdStart, TaskStartMatchMode, TaskEnableBotTestMode
<1>6. CASE TaskStartMatch
  BY <1>6 DEF TaskStartMatch
<1>7. CASE CmdMap \/ CmdHardReset
  BY <1>7 DEF CmdMap, CmdHardReset, NoMapChange, NoReload
<1>8. CASE ChangeMap \/ DoHardReset
  BY <1>8 DEF ChangeMap, DoHardReset, PluginLoad
<1>9. CASE AnnounceMatchResult \/ CmdStop
  BY <1>9 DEF AnnounceMatchResult, CmdStop, EndMatch, RestoreServerCvars
<1>10. ASSUME NEW s \in Slots, AbortIfNoReconnect(s) PROVE Unscheduled'
  BY <1>10 DEF AbortIfNoReconnect, EndMatch, RestoreServerCvars
<1>11. CASE UNCHANGED vars
  BY <1>1, <1>11 DEF vars
<1>12. ASSUME NEW u \in Users, Connect(u) PROVE Unscheduled'
  BY <1>12 DEF Connect
<1>13. ASSUME NEW c \in Clients, PutInServer(c) \/ Disconnect(c) \/ Spawn(c)
      PROVE  Unscheduled'
  BY <1>13 DEF PutInServer, Disconnect, Spawn
<1>14. ASSUME NEW c \in Clients, NEW t \in TeamChoices, ChooseTeam(c, t)
      PROVE  Unscheduled'
  BY <1>14 DEF ChooseTeam
<1>15. CASE EnforceSpectators \/ WarmupTick \/ AfterRoundEnd \/ RoundDamage
  BY <1>15 DEF EnforceSpectators, WarmupTick, AfterRoundEnd, RoundDamage
<1>16. ASSUME NEW status \in Sides \cup {"draw"}, RoundEnd(status)
       PROVE  Unscheduled'
  BY <1>16 DEF RoundEnd
<1>. QED
  BY <1>2, <1>3, <1>4, <1>5, <1>6, <1>7, <1>8, <1>9, <1>10, <1>11, <1>12,
     <1>13, <1>14, <1>15, <1>16 DEF Next

LEMMA NothingUnscheduled == Spec => []Unscheduled
<1>1. Init => Unscheduled
  BY DEF Init, PluginInit, Unscheduled
<1>. QED
  BY <1>1, UnscheduledStep, Invariance, PTL DEF Spec

-----------------------------------------------------------------------------
(* The cvars of the warm-up.                                                *)

\* What the warm-up saved is what the server had, or it would give back its
\* own settings.
CvarInv == WarmupCvarsRestored /\ (warmupActive => warmCvarOld = "base")

LEMMA CvarStep ==
  ASSUME NoPractice, NoMapChange, Inv, Unscheduled, CvarInv, [Next]_vars
  PROVE  CvarInv'
<1> USE DEF CvarInv, WarmupCvarsRestored
<1>1. CASE Calm
  BY <1>1 DEF Calm
<1>2. CASE Entering
  BY <1>2 DEF Entering, EnterWarmup, Unscheduled, Inv, ScoreInv
<1>3. CASE Starting
  BY <1>3 DEF Starting, BeginMatch, Unscheduled
<1>4. CASE Ending
  BY <1>4 DEF Ending, EndMatch, RestoreServerCvars
<1>5. CASE Reloading
  BY <1>5 DEF Reloading, PluginLoad, Unscheduled
<1>6. ASSUME NEW status \in Sides \cup {"draw"}, RoundEnd(status) PROVE CvarInv'
  BY <1>6 DEF RoundEnd, cvarVars
<1>7. CASE AfterRoundEnd \/ RoundDamage
  BY <1>7 DEF AfterRoundEnd, RoundDamage, playVars, cvarVars
<1>. QED
  BY <1>1, <1>2, <1>3, <1>4, <1>5, <1>6, <1>7, ReportKinds

\* Without bot practice and map changes the server has its own round settings
\* whenever it is not warming up, however the warm-up ended (StartWarmup,
\* EndWarmup, RestoreServerCvars).
THEOREM CvarsAreRestored ==
  NoPractice /\ NoMapChange => (Spec => []WarmupCvarsRestored)
<1> SUFFICES ASSUME NoPractice, NoMapChange PROVE Spec => []WarmupCvarsRestored
  OBVIOUS
<1>1. Init => CvarInv
  BY DEF Init, PluginInit, CvarInv, WarmupCvarsRestored
<1>2. Inv /\ Unscheduled /\ CvarInv /\ [Next]_vars => CvarInv'
  BY CvarStep
<1>3. CvarInv => WarmupCvarsRestored
  BY DEF CvarInv
<1>. QED
  BY <1>1, <1>2, <1>3, Invariance, NothingUnscheduled, PTL DEF Spec

-----------------------------------------------------------------------------
(* A match that was reported to start is reported to end.                   *)

\* Between matches, and in a warm-up, every match reported is closed.
ClosedInv == \A i \in Ids : starts[i] > 0 /\ ends[i] = 0 => Live /\ matchId = i

LEMMA IncPositive == \A n \in 0..2 : Inc(n) \in 1..2
BY DEF Inc

LEMMA ClosedStep ==
  ASSUME NoPractice, NoReload, Inv, Inv', Unscheduled, ClosedInv, [Next]_vars
  PROVE  ClosedInv'
<1> SUFFICES ASSUME NEW i \in Ids, starts'[i] > 0, ends'[i] = 0
             PROVE  Live' /\ matchId' = i
  BY DEF ClosedInv
<1>1. CASE Calm
  BY <1>1 DEF Calm, ClosedInv, Live
<1>2. CASE Entering
  BY <1>2 DEF Entering, EnterWarmup, reportVars, Unscheduled, ClosedInv, Live
<1>3. CASE Starting
  <2>1. ~Live /\ Live'
    BY <1>3 DEF Starting, BeginMatch, Unscheduled, Live
  <2>2. CASE i # matchId'
    <3>1. starts'[i] = starts[i] /\ ends' = ends
      BY <1>3, <2>2 DEF Starting, BeginMatch, Inv, TypeOK, ReportOK
    <3>. QED
      BY <2>1, <3>1 DEF ClosedInv
  <2>. QED
    BY <2>1, <2>2
<1>4. CASE Ending
  <2>1. starts' = starts /\ matchId' = matchId /\ matchId \in Ids
    BY <1>4 DEF Ending, EndMatch, idVars, Inv, TypeOK, PlayOK
  <2>2. ends' = [ends EXCEPT ![matchId] = Inc(@)] /\ ends \in [Ids -> 0..2]
    BY <1>4 DEF Ending, EndMatch, Closed, Inv, TypeOK, ReportOK
  <2>3. i # matchId
    BY <2>1, <2>2, IncPositive
  <2>4. ends[i] = 0
    BY <2>2, <2>3
  <2>. QED
    BY <2>1, <2>3, <2>4 DEF ClosedInv
<1>5. CASE Reloading
  BY <1>5 DEF Reloading, Unscheduled, NoReload, NoMapChange
<1>6. ASSUME NEW status \in Sides \cup {"draw"}, RoundEnd(status)
      PROVE  Live' /\ matchId' = i
  BY <1>6 DEF RoundEnd, reportVars, idVars, ClosedInv, Live
<1>7. CASE AfterRoundEnd \/ RoundDamage
  BY <1>7 DEF AfterRoundEnd, RoundDamage, reportVars, playVars, idVars, ClosedInv, Live
<1>. QED
  BY <1>1, <1>2, <1>3, <1>4, <1>5, <1>6, <1>7, ReportKinds

\* For any number of matches, players, drops and stops, the platform is told
\* the end of every match whose start it was told, unless bot practice or the
\* loading of another map cuts into it (InitMatch, AbortMatch,
\* Task_AnnounceMatchResult).
THEOREM StartedIsClosed ==
  NoPractice /\ NoReload => (Spec => []StartedMatchIsClosed)
<1> SUFFICES ASSUME NoPractice, NoReload PROVE Spec => []StartedMatchIsClosed
  OBVIOUS
<1>1. Init => ClosedInv
  BY DEF Init, ClosedInv
<1>2. Inv /\ Inv' /\ Unscheduled /\ ClosedInv /\ [Next]_vars => ClosedInv'
  BY ClosedStep
<1>3. ClosedInv => StartedMatchIsClosed
  BY DEF ClosedInv, StartedMatchIsClosed, Live
<1>. QED
  BY <1>1, <1>2, <1>3, Invariance, NothingUnscheduled, PTL DEF Spec

-----------------------------------------------------------------------------
(* A container plays its match once.                                        *)

Joined == \A s \in Slots : modeConnected[s]

\* Nothing was reported yet, and nothing will be by a task.
Unplayed ==
  /\ \A i \in Ids : starts[i] = 0 /\ ends[i] = 0 /\ rounds[i] = {}
  /\ roundTasks = {}

\* The server was stopped for good (DoHardReset): nobody is there, and nobody
\* can come.
Stopped ==
  /\ ~matchActive /\ "startMode" \notin onceTasks /\ roundTasks = {}
  /\ \A c \in Clients : user[c] = NoUser
  /\ botQuota = 0

\* The life of a container: the slots are taken, the match is scheduled, it is
\* warmed up, played, and over.
ModeInv ==
  /\ ~up => Stopped
  /\ up /\ ~Joined => ~matchActive /\ "startMode" \notin onceTasks /\ Unplayed
  /\ "startMode" \in onceTasks => ~matchActive /\ Unplayed
  /\ warmupActive => Unplayed
  /\ Live => matchId = 1 /\ starts[1] = 1
  /\ starts[1] <= 1
  /\ matchActive => /\ "startMode" \notin onceTasks
                    /\ \A i \in Ids : ends[i] = 0

\* Nobody has a seat when no match is active.
SeatedInMatch == \A s \in Slots : player[s] # 0 => matchActive

LEMMA SeatedStep == Inv /\ SeatedInMatch /\ [Next]_vars => SeatedInMatch'
<1> SUFFICES ASSUME Inv, SeatedInMatch, [Next]_vars PROVE SeatedInMatch'
  OBVIOUS
<1> USE DEF SeatedInMatch
<1>1. CASE SeatsSame
  BY <1>1 DEF SeatsSame
<1>2. CASE Seating
  BY <1>2 DEF Seating
<1>3. CASE Unseating
  BY <1>3 DEF Unseating, NoSeats
<1>4. ASSUME NEW u \in Users, Connect(u) PROVE SeatedInMatch'
  BY <1>4 DEF Connect, playVars, seatVars
<1>5. ASSUME NEW b \in Bots, BotJoin(b) PROVE SeatedInMatch'
  BY <1>5 DEF BotJoin, playVars, seatVars
<1>6. ASSUME NEW c \in Clients, Disconnect(c) PROVE SeatedInMatch'
  BY <1>6 DEF Disconnect, IsMatchPlayer, Inv, TypeOK, SeatOK
<1>7. ASSUME NEW c \in Clients, Authorized(c) PROVE SeatedInMatch'
  BY <1>7 DEF Authorized, RejoinSlots
<1>8. ASSUME NEW c \in Clients, PutInServer(c) PROVE SeatedInMatch'
  BY <1>8 DEF PutInServer, playVars, seatVars
<1>9. ASSUME NEW test \in BOOLEAN, NEW r \in Clients \cup {0},
             StartWithBot(test, r)
      PROVE  SeatedInMatch'
  BY <1>9 DEF StartWithBot, playVars, seatVars
<1>. QED
  BY <1>1, <1>2, <1>3, <1>4, <1>5, <1>6, <1>7, <1>8, <1>9, SeatKinds

LEMMA SeatedOnlyInMatch == Spec => []SeatedInMatch
<1>1. Init => SeatedInMatch
  BY DEF Init, PluginInit, SeatedInMatch, NoSeats
<1>. QED
  BY <1>1, SeatedStep, Invariance, PTL DEF Spec

\* What ModeInv speaks of is left alone.
Unmoved == UNCHANGED <<up, matchActive, warmupActive, roundTasks, matchId,
                       starts, ends, rounds>>

\* No slot is taken, and no match scheduled.
Waiting ==
  /\ Unmoved /\ UNCHANGED modeConnected
  /\ "startMode" \in onceTasks' => "startMode" \in onceTasks

\* A slot is taken, and the second one schedules the match.
SlotTaken ==
  /\ ~matchActive /\ Unmoved
  /\ \E s \in Slots, c \in Clients : ~modeConnected[s] /\ JoinModeSlot(s, c)

LEMMA NobodyIsBot ==
  ASSUME \A c \in Clients : user[c] = NoUser
  PROVE  Cardinality({c \in Clients : IsBot(c)}) = 0
<1>1. {c \in Clients : IsBot(c)} = {}
  BY MatchAssumption DEF IsBot
<1>. QED
  BY <1>1, FS_EmptySet

\* Who is stopped stays so: only timers and a second quit still come.
LEMMA StoppedStep ==
  ASSUME MatchMode, Inv, Unscheduled, NoMapChange, Stopped, ~up, [Next]_vars
  PROVE  Stopped' /\ ~up' /\ UNCHANGED <<starts, ends, rounds>> /\ ~warmupActive'
<1> USE DEF Stopped
<1>0. ~warmupActive /\ startTasks = 0 /\ "map" \notin onceTasks
  BY DEF Inv, ScoreInv, Unscheduled, NoPractice
<1>1. CASE UNCHANGED vars
  BY <1>0, <1>1 DEF vars, connVars, playVars, cvarVars, reportVars
<1>2. ASSUME NEW b \in Bots, BotJoin(b) PROVE FALSE
  BY <1>2, NobodyIsBot DEF BotJoin
<1>3. ASSUME NEW s \in Slots, AbortIfNoReconnect(s) PROVE UNCHANGED vars \/
        UNCHANGED <<up, connVars, playVars, cvarVars, reportVars, onceTasks, roundTasks>>
  BY <1>3 DEF AbortIfNoReconnect
<1>4. CASE UNCHANGED <<up, connVars, playVars, cvarVars, reportVars, onceTasks, roundTasks>>
  BY <1>0, <1>4 DEF connVars, playVars, cvarVars, reportVars
<1>5. CASE DoHardReset
  BY <1>0, <1>5 DEF DoHardReset, PluginLoad, reportVars
<1>6. ASSUME NEW c \in Clients,
             \/ Authorized(c) \/ PutInServer(c) \/ Disconnect(c) \/ Spawn(c)
             \/ \E t \in TeamChoices : ChooseTeam(c, t)
      PROVE  FALSE
  BY <1>6, MatchAssumption DEF Authorized, PutInServer, Disconnect, Spawn, ChooseTeam, Live
<1>7. \A u \in Users : ~Connect(u)
  BY DEF Connect
<1>8. ~EnforceSpectators /\ ~CmdStart /\ ~TaskStartMatch /\ ~TaskStartMatchMode
      /\ ~TaskEnableBotTestMode /\ ~WarmupTick /\ ~AfterRoundEnd /\ ~RoundDamage
      /\ ~AnnounceMatchResult /\ ~CmdStop /\ ~CmdMap /\ ~ChangeMap /\ ~CmdHardReset
  BY <1>0 DEF EnforceSpectators, CmdStart, TaskStartMatch, TaskStartMatchMode,
       TaskEnableBotTestMode, WarmupTick, AfterRoundEnd, RoundDamage,
       AnnounceMatchResult, CmdStop, CmdMap, ChangeMap, CmdHardReset
<1>9. \A status \in Sides \cup {"draw"} : ~RoundEnd(status)
  BY DEF RoundEnd, Live
<1>10. \A test \in BOOLEAN, r \in Clients \cup {0} : ~StartWithBot(test, r)
  BY DEF StartWithBot
<1>. QED
  BY <1>1, <1>2, <1>3, <1>4, <1>5, <1>6, <1>7, <1>8, <1>9, <1>10 DEF Next

\* The scheduled match is warmed up, and then begins.
ModeWarmup ==
  /\ EnterWarmup /\ ~matchActive
  /\ "startMode" \in onceTasks /\ onceTasks' = onceTasks \ {"startMode"}
  /\ UNCHANGED <<up, modeConnected, roundTasks>>

ModeBegins ==
  /\ BeginMatch /\ warmupActive /\ matchActive
  /\ UNCHANGED <<up, modeConnected, onceTasks, roundTasks>>

ModeEnds ==
  /\ EndMatch /\ (matchActive \/ roundTasks # {})
  /\ UNCHANGED <<up, onceTasks>> /\ roundTasks' \subseteq roundTasks

LEMMA ModeKinds ==
  ASSUME MatchMode, Inv, Unscheduled, NoMapChange, up, [Next]_vars
  PROVE  \/ Waiting \/ SlotTaken \/ ModeWarmup \/ ModeBegins \/ ModeEnds
         \/ DoHardReset \/ AfterRoundEnd \/ RoundDamage
         \/ \E status \in Sides \cup {"draw"} : RoundEnd(status)
<1> USE DEF Waiting, Unmoved, playVars, modeVars, reportVars, idVars
<1>0. startTasks = 0 /\ "map" \notin onceTasks
  BY DEF Unscheduled, NoPractice
<1>1. CASE UNCHANGED vars
  BY <1>1 DEF vars
<1>2. ASSUME NEW u \in Users, Connect(u) PROVE Waiting
  BY <1>2 DEF Connect
<1>3. ASSUME NEW b \in Bots, BotJoin(b) PROVE Waiting \/ SlotTaken
  <2>1. Unmoved
    BY <1>3 DEF BotJoin
  <2>2. CASE UNCHANGED <<modeVars, onceTasks>>
    BY <2>1, <2>2
  <2>3. ASSUME NEW c \in Clients, ~matchActive, \E s \in Slots : ~modeConnected[s],
               JoinModeSlot(IF modeConnected[0] THEN 1 ELSE 0, c)
        PROVE  SlotTaken
    <3>1. CASE modeConnected[0]
      <4>1. ~modeConnected[1] /\ JoinModeSlot(1, c) /\ 1 \in Slots
        BY <2>3, <3>1 DEF Slots
      <4>. QED
        BY <2>1, <2>3, <4>1 DEF SlotTaken
    <3>2. CASE ~modeConnected[0]
      <4>1. JoinModeSlot(0, c) /\ 0 \in Slots
        BY <2>3, <3>2 DEF Slots
      <4>. QED
        BY <2>1, <2>3, <3>2, <4>1 DEF SlotTaken
    <3>. QED
      BY <3>1, <3>2
  <2>. QED
    BY <1>3, <2>2, <2>3 DEF BotJoin
<1>4. ASSUME NEW c \in Clients, Authorized(c) PROVE Waiting \/ SlotTaken
  <2>1. Unmoved
    BY <1>4 DEF Authorized
  <2>2. CASE UNCHANGED <<modeVars, onceTasks>>
    BY <2>1, <2>2
  <2>3. ASSUME NEW s \in ModeSlots(user[c]), JoinModeSlot(s, c) PROVE SlotTaken
    BY <2>1, <2>3 DEF SlotTaken, ModeSlots
  <2>. QED
    BY <1>4, <2>2, <2>3 DEF Authorized
<1>5. ASSUME NEW c \in Clients, PutInServer(c) \/ Disconnect(c) \/ Spawn(c)
      PROVE  Waiting
  BY <1>5 DEF PutInServer, Disconnect, Spawn
<1>6. ASSUME NEW c \in Clients, NEW t \in TeamChoices, ChooseTeam(c, t)
      PROVE  Waiting
  BY <1>6 DEF ChooseTeam
<1>7. CASE EnforceSpectators \/ TaskEnableBotTestMode \/ CmdHardReset
  <2>1. CASE EnforceSpectators
    BY <2>1 DEF EnforceSpectators
  <2>2. CASE TaskEnableBotTestMode
    BY <2>2 DEF TaskEnableBotTestMode
  <2>3. CASE CmdHardReset
    BY <2>3 DEF CmdHardReset
  <2>. QED
    BY <1>7, <2>1, <2>2, <2>3
<1>8. ~CmdStart /\ ~TaskStartMatch /\ ~CmdMap /\ ~ChangeMap
  <2>1. ~CmdStart
    BY DEF CmdStart
  <2>2. ~TaskStartMatch
    BY <1>0 DEF TaskStartMatch
  <2>3. ~CmdMap
    BY DEF CmdMap, NoMapChange
  <2>4. ~ChangeMap
    BY <1>0 DEF ChangeMap
  <2>. QED
    BY <2>1, <2>2, <2>3, <2>4
<1>9. \A test \in BOOLEAN, r \in Clients \cup {0} : ~StartWithBot(test, r)
  BY DEF StartWithBot
<1>10. CASE TaskStartMatchMode
  BY <1>10 DEF TaskStartMatchMode, StartWarmup, ModeWarmup
<1>11. CASE WarmupTick
  BY <1>11 DEF WarmupTick, ModeBegins, Inv, ScoreInv
<1>12. CASE AnnounceMatchResult \/ CmdStop
  BY <1>12 DEF AnnounceMatchResult, CmdStop, ModeEnds
<1>13. ASSUME NEW s \in Slots, AbortIfNoReconnect(s) PROVE Waiting \/ ModeEnds
  BY <1>13 DEF AbortIfNoReconnect, ModeEnds
<1>. QED
  BY <1>1, <1>2, <1>3, <1>4, <1>5, <1>6, <1>7, <1>8, <1>9, <1>10, <1>11, <1>12,
     <1>13 DEF Next

LEMMA ModeStep ==
  ASSUME MatchMode, NoMapChange, Inv, Inv', Unscheduled, ModeInv, [Next]_vars
  PROVE  ModeInv'
<1>0. 1 \in Ids /\ starts \in [Ids -> 0..2] /\ ends \in [Ids -> 0..2]
      /\ modeConnected \in [Slots -> BOOLEAN]
  BY Bounds DEF Ids, Inv, TypeOK, ReportOK, ModeOK
<1>1. CASE ~up
  <2>1. /\ Stopped' /\ ~up' /\ starts' = starts /\ ~warmupActive'
    BY <1>1, StoppedStep DEF ModeInv
  <2>. QED
    BY <2>1 DEF ModeInv, Stopped, Live
<1>2. CASE up /\ Waiting
  BY <1>2 DEF Waiting, Unmoved, ModeInv, Unplayed, Joined, Live
<1>3. CASE up /\ SlotTaken
  <2>1. PICK s \in Slots, c \in Clients : ~modeConnected[s] /\ JoinModeSlot(s, c)
    BY <1>3 DEF SlotTaken
  <2>2. Unmoved /\ ~matchActive /\ "startMode" \notin onceTasks /\ Unplayed
    BY <1>3, <2>1 DEF SlotTaken, ModeInv, Joined
  <2>3. up' /\ ~matchActive' /\ Unplayed' /\ ~warmupActive'
    BY <1>3, <2>2 DEF Unmoved, Unplayed, Inv, ScoreInv
  <2>4. "startMode" \in onceTasks' => Joined'
    BY <1>0, <2>1, <2>2 DEF JoinModeSlot, Joined, Other, Slots
  <2>5. starts'[1] <= 1
    BY <1>0, <2>3 DEF Unplayed
  <2>. QED
    BY <2>3, <2>4, <2>5 DEF ModeInv, Live
<1>4. CASE up /\ ModeWarmup
  <2>1. Joined /\ Unplayed
    BY <1>4 DEF ModeWarmup, ModeInv
  <2>2. up' /\ Joined' /\ Unplayed' /\ "startMode" \notin onceTasks'
        /\ matchActive' /\ warmupActive'
    BY <1>4, <2>1 DEF ModeWarmup, EnterWarmup, Joined, Unplayed, reportVars
  <2>3. starts'[1] <= 1 /\ \A i \in Ids : ends'[i] = 0
    BY <1>0, <2>2 DEF Unplayed
  <2>. QED
    BY <2>2, <2>3 DEF ModeInv, Live
<1>5. CASE up /\ ModeBegins
  <2>1. Unplayed /\ Joined /\ "startMode" \notin onceTasks
    BY <1>5 DEF ModeBegins, ModeInv
  <2>2. matchId' = 1 /\ starts' = [starts EXCEPT ![1] = Inc(@)] /\ ends' = ends
        /\ ~warmupActive'
    BY <1>5 DEF ModeBegins, BeginMatch, GenerateMatchId
  <2>3. starts'[1] = 1
    BY <1>0, <2>1, <2>2 DEF Unplayed, Inc
  <2>4. \A i \in Ids : ends'[i] = 0
    BY <2>1, <2>2 DEF Unplayed
  <2>5. up' /\ Joined' /\ "startMode" \notin onceTasks'
    BY <1>5, <2>1 DEF ModeBegins, Joined
  <2>. QED
    BY <2>2, <2>3, <2>4, <2>5 DEF ModeInv
<1>6. CASE up /\ ModeEnds
  <2>1. Joined /\ "startMode" \notin onceTasks
    BY <1>6 DEF ModeEnds, ModeInv, Unplayed
  <2>2. starts' = starts /\ ~matchActive' /\ ~warmupActive'
    BY <1>6 DEF ModeEnds, EndMatch, RestoreServerCvars
  <2>3. modeConnected' = modeConnected /\ onceTasks' = onceTasks /\ up' = up
    BY <1>6 DEF ModeEnds, EndMatch, modeVars
  <2>4. Joined'
    BY <2>1, <2>3 DEF Joined
  <2>. QED
    BY <1>6, <2>1, <2>2, <2>3, <2>4 DEF ModeInv, Live
<1>7. CASE up /\ DoHardReset
  <2>1. Stopped' /\ ~up' /\ ~warmupActive' /\ starts' = starts
    BY <1>7 DEF DoHardReset, PluginLoad, Stopped, reportVars
  <2>. QED
    BY <2>1 DEF ModeInv, Stopped, Live
<1>8. ASSUME up, UNCHANGED <<up, matchActive, warmupActive, modeConnected, onceTasks,
                            matchId, starts, ends>>, roundTasks # {}
      PROVE  ModeInv'
  <2>1. Joined /\ ~warmupActive /\ "startMode" \notin onceTasks
    BY <1>8 DEF ModeInv, Unplayed
  <2>. QED
    BY <1>8, <2>1 DEF ModeInv, Joined, Live
<1>9. CASE up /\ (AfterRoundEnd \/ RoundDamage)
  BY <1>8, <1>9 DEF AfterRoundEnd, RoundDamage, modeVars, playVars, idVars, reportVars
<1>10. ASSUME up, NEW status \in Sides \cup {"draw"}, RoundEnd(status) PROVE ModeInv'
  <2>1. Live /\ UNCHANGED <<up, matchActive, warmupActive, modeConnected, onceTasks,
                             matchId, starts, ends>>
    BY <1>10 DEF RoundEnd, modeVars, idVars, reportVars
  <2>2. Joined /\ ~warmupActive /\ "startMode" \notin onceTasks
    BY <1>10, <2>1 DEF ModeInv, Live
  <2>. QED
    BY <1>10, <2>1, <2>2 DEF ModeInv, Joined, Live
<1>. QED
  BY <1>1, <1>2, <1>3, <1>4, <1>5, <1>6, <1>7, <1>9, <1>10, ModeKinds

LEMMA ModeInvariance == MatchMode /\ NoMapChange => (Spec => []ModeInv)
<1> SUFFICES ASSUME MatchMode, NoMapChange PROVE Spec => []ModeInv
  OBVIOUS
<1>1. Init => ModeInv
  BY Bounds DEF Init, PluginInit, ModeInv, Stopped, Unplayed, Joined, NoFlags, Live, Ids
<1>2. Inv /\ Inv' /\ Unscheduled /\ ModeInv /\ [Next]_vars => ModeInv'
  BY ModeStep
<1>. QED
  BY <1>1, <1>2, Invariance, NothingUnscheduled, PTL DEF Spec

\* A container plays its match once, whoever drops, returns, stops it or quits
\* the server, unless its map is changed: that loads the plugin again
\* (Task_StartMatchMode, client_authorized, DoHardReset).
THEOREM ModePlayedOnce == NoMapChange => (Spec => []ModePlaysOnce)
<1>1. CASE ~MatchMode
  <2>1. ModePlaysOnce
    BY <1>1 DEF ModePlaysOnce
  <2>. QED
    BY <2>1, PTL
<1>2. ASSUME MatchMode, NoMapChange PROVE Spec => []ModePlaysOnce
  <2>1. Inv /\ ModeInv => ModePlaysOnce
    BY DEF ModeInv, ModePlaysOnce, Inv, TypeOK, ReportOK
  <2>. QED
    BY <1>2, <2>1, ModeInvariance, Invariance, PTL
<1>. QED
  BY <1>1, <1>2

\* The report of a round that is left over by an ended match is not made, since
\* nobody has a seat any more.
LEMMA RoundInTheMatch ==
  ASSUME Inv, ModeInv, SeatedInMatch, [Next]_vars,
         NEW i \in Ids, rounds'[i] # rounds[i]
  PROVE  RoundDamage /\ i = matchId /\ starts[i] > 0 /\ ends[i] = 0
<1>1. RoundDamage
  BY ReportKinds
     DEF Calm, Entering, EnterWarmup, Starting, BeginMatch, Ending, EndMatch,
         Reloading, RoundEnd, AfterRoundEnd, reportVars
<1>2. RoundReported /\ i = matchId /\ roundTasks # {}
  BY <1>1 DEF RoundDamage, Inv, TypeOK, ReportOK
<1>3. matchActive /\ ~warmupActive
  BY <1>2 DEF RoundReported, SeatedInMatch, ModeInv, Unplayed, Slots
<1>. QED
  BY <1>1, <1>2, <1>3 DEF ModeInv, Live

\* In a container no round is reported before its match has started or after
\* it has ended, although the task that reports it may fire after a stop
\* (Task_RoundDamage, AbortMatch).
THEOREM RoundsAreInTheMatch ==
  MatchMode /\ NoMapChange => (Spec => NoRoundAfterEnd)
<1> SUFFICES ASSUME MatchMode, NoMapChange PROVE Spec => NoRoundAfterEnd
  OBVIOUS
<1>1. Inv /\ ModeInv /\ SeatedInMatch /\ [Next]_vars
        => [\A i \in Ids : rounds'[i] # rounds[i] => starts[i] > 0 /\ ends[i] = 0]_vars
  BY RoundInTheMatch
<1>. QED
  BY <1>1, ModeInvariance, SeatedOnlyInMatch, Invariance, PTL DEF Spec, NoRoundAfterEnd

-----------------------------------------------------------------------------
(* The rounds reported agree with the score.                                *)

\* Bots never play for the test of the server.
NoBotTest == MatchMode \/ "start_bot_test" \notin Commands

\* The last round of the match that has ended.
Ended ==
  IF roundTasks \cap {"swap", "announce"} = {} THEN roundNum - 1 ELSE roundNum

\* The rounds reported as won by a slot, and the one that is about to be.
WonRounds(s) == {r \in rounds[matchId] : r.winner = s}
Unreported(s) == IF "damage" \in roundTasks /\ last.winner = s THEN 1 ELSE 0

\* Only rounds that have ended are reported, each with the winner that the
\* score counts; the last one is not while its report is due.
ScoreReported ==
  /\ \A r \in rounds[matchId] : r.num <= Ended
  /\ "damage" \in roundTasks =>
       last.num = Ended /\ \A r \in rounds[matchId] : r.num < Ended
  /\ \A r, q \in rounds[matchId] : r.num = q.num => r = q
  /\ \A s \in Slots : Cardinality(WonRounds(s)) + Unreported(s) <= wins[s]

\* A round is followed by another or by the announcement, never by both.
OneOutcome == ~({"swap", "announce"} \subseteq roundTasks)

\* The ids not yet given have no reports.
IdsFresh ==
  /\ matchId <= lastId
  /\ \A i \in Ids : i > lastId => rounds[i] = {}

RoundsInv ==
  /\ \A i \in Ids : IsFiniteSet(rounds[i])
  /\ Live => ScoreReported
  /\ ~MatchMode => IdsFresh

LEMMA FinitelyWon ==
  ASSUME RoundsInv, matchId \in Ids
  PROVE  \A s : IsFiniteSet(WonRounds(s)) /\ Cardinality(WonRounds(s)) \in Nat
<1> SUFFICES ASSUME NEW s
             PROVE  IsFiniteSet(WonRounds(s)) /\ Cardinality(WonRounds(s)) \in Nat
  OBVIOUS
<1>1. IsFiniteSet(rounds[matchId]) /\ WonRounds(s) \in SUBSET rounds[matchId]
  BY DEF RoundsInv, WonRounds
<1>. QED
  BY <1>1, FS_Subset, FS_CardinalityType

\* A match begins with no round reported under its id.
LEMMA BeginRounds ==
  ASSUME Inv, Inv', RoundsInv, Unscheduled, NoBotTest, Starting,
         MatchMode => ModeInv
  PROVE  RoundsInv'
<1>1. warmupActive /\ roundTasks = {} /\ roundTasks' = {} /\ roundNum' = 1
      /\ wins' = NoSeats /\ rounds' = rounds
  BY DEF Starting, BeginMatch, Unscheduled, NoBotTest
<1>2. /\ matchId' = IF MatchMode THEN 1 ELSE lastId + 1
      /\ lastId' = matchId' /\ matchId' \in Ids /\ lastId \in Int
  BY DEF Starting, BeginMatch, GenerateMatchId, Inv, TypeOK, PlayOK, Ids
<1>3. rounds[matchId'] = {}
  <2>1. CASE MatchMode
    BY <1>1, <1>2, <2>1 DEF ModeInv, Unplayed
  <2>2. CASE ~MatchMode
    BY <1>2, <2>2 DEF RoundsInv, IdsFresh
  <2>. QED
    BY <2>1, <2>2
<1>4. ScoreReported'
  <2>1. \A s \in Slots : WonRounds(s)' = {} /\ Unreported(s)' = 0 /\ wins'[s] = 0
    BY <1>1, <1>3 DEF WonRounds, Unreported, NoSeats
  <2>. QED
    BY <1>1, <1>3, <2>1, FS_EmptySet DEF ScoreReported
<1>5. ~MatchMode => IdsFresh'
  BY <1>1, <1>2 DEF RoundsInv, IdsFresh, Ids
<1>. QED
  BY <1>1, <1>4, <1>5 DEF RoundsInv

\* The round that ends is scored at once, and its report is due.
LEMMA EndedRounds ==
  ASSUME Inv, RoundsInv, NEW status \in Sides \cup {"draw"}, RoundEnd(status)
  PROVE  RoundsInv'
<1>1. /\ rounds' = rounds /\ matchId' = matchId /\ lastId' = lastId /\ Live
      /\ roundTasks = {} /\ roundNum' = roundNum
      /\ roundNum \in Int /\ matchId \in Ids
  BY DEF RoundEnd, reportVars, idVars, Inv, TypeOK, PlayOK
<1>2. \/ roundTasks' = {"damage", "announce"}
      \/ roundTasks' = {"damage", "swap"}
  BY DEF RoundEnd, RoundEndTasks
<1>3. Ended = roundNum - 1 /\ Ended' = roundNum
  BY <1>1, <1>2 DEF Ended
<1>4. PICK slot \in {0, 1, 2} :
        last' = [num |-> roundNum, winner |-> slot] /\ wins' = Scored(wins, slot)
  BY DEF RoundEnd, WinnerSlot
<1>5. \A r \in rounds[matchId] : r.num <= roundNum - 1
  BY <1>1, <1>3 DEF RoundsInv, ScoreReported
<1>6. \A r \in rounds[matchId] : r.num \in Int
  BY <1>1 DEF Inv, TypeOK, ReportOK, RoundRecords
<1>7. ASSUME NEW s \in Slots
      PROVE  Cardinality(WonRounds(s)') + Unreported(s)' <= wins'[s]
  <2>1. WonRounds(s)' = WonRounds(s) /\ Unreported(s) = 0
    BY <1>1 DEF WonRounds, Unreported
  <2>2. Cardinality(WonRounds(s)) \in Nat /\ wins[s] \in Int
    BY <1>1, FinitelyWon DEF Inv, TypeOK, PlayOK
  <2>3. Cardinality(WonRounds(s)) <= wins[s]
    BY <1>1, <2>1, <2>2 DEF RoundsInv, ScoreReported
  <2>4. Unreported(s)' = IF slot = s THEN 1 ELSE 0
    BY <1>2, <1>4 DEF Unreported
  <2>5. wins'[s] = IF slot = s THEN wins[s] + 1 ELSE wins[s]
    BY <1>4 DEF Scored, Slots, Inv, TypeOK, PlayOK
  <2>. QED
    BY <2>1, <2>2, <2>3, <2>4, <2>5
<1>8. ScoreReported'
  <2>1. \A r \in rounds[matchId] : r.num < roundNum
    BY <1>1, <1>5, <1>6
  <2>2. \A r, q \in rounds[matchId] : r.num = q.num => r = q
    BY <1>1 DEF RoundsInv, ScoreReported
  <2>. QED
    BY <1>1, <1>3, <1>4, <1>6, <1>7, <2>1, <2>2 DEF ScoreReported
<1>. QED
  BY <1>1, <1>2, <1>8 DEF RoundsInv, IdsFresh

\* The task that starts the next round leaves the one that ended alone.
LEMMA NextRound ==
  ASSUME Inv, OneOutcome, RoundsInv, AfterRoundEnd PROVE RoundsInv'
<1>1. UNCHANGED <<rounds, matchId, lastId, last, wins, matchActive, warmupActive>>
      /\ roundNum' = roundNum + 1 /\ roundNum \in Int
      /\ roundTasks' = roundTasks \ {"swap"} /\ "swap" \in roundTasks
  BY DEF AfterRoundEnd, reportVars, idVars, Inv, TypeOK, PlayOK
<1>2. "announce" \notin roundTasks
  BY <1>1 DEF OneOutcome
<1>3. Ended = roundNum /\ Ended' = roundNum
  BY <1>1, <1>2 DEF Ended
<1>4. \A s : WonRounds(s)' = WonRounds(s) /\ Unreported(s)' = Unreported(s)
  BY <1>1 DEF WonRounds, Unreported
<1>5. ScoreReported => ScoreReported'
  BY <1>1, <1>3, <1>4 DEF ScoreReported
<1>. QED
  BY <1>1, <1>5 DEF RoundsInv, IdsFresh, Live

\* The report of a round that ended is due once.
LEMMA ReportRound == ASSUME Inv, RoundsInv, RoundDamage PROVE RoundsInv'
<1>1. UNCHANGED <<matchId, lastId, last, wins, roundNum, matchActive, warmupActive>>
      /\ roundTasks' = roundTasks \ {"damage"} /\ "damage" \in roundTasks
      /\ matchId \in Ids
  BY DEF RoundDamage, idVars, playVars, Inv, TypeOK, PlayOK
<1>2. /\ \A i \in Ids : i # matchId => rounds'[i] = rounds[i]
      /\ \/ rounds' = rounds
         \/ rounds'[matchId] = rounds[matchId] \cup {last}
  BY <1>1 DEF RoundDamage, ReportedRound, Inv, TypeOK, ReportOK
<1>3. Ended' = Ended /\ Ended \in Int
  BY <1>1 DEF Ended, Inv, TypeOK, PlayOK
<1>4. \A i \in Ids : IsFiniteSet(rounds'[i])
  BY <1>1, <1>2, FS_AddElement DEF RoundsInv
<1>5. ASSUME ScoreReported, rounds'[matchId] = rounds[matchId] \cup {last}
      PROVE  ScoreReported'
  <2>1. last.num = Ended /\ \A r \in rounds[matchId] : r.num < Ended
    BY <1>1, <1>5 DEF ScoreReported
  <2>2. \A r \in rounds'[matchId] : r.num <= Ended
    BY <1>3, <1>5, <2>1 DEF ScoreReported
  <2>3. \A r, q \in rounds'[matchId] : r.num = q.num => r = q
    BY <1>3, <1>5, <2>1 DEF ScoreReported
  <2>4. ASSUME NEW s \in Slots
        PROVE  Cardinality(WonRounds(s)') + Unreported(s)' <= wins'[s]
    <3>1. IsFiniteSet(WonRounds(s)) /\ Cardinality(WonRounds(s)) \in Nat
      BY <1>1, FinitelyWon
    <3>2. Cardinality(WonRounds(s)) + Unreported(s) <= wins[s]
      BY <1>5 DEF ScoreReported
    <3>3. Unreported(s)' = 0
      BY <1>1 DEF Unreported
    <3>4. CASE last.winner = s
      <4>1. WonRounds(s)' = WonRounds(s) \cup {last} /\ last \notin WonRounds(s)
        BY <1>1, <1>3, <1>5, <2>1, <3>4 DEF WonRounds
      <4>2. Cardinality(WonRounds(s)') = Cardinality(WonRounds(s)) + 1
        BY <3>1, <4>1, FS_AddElement
      <4>3. Unreported(s) = 1
        BY <1>1, <3>4 DEF Unreported
      <4>. QED
        BY <1>1, <3>1, <3>2, <3>3, <4>2, <4>3
    <3>5. CASE last.winner # s
      <4>1. WonRounds(s)' = WonRounds(s)
        BY <1>1, <1>5, <3>5 DEF WonRounds
      <4>2. Unreported(s) = 0
        BY <3>5 DEF Unreported
      <4>. QED
        BY <1>1, <3>1, <3>2, <3>3, <4>1, <4>2
    <3>. QED
      BY <3>4, <3>5
  <2>. QED
    BY <1>1, <1>3, <2>2, <2>3, <2>4 DEF ScoreReported
<1>6. ASSUME ScoreReported, rounds' = rounds PROVE ScoreReported'
  <2>1. ASSUME NEW s \in Slots
        PROVE  Cardinality(WonRounds(s)') + Unreported(s)' <= wins'[s]
    <3>1. WonRounds(s)' = WonRounds(s) /\ Unreported(s)' = 0
      BY <1>1, <1>6 DEF WonRounds, Unreported
    <3>2. Cardinality(WonRounds(s)) \in Nat /\ wins[s] \in Int
      BY <1>1, FinitelyWon DEF Inv, TypeOK, PlayOK
    <3>. QED
      BY <1>1, <1>6, <3>1, <3>2 DEF ScoreReported, Unreported
  <2>. QED
    BY <1>1, <1>3, <1>6, <2>1 DEF ScoreReported
<1>7. ~MatchMode => IdsFresh'
  <2> SUFFICES ASSUME ~MatchMode PROVE IdsFresh'
    OBVIOUS
  <2>1. matchId <= lastId /\ lastId \in Int /\ matchId \in Int
    BY <1>1 DEF RoundsInv, IdsFresh, Ids, Inv, TypeOK, PlayOK
  <2>2. ASSUME NEW i \in Ids, i > lastId PROVE rounds'[i] = {}
    <3>1. i # matchId /\ rounds[i] = {}
      BY <2>1, <2>2 DEF RoundsInv, IdsFresh, Ids
    <3>. QED
      BY <1>2, <3>1
  <2>. QED
    BY <1>1, <2>1, <2>2 DEF IdsFresh
<1>. QED
  BY <1>1, <1>2, <1>4, <1>5, <1>6, <1>7 DEF RoundsInv, Live

LEMMA OneOutcomeStep == OneOutcome /\ [Next]_vars => OneOutcome'
<1> SUFFICES ASSUME OneOutcome, [Next]_vars PROVE OneOutcome'
  OBVIOUS
<1> USE DEF OneOutcome
<1>1. CASE Calm \/ Entering \/ Starting \/ Ending
  BY <1>1 DEF Calm, Entering, Starting, Ending
<1>2. CASE Reloading
  BY <1>2 DEF Reloading, PluginLoad
<1>3. ASSUME NEW status \in Sides \cup {"draw"}, RoundEnd(status) PROVE OneOutcome'
  <2>1. \/ roundTasks' = {"damage", "announce"}
        \/ roundTasks' = {"damage", "swap"}
    BY <1>3 DEF RoundEnd, RoundEndTasks
  <2>. QED
    BY <2>1
<1>4. CASE AfterRoundEnd \/ RoundDamage
  BY <1>4 DEF AfterRoundEnd, RoundDamage
<1>. QED
  BY <1>1, <1>2, <1>3, <1>4, ReportKinds

LEMMA OneOutcomeAlways == Spec => []OneOutcome
<1>1. Init => OneOutcome
  BY DEF Init, PluginInit, OneOutcome
<1>. QED
  BY <1>1, OneOutcomeStep, PTL DEF Spec

LEMMA RoundsStep ==
  ASSUME NoBotTest, Inv, Inv', Unscheduled, OneOutcome, RoundsInv, MatchMode => ModeInv,
         [Next]_vars
  PROVE  RoundsInv'
<1>0. lastId \in Nat
  BY DEF Inv, TypeOK, PlayOK, Ids
<1>1. CASE Calm
  BY <1>1 DEF Calm, RoundsInv, IdsFresh, ScoreReported, Ended, WonRounds, Unreported, Live
<1>2. CASE Entering
  BY <1>2 DEF Entering, EnterWarmup, idVars, reportVars, RoundsInv, IdsFresh, Live
<1>3. CASE Starting
  BY <1>3, BeginRounds
<1>4. CASE Ending
  BY <1>4 DEF Ending, EndMatch, idVars, RoundsInv, IdsFresh, Live
<1>5. CASE Reloading
  BY <1>0, <1>5 DEF Reloading, PluginLoad, reportVars, RoundsInv, IdsFresh, Live
<1>6. ASSUME NEW status \in Sides \cup {"draw"}, RoundEnd(status) PROVE RoundsInv'
  BY <1>6, EndedRounds
<1>7. CASE AfterRoundEnd
  BY <1>7, NextRound
<1>8. CASE RoundDamage
  BY <1>8, ReportRound
<1>. QED
  BY <1>1, <1>2, <1>3, <1>4, <1>5, <1>6, <1>7, <1>8, ReportKinds

LEMMA RoundsInvariance ==
  NoBotTest /\ (MatchMode => NoMapChange) => (Spec => []RoundsInv)
<1> SUFFICES ASSUME NoBotTest, MatchMode => NoMapChange PROVE Spec => []RoundsInv
  OBVIOUS
<1>1. Init => RoundsInv
  BY FS_EmptySet DEF Init, PluginInit, RoundsInv, IdsFresh, Live
<1>2. CASE MatchMode
  <2>1. Inv /\ Inv' /\ Unscheduled /\ OneOutcome /\ RoundsInv /\ ModeInv
          /\ [Next]_vars => RoundsInv'
    BY RoundsStep
  <2>2. Spec => []ModeInv
    BY <1>2, ModeInvariance
  <2>. QED
    BY <1>1, <2>1, <2>2, Invariance, NothingUnscheduled, OneOutcomeAlways, PTL DEF Spec
<1>3. CASE ~MatchMode
  <2>1. Inv /\ Inv' /\ Unscheduled /\ OneOutcome /\ RoundsInv /\ [Next]_vars
          => RoundsInv'
    BY <1>3, RoundsStep
  <2>. QED
    BY <1>1, <2>1, Invariance, NothingUnscheduled, OneOutcomeAlways, PTL DEF Spec
<1>. QED
  BY <1>2, <1>3

\* Whatever the interleaving of the tasks of a round end with drops, stops and
\* new matches, the rounds reported for the match in progress are those its
\* score counts: the report is made from what RoundEnd_Post saved, and the
\* next match begins after it, under a new id.  The test with bots begins
\* without a warm-up, and the next id of a container whose map was changed is
\* not new.
THEOREM ReportsFollowTheScore ==
  NoBotTest /\ (MatchMode => NoMapChange) => (Spec => []ReportsAgreeWithScore)
<1> SUFFICES ASSUME NoBotTest, MatchMode => NoMapChange
             PROVE  Spec => []ReportsAgreeWithScore
  OBVIOUS
<1>1. Inv /\ RoundsInv => ReportsAgreeWithScore
  <2> SUFFICES ASSUME Inv, RoundsInv, Live PROVE
        /\ \A r, q \in rounds[matchId] : r.num = q.num => r = q
        /\ \A s \in Slots : Cardinality(WonRounds(s)) <= wins[s]
    BY DEF ReportsAgreeWithScore, WonRounds
  <2>1. ScoreReported
    BY DEF RoundsInv
  <2>2. ASSUME NEW s \in Slots PROVE Cardinality(WonRounds(s)) <= wins[s]
    <3>1. Cardinality(WonRounds(s)) \in Nat /\ wins[s] \in Int /\ Unreported(s) \in {0, 1}
      BY FinitelyWon DEF Inv, TypeOK, PlayOK, Unreported
    <3>. QED
      BY <2>1, <3>1 DEF ScoreReported
  <2>. QED
    BY <2>1, <2>2 DEF ScoreReported
<1>. QED
  BY <1>1, RoundsInvariance, Invariance, PTL

=============================================================================
