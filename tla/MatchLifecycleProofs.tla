------------------------ MODULE MatchLifecycleProofs ------------------------
(***************************************************************************)
(* The match plugin implements MatchLifecycle, for any number of clients,  *)
(* rounds and timers: every step of it warms up, kicks off, plays a round  *)
(* of or finishes the abstract match, or does not concern it.  In a match  *)
(* container it implements MatchGame as well.                              *)
(***************************************************************************)
EXTENDS MatchImplementsLifecycle, MatchReportProofs

LEMMA InitImplements == Init => Lifecycle!Init
BY DEF Init, PluginInit, Lifecycle!Init, Lifecycle!NoScore, Phase, RoundsPlayed,
       Live, NoSeats, Slots

\* Without a round in play the abstract match has no score either.
LEMMA NotPlaying ==
  ASSUME Inv, ~Live
  PROVE  RoundsPlayed = 0 /\ wins = Lifecycle!NoScore
BY DEF RoundsPlayed, Inv, ScoreInv, NoSeats, Slots, Lifecycle!NoScore

LEMMA EnteringImplements ==
  ASSUME NoPractice, Inv, Inv', Unscheduled, Entering PROVE Lifecycle!WarmUp
<1>1. ~matchActive /\ matchActive' /\ warmupActive'
  BY DEF Entering, EnterWarmup, Unscheduled
<1>2. ~Live /\ ~Live'
  BY <1>1 DEF Live
<1>3. RoundsPlayed' = RoundsPlayed /\ wins' = wins
  BY <1>2, NotPlaying DEF RoundsPlayed, Inv, ScoreInv
<1>. QED
  BY <1>1, <1>3 DEF Lifecycle!WarmUp, Phase

LEMMA StartingImplements ==
  ASSUME NoPractice, Inv, Inv', Unscheduled, Starting PROVE Lifecycle!KickOff
<1>1. /\ matchActive /\ warmupActive /\ matchActive' /\ ~warmupActive'
      /\ roundTasks = {} /\ roundTasks' = {} /\ roundNum' = 1 /\ wins' = NoSeats
  BY DEF Starting, BeginMatch, Unscheduled, Inv, ScoreInv
<1>2. RoundsPlayed = 0 /\ RoundsPlayed' = 0
  BY <1>1 DEF RoundsPlayed, Live
<1>3. wins = NoSeats
  BY <1>1 DEF Inv, ScoreInv, Live
<1>. QED
  BY <1>1, <1>2, <1>3 DEF Lifecycle!KickOff, Phase

\* The test of the code and that of the abstract match agree on the scores
\* that occur.
LEMMA SameDecision ==
  ASSUME NEW n \in 0..TotalRounds, NEW w \in [Slots -> 0..WinThreshold]
  PROVE  MatchDecided(n, w) <=> Lifecycle!Decided(n, w)
BY Bounds DEF MatchDecided, Lifecycle!Decided, Slots

LEMMA RoundEndImplements ==
  ASSUME Inv, Inv', NEW status \in Sides \cup {"draw"}, RoundEnd(status)
  PROVE  \E w \in 0..2 : Lifecycle!Play(w)
<1>1. /\ Live /\ Live' /\ roundTasks = {} /\ roundNum' = roundNum
      /\ roundNum \in 0..TotalRounds
      /\ wins \in [Slots -> 0..WinThreshold] /\ wins' \in [Slots -> 0..WinThreshold]
  BY DEF RoundEnd, Live, Inv, TypeOK, PlayOK
<1>2. /\ wins' = Scored(wins, WinnerSlot(status))
      /\ roundTasks' = RoundEndTasks(roundNum, wins')
      /\ WinnerSlot(status) \in 0..2
  BY DEF RoundEnd, WinnerSlot
<1>3. Phase = "live" /\ RoundsPlayed = roundNum - 1
  BY <1>1 DEF Phase, RoundsPlayed, Live
<1>4. RoundsPlayed' = roundNum
  BY <1>1, <1>2 DEF RoundsPlayed, RoundEndTasks
<1>5. Phase' = IF Lifecycle!Decided(roundNum, wins') THEN "over" ELSE "live"
  <2>1. "announce" \in roundTasks' <=> MatchDecided(roundNum, wins')
    BY <1>2 DEF RoundEndTasks
  <2>. QED
    BY <1>1, <2>1, SameDecision DEF Phase, Live
<1>6. wins' = [s \in {0, 1} |->
                 wins[s] + (IF s = WinnerSlot(status) THEN 1 ELSE 0)]
  <2>1. \A s \in Slots :
          wins'[s] = wins[s] + (IF s = WinnerSlot(status) THEN 1 ELSE 0)
    BY <1>1, <1>2 DEF Scored, Slots
  <2>2. wins' \in [{0, 1} -> 0..WinThreshold]
    BY <1>1 DEF Slots
  <2>. QED
    BY <2>1, <2>2 DEF Slots
<1>7. Lifecycle!Play(WinnerSlot(status))
  BY <1>1, <1>3, <1>4, <1>5, <1>6, Bounds DEF Lifecycle!Play
<1>. QED
  BY <1>2, <1>7

\* Tasks of the round that do not end it.
LEMMA RoundTasksStutter ==
  ASSUME Inv, OneOutcome, AfterRoundEnd \/ RoundDamage
  PROVE  UNCHANGED Lifecycle!vars
<1> USE DEF Lifecycle!vars, Phase, RoundsPlayed, Live
<1>1. CASE AfterRoundEnd
  BY <1>1 DEF AfterRoundEnd, OneOutcome, Inv, TypeOK, PlayOK
<1>2. CASE RoundDamage
  BY <1>2 DEF RoundDamage, playVars
<1>. QED
  BY <1>1, <1>2

\* A match that is announced, cancelled, or cut off is over; otherwise there
\* was none.
LEMMA ClosingImplements ==
  ASSUME Inv, Inv', ~matchActive' PROVE Lifecycle!Finish \/ UNCHANGED Lifecycle!vars
<1>1. ~Live' /\ Phase' = "idle"
  BY DEF Live, Phase
<1>2. RoundsPlayed' = 0 /\ wins' = Lifecycle!NoScore
  BY <1>1 DEF RoundsPlayed, Inv, ScoreInv, NoSeats, Slots, Lifecycle!NoScore
<1>3. CASE matchActive
  <2>1. Phase # "idle"
    BY <1>3 DEF Phase
  <2>. QED
    BY <1>1, <1>2, <2>1 DEF Lifecycle!Finish
<1>4. CASE ~matchActive
  <2>1. ~Live /\ Phase = "idle"
    BY <1>4 DEF Live, Phase
  <2>. QED
    BY <1>1, <1>2, <2>1, NotPlaying DEF Lifecycle!vars
<1>. QED
  BY <1>3, <1>4

LEMMA StepImplements ==
  ASSUME NoPractice, Inv, Inv', Unscheduled, OneOutcome, [Next]_vars
  PROVE  [Lifecycle!Next]_(Lifecycle!vars)
<1>1. CASE Calm
  BY <1>1 DEF Calm, Lifecycle!vars, Phase, RoundsPlayed, Live
<1>2. CASE Entering
  BY <1>2, EnteringImplements DEF Lifecycle!Next
<1>3. CASE Starting
  BY <1>3, StartingImplements DEF Lifecycle!Next
<1>4. CASE Ending \/ Reloading
  <2>1. ~matchActive'
    BY <1>4 DEF Ending, EndMatch, Reloading, PluginLoad
  <2>. QED
    BY <2>1, ClosingImplements DEF Lifecycle!Next
<1>5. ASSUME NEW status \in Sides \cup {"draw"}, RoundEnd(status)
      PROVE  Lifecycle!Next
  BY <1>5, RoundEndImplements DEF Lifecycle!Next
<1>6. CASE AfterRoundEnd \/ RoundDamage
  BY <1>6, RoundTasksStutter
<1>. QED
  BY <1>1, <1>2, <1>3, <1>4, <1>5, <1>6, ReportKinds

\* Without bot practice, every server warms up, plays, decides and announces
\* or cancels its matches in this order, whatever tasks are left over from the
\* match before, and although a server that is reset or changes its map cuts
\* one off (StartWarmup, InitMatch, RoundEnd_Post, Task_AfterRoundEnd,
\* Task_AnnounceMatchResult, AbortMatch).
THEOREM ImplementsLifecycle == NoPractice => (Spec => LifecycleSpec)
<1> SUFFICES ASSUME NoPractice PROVE Spec => LifecycleSpec
  OBVIOUS
<1>1. Inv /\ Inv' /\ Unscheduled /\ OneOutcome /\ [Next]_vars
        => [Lifecycle!Next]_(Lifecycle!vars)
  BY StepImplements
<1>. QED
  BY <1>1, InitImplements, Invariance, NothingUnscheduled, OneOutcomeAlways, PTL
     DEF Spec, LifecycleSpec, Lifecycle!Spec

-----------------------------------------------------------------------------
(* A match container implements MatchGame.                                  *)

\* The id of the container is only used once its match was reported to start.
ModeId == matchId # 0 => matchId = 1 /\ starts[1] = 1

LEMMA ModeIdStep ==
  ASSUME MatchMode, NoMapChange, Unscheduled, ModeInv', ModeId, [Next]_vars
  PROVE  ModeId'
<1> USE DEF ModeId
<1>1. CASE Calm
  BY <1>1 DEF Calm
<1>2. CASE Entering
  BY <1>2 DEF Entering, EnterWarmup, idVars, reportVars
<1>3. CASE Starting
  BY <1>3 DEF Starting, BeginMatch, GenerateMatchId, ModeInv, Live
<1>4. CASE Ending
  BY <1>4 DEF Ending, EndMatch, idVars
<1>5. CASE Reloading
  BY <1>5 DEF Reloading, PluginLoad
<1>6. ASSUME NEW status \in Sides \cup {"draw"}, RoundEnd(status) PROVE ModeId'
  BY <1>6 DEF RoundEnd, idVars, reportVars
<1>7. CASE AfterRoundEnd \/ RoundDamage
  BY <1>7 DEF AfterRoundEnd, RoundDamage, idVars, reportVars
<1>. QED
  BY <1>1, <1>2, <1>3, <1>4, <1>5, <1>6, <1>7, ReportKinds

LEMMA ModeIdAlways == MatchMode /\ NoMapChange => (Spec => []ModeId)
<1> SUFFICES ASSUME MatchMode, NoMapChange PROVE Spec => []ModeId
  OBVIOUS
<1>1. Init => ModeId
  BY DEF Init, PluginInit, ModeId
<1>2. Unscheduled /\ ModeInv' /\ ModeId /\ [Next]_vars => ModeId'
  BY ModeIdStep
<1>. QED
  BY <1>1, <1>2, ModeInvariance, NothingUnscheduled, PTL DEF Spec

LEMMA GameStep ==
  ASSUME MatchMode, NoMapChange, Inv, Inv', Unscheduled, ModeInv, ModeInv', ModeId,
         SeatedInMatch, [Next]_vars
  PROVE  [Game!Next]_(Game!vars)
<1>0. /\ 1 \in Ids /\ starts \in [Ids -> 0..2] /\ ends \in [Ids -> 0..2]
      /\ matchId \in Ids /\ DOMAIN rounds = Ids
  BY Bounds DEF Ids, Inv, TypeOK, ReportOK, PlayOK
<1>1. CASE UNCHANGED <<starts, ends, rounds>>
  BY <1>1 DEF Game!vars
<1>2. CASE Starting
  <2>1. Unplayed /\ UNCHANGED <<ends, rounds>>
    BY <1>2 DEF Starting, BeginMatch, Unscheduled, ModeInv
  <2>2. starts'[1] = 1
    BY <1>2 DEF Starting, BeginMatch, GenerateMatchId, ModeInv, Live
  <2>. QED
    BY <1>0, <2>1, <2>2 DEF Unplayed, Game!Next, Game!Start
<1>3. CASE Ending
  <2>1. ends' = [ends EXCEPT ![matchId] = Inc(@)] /\ UNCHANGED <<starts, rounds>>
    BY <1>3 DEF Ending, EndMatch, Closed
  <2>2. CASE matchId # 1
    <3>1. ends'[1] = ends[1]
      BY <1>0, <2>1, <2>2
    <3>. QED
      BY <2>1, <3>1 DEF Game!vars
  <2>3. CASE matchId = 1
    <3>1. starts[1] = 1 /\ ends'[1] = IF ends[1] = 0 THEN 1 ELSE 2
      BY <1>0, <2>1, <2>3 DEF ModeId, Inc
    <3>. QED
      BY <2>1, <3>1 DEF Game!Next, Game!End
  <2>. QED
    BY <2>2, <2>3
<1>4. CASE RoundDamage
  <2>1. UNCHANGED <<starts, ends>>
    BY <1>4 DEF RoundDamage
  <2>2. CASE rounds'[1] = rounds[1]
    BY <2>1, <2>2 DEF Game!vars
  <2>3. CASE rounds'[1] # rounds[1]
    <3>1. 1 = matchId /\ starts[1] = 1 /\ ends[1] = 0
      BY <1>0, <2>3, RoundInTheMatch DEF ModeInv
    <3>2. rounds[1] \subseteq rounds'[1]
      BY <1>0, <1>4, <3>1 DEF RoundDamage
    <3>. QED
      BY <2>1, <3>1, <3>2 DEF Game!Next, Game!Round
  <2>. QED
    BY <2>2, <2>3
<1>5. Starting \/ Ending \/ RoundDamage \/ UNCHANGED <<starts, ends, rounds>>
  BY ReportKinds
     DEF Calm, Entering, EnterWarmup, Reloading, RoundEnd, AfterRoundEnd, reportVars
<1>. QED
  BY <1>1, <1>2, <1>3, <1>4, <1>5

\* A match container whose map is not changed reports its match as the agent,
\* the gateway and the consumer expect it: one start, then rounds, then the end,
\* although it may be stopped, left or restarted at any moment and although the
\* tasks of an ended match still fire (ReportMatchStart, ReportMatchEnd,
\* Task_RoundDamage).
THEOREM ImplementsGame == MatchMode /\ NoMapChange => (Spec => GameSpec)
<1> SUFFICES ASSUME MatchMode, NoMapChange PROVE Spec => GameSpec
  OBVIOUS
<1>1. Init => Game!Init
  BY Bounds DEF Init, Ids, Game!Init
<1>2. Inv /\ Inv' /\ Unscheduled /\ ModeInv /\ ModeInv' /\ ModeId /\ SeatedInMatch
        /\ [Next]_vars => [Game!Next]_(Game!vars)
  BY GameStep
<1>. QED
  BY <1>1, <1>2, Invariance, NothingUnscheduled, ModeInvariance, ModeIdAlways,
     SeatedOnlyInMatch, PTL DEF Spec, GameSpec, Game!Spec

=============================================================================
