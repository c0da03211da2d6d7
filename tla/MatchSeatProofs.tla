-------------------------- MODULE MatchSeatProofs --------------------------
(***************************************************************************)
(* Theorems about the seats of the match plugin: who holds them and who is *)
(* waited for.                                                             *)
(***************************************************************************)
EXTENDS MatchProofs

SeatKept == UNCHANGED <<matchActive, player, pendingReconnect, rejoin>>

\* What a step may do to a wait: nothing, begin or answer it (the drop and
\* the return of a seat's player), end it with the match or by its timer, or
\* replace the match.
LEMMA WaitKinds ==
  ASSUME Inv, [Next]_vars
  PROVE  \/ SeatKept
         \/ pendingReconnect' = NoFlags
         \/ \E c \in Clients : Disconnect(c) \/ Authorized(c)
         \/ \E s \in Slots : AbortIfNoReconnect(s)
<1> USE DEF SeatKept, playVars, seatVars
<1>1. CASE UNCHANGED vars
  BY <1>1 DEF vars
<1>2. ASSUME NEW u \in Users, Connect(u) PROVE SeatKept
  BY <1>2 DEF Connect
<1>3. ASSUME NEW b \in Bots, BotJoin(b) PROVE SeatKept
  BY <1>3 DEF BotJoin
<1>4. ASSUME NEW c \in Clients, PutInServer(c) \/ Spawn(c) PROVE SeatKept
  BY <1>4 DEF PutInServer, Spawn
<1>5. ASSUME NEW c \in Clients, NEW t \in TeamChoices, ChooseTeam(c, t)
      PROVE  SeatKept
  BY <1>5 DEF ChooseTeam
<1>6. CASE EnforceSpectators \/ TaskEnableBotTestMode \/ CmdMap \/ CmdHardReset
  BY <1>6 DEF EnforceSpectators, TaskEnableBotTestMode, CmdMap, CmdHardReset
<1>7. ASSUME NEW test \in BOOLEAN, NEW r \in Clients \cup {0},
             StartWithBot(test, r)
      PROVE  SeatKept
  BY <1>7 DEF StartWithBot
<1>8. CASE CmdStart \/ TaskStartMatch \/ TaskStartMatchMode
  BY <1>8 DEF CmdStart, TaskStartMatch, TaskStartMatchMode, StartWarmup,
              EnterWarmup, BeginMatch
<1>9. CASE WarmupTick
  BY <1>9 DEF WarmupTick, BeginMatch
<1>10. ASSUME NEW status \in Sides \cup {"draw"}, RoundEnd(status)
       PROVE  SeatKept
  BY <1>10 DEF RoundEnd
<1>11. CASE AfterRoundEnd \/ RoundDamage
  BY <1>11 DEF AfterRoundEnd, RoundDamage
<1>12. CASE AnnounceMatchResult \/ CmdStop
  BY <1>12 DEF AnnounceMatchResult, CmdStop, EndMatch
<1>13. CASE ChangeMap \/ DoHardReset
  BY <1>13 DEF ChangeMap, DoHardReset, PluginLoad
<1>. QED
  BY <1>1, <1>2, <1>3, <1>4, <1>5, <1>6, <1>7, <1>8, <1>9, <1>10, <1>11,
     <1>12, <1>13 DEF Next

LEMMA WaitStep == Inv /\ WaitIsTimed /\ [Next]_vars => WaitIsTimed'
<1> SUFFICES ASSUME Inv, WaitIsTimed, [Next]_vars,
                    NEW s \in Slots, pendingReconnect'[s]
             PROVE  matchActive' /\ player'[s] = 0 /\ rejoin'[s].live
  BY DEF WaitIsTimed
<1>1. CASE SeatKept
  BY <1>1 DEF SeatKept, WaitIsTimed
<1>2. CASE pendingReconnect' = NoFlags
  BY <1>2 DEF NoFlags
<1>3. ASSUME NEW c \in Clients, Disconnect(c)
      PROVE  matchActive' /\ player'[s] = 0 /\ rejoin'[s].live
  <2>1. CASE IsMatchPlayer(c) /\ s = GetSlot(c)
    BY <1>3, <2>1
       DEF Disconnect, Armed, IsMatchPlayer, Inv, TypeOK, SeatOK, TaskOK
  <2>2. CASE IsMatchPlayer(c) /\ s # GetSlot(c)
    <3>1. pendingReconnect[s] /\ player'[s] = player[s] /\ rejoin'[s] = rejoin[s]
      BY <1>3, <2>2 DEF Disconnect, Inv, TypeOK, SeatOK, PlayOK, TaskOK
    <3>. QED
      BY <1>3, <3>1 DEF Disconnect, WaitIsTimed
  <2>3. CASE ~IsMatchPlayer(c)
    BY <1>3, <2>3 DEF Disconnect, WaitIsTimed
  <2>. QED
    BY <2>1, <2>2, <2>3
<1>4. ASSUME NEW c \in Clients, Authorized(c)
      PROVE  matchActive' /\ player'[s] = 0 /\ rejoin'[s].live
  <2>1. CASE UNCHANGED <<player, pendingReconnect, rejoin>>
    BY <1>4, <2>1 DEF Authorized, WaitIsTimed
  <2>2. ASSUME NEW t \in RejoinSlots(user[c]),
               player' = [player EXCEPT ![t] = c],
               pendingReconnect' = [pendingReconnect EXCEPT ![t] = FALSE],
               rejoin' = [rejoin EXCEPT ![t] = Orphaned(@)]
        PROVE  matchActive' /\ player'[s] = 0 /\ rejoin'[s].live
    <3>1. s # t
      BY <2>2 DEF Inv, TypeOK, PlayOK
    <3>2. pendingReconnect[s] /\ player'[s] = player[s] /\ rejoin'[s] = rejoin[s]
      BY <2>2, <3>1 DEF Inv, TypeOK, SeatOK, PlayOK, TaskOK
    <3>. QED
      BY <1>4, <3>2 DEF Authorized, WaitIsTimed
  <2>. QED
    BY <1>4, <2>1, <2>2 DEF Authorized
<1>5. ASSUME NEW t \in Slots, AbortIfNoReconnect(t)
      PROVE  matchActive' /\ player'[s] = 0 /\ rejoin'[s].live
  <2>1. CASE EndMatch
    BY <2>1 DEF EndMatch, NoFlags
  <2>2. CASE /\ ~(matchActive /\ pendingReconnect[t])
             /\ rejoin' = [rejoin EXCEPT ![t] = Fired(@)]
             /\ UNCHANGED <<playVars, seatVars>>
    <3>1. pendingReconnect[s] /\ matchActive
      BY <2>2 DEF WaitIsTimed, playVars
    <3>2. s # t
      BY <2>2, <3>1
    <3>3. rejoin'[s] = rejoin[s]
      BY <2>2, <3>2 DEF Inv, TypeOK, TaskOK
    <3>. QED
      BY <2>2, <3>1, <3>3 DEF WaitIsTimed, playVars, seatVars
  <2>. QED
    BY <1>5, <2>1, <2>2 DEF AbortIfNoReconnect
<1>. QED
  BY <1>1, <1>2, <1>3, <1>4, <1>5, WaitKinds

\* Whoever is waited for left a seat of the match in progress, and the timer
\* of that very drop is pending: no wait is endless, for any number of drops
\* and returns (client_disconnected, client_authorized,
\* Task_AbortIfNoReconnect).
THEOREM WaitsAreTimed == Spec => []WaitIsTimed
<1>1. Init => WaitIsTimed
  BY DEF Init, PluginInit, WaitIsTimed, NoFlags
<1>. QED
  BY <1>1, WaitStep, Invariance, PTL DEF Spec

-----------------------------------------------------------------------------
(* Outside match mode a seat is held by the player it was given to.         *)

\* Every client entity stands for one person, and the two seats of a match
\* belong to two different persons.
SeatInv ==
  /\ \A c, e \in Clients : user[c] = user[e] /\ user[c] # NoUser => c = e
  /\ \A c \in Clients : ingame[c] => user[c] # NoUser
  /\ \A s \in Slots : player[s] # 0 => matchActive /\ user[player[s]] = authId[s]
  /\ matchActive => /\ authId[0] # authId[1]
                    /\ authId[0] # NoUser /\ authId[1] # NoUser

SeatsSame == UNCHANGED <<matchActive, player, authId, user, ingame>>

\* The seats are given to two candidates.
Seating ==
  /\ SelectMatchPlayers /\ matchActive'
  /\ UNCHANGED <<user, ingame>>

\* People leave, and nobody is seated any more.
Unseating ==
  /\ player' = NoSeats /\ ~matchActive'
  /\ \A c \in Clients : user'[c] \in {user[c], NoUser}
  /\ \A c \in Clients : ingame'[c] => ingame[c] /\ user'[c] = user[c]

LEMMA EndMatchUnseats == ASSUME Inv, EndMatch PROVE Unseating
<1>1. \A c \in Clients : user'[c] \in {user[c], NoUser}
  BY DEF EndMatch, KickAllBots
<1>2. \A c \in Clients : ingame'[c] => ingame[c] /\ user'[c] = user[c]
  BY DEF EndMatch, KickAllBots
<1>. QED
  BY <1>1, <1>2 DEF EndMatch, Unseating

LEMMA LoadUnseats == ASSUME PluginLoad PROVE Unseating
BY DEF PluginLoad, Unseating

LEMMA SeatKinds ==
  ASSUME Inv, [Next]_vars
  PROVE  \/ SeatsSame \/ Seating \/ Unseating
         \/ \E u \in Users : Connect(u)
         \/ \E b \in Bots : BotJoin(b)
         \/ \E c \in Clients : Disconnect(c) \/ Authorized(c) \/ PutInServer(c)
         \/ \E test \in BOOLEAN, r \in Clients \cup {0} : StartWithBot(test, r)
<1> USE DEF SeatsSame, playVars, seatVars, connVars
<1>1. CASE UNCHANGED vars
  BY <1>1 DEF vars
<1>2. ASSUME NEW c \in Clients, Spawn(c) PROVE SeatsSame
  BY <1>2 DEF Spawn
<1>3. ASSUME NEW c \in Clients, NEW t \in TeamChoices, ChooseTeam(c, t)
      PROVE  SeatsSame
  BY <1>3 DEF ChooseTeam
<1>4. CASE EnforceSpectators \/ TaskEnableBotTestMode \/ CmdMap \/ CmdHardReset
  BY <1>4 DEF EnforceSpectators, TaskEnableBotTestMode, CmdMap, CmdHardReset
<1>5. ASSUME StartWarmup PROVE SeatsSame \/ Seating
  BY <1>5 DEF StartWarmup, EnterWarmup, Seating
<1>6. CASE CmdStart \/ TaskStartMatchMode
  BY <1>5, <1>6 DEF CmdStart, TaskStartMatchMode
<1>7. CASE TaskStartMatch
  BY <1>5, <1>7 DEF TaskStartMatch, BeginMatch, Seating
<1>8. CASE WarmupTick
  BY <1>8 DEF WarmupTick, BeginMatch, Inv, TypeOK, FlagOK, ScoreInv
<1>9. ASSUME NEW status \in Sides \cup {"draw"}, RoundEnd(status)
      PROVE  SeatsSame
  BY <1>9 DEF RoundEnd
<1>10. CASE AfterRoundEnd \/ RoundDamage
  BY <1>10 DEF AfterRoundEnd, RoundDamage
<1>11. CASE AnnounceMatchResult \/ CmdStop
  BY <1>11, EndMatchUnseats DEF AnnounceMatchResult, CmdStop
<1>12. ASSUME NEW s \in Slots, AbortIfNoReconnect(s)
       PROVE  SeatsSame \/ Unseating
  BY <1>12, EndMatchUnseats DEF AbortIfNoReconnect
<1>13. CASE ChangeMap \/ DoHardReset
  BY <1>13, LoadUnseats DEF ChangeMap, DoHardReset
<1>. QED
  BY <1>1, <1>2, <1>3, <1>4, <1>6, <1>7, <1>8, <1>9, <1>10, <1>11, <1>12,
     <1>13 DEF Next

\* A newcomer takes a free entity, which is nobody's seat.
LEMMA ArrivalStep ==
  ASSUME Inv, SeatInv, NEW x \in Users \cup Bots, NEW c \in Clients,
         \A e \in Clients : user[e] # x, user[c] = NoUser,
         user' = [user EXCEPT ![c] = x],
         \A e \in Clients : e # c => ingame'[e] = ingame[e],
         UNCHANGED <<matchActive, player, authId>>
  PROVE  SeatInv'
<1>1. x # NoUser
  BY MatchAssumption
<1>2. \A e \in Clients : user'[e] = IF e = c THEN x ELSE user[e]
  BY DEF Inv, TypeOK, ConnOK
<1>3. \A s \in Slots : player[s] # c
  BY DEF SeatInv, Slots, Clients
<1>4. \A s \in Slots : player[s] # 0 => player[s] \in Clients
  BY DEF Inv, TypeOK, SeatOK
<1>5. \A e, f \in Clients : user'[e] = user'[f] /\ user'[e] # NoUser => e = f
  BY <1>2 DEF SeatInv
<1>6. \A e \in Clients : ingame'[e] => user'[e] # NoUser
  BY <1>1, <1>2 DEF SeatInv
<1>7. \A s \in Slots : player'[s] # 0
                         => matchActive' /\ user'[player'[s]] = authId'[s]
  BY <1>2, <1>3, <1>4 DEF SeatInv
<1>. QED
  BY <1>5, <1>6, <1>7 DEF SeatInv

LEMMA SeatStep ==
  ASSUME ~MatchMode, Inv, Inv', SeatInv, [Next]_vars PROVE SeatInv'
<1>0. \A s \in Slots : player[s] # 0 => player[s] \in Clients
  BY DEF Inv, TypeOK, SeatOK
<1>1. CASE SeatsSame
  BY <1>1 DEF SeatsSame, SeatInv
<1>2. CASE Seating
  <2>1. PICK p \in [Slots -> Candidates] :
          p[0] # p[1] /\ player' = p /\ authId' = [s \in Slots |-> user[p[s]]]
    BY <1>2 DEF Seating, SelectMatchPlayers
  <2>2. \A s \in Slots : p[s] \in Clients /\ user[p[s]] # NoUser
    BY <2>1 DEF Candidates, SeatInv
  <2>3. authId'[0] # authId'[1] /\ authId'[0] # NoUser /\ authId'[1] # NoUser
    BY <2>1, <2>2 DEF SeatInv, Slots
  <2>. QED
    BY <1>2, <2>1, <2>2, <2>3 DEF Seating, SeatInv
<1>3. CASE Unseating
  <2>1. \A s \in Slots : player'[s] = 0
    BY <1>3 DEF Unseating, NoSeats
  <2>2. \A c, e \in Clients : user'[c] = user'[e] /\ user'[c] # NoUser => c = e
    BY <1>3 DEF Unseating, SeatInv
  <2>3. \A c \in Clients : ingame'[c] => user'[c] # NoUser
    BY <1>3 DEF Unseating, SeatInv
  <2>. QED
    BY <1>3, <2>1, <2>2, <2>3 DEF Unseating, SeatInv
<1>4. ASSUME NEW u \in Users, Connect(u) PROVE SeatInv'
  <2>1. PICK c \in Clients : user[c] = NoUser /\ user' = [user EXCEPT ![c] = u]
    BY <1>4 DEF Connect
  <2>. QED
    BY <1>4, <2>1, ArrivalStep DEF Connect, playVars, seatVars
<1>5. ASSUME NEW b \in Bots, BotJoin(b) PROVE SeatInv'
  <2>1. PICK c \in Clients : /\ user[c] = NoUser
                             /\ user' = [user EXCEPT ![c] = b]
                             /\ ingame' = [ingame EXCEPT ![c] = TRUE]
    BY <1>5 DEF BotJoin
  <2>2. \A e \in Clients : e # c => ingame'[e] = ingame[e]
    BY <2>1 DEF Inv, TypeOK, ConnOK
  <2>. QED
    BY <1>5, <2>1, <2>2, ArrivalStep DEF BotJoin, playVars, seatVars
<1>6. ASSUME NEW c \in Clients, PutInServer(c) PROVE SeatInv'
  BY <1>6, MatchAssumption
     DEF PutInServer, SeatInv, Inv, TypeOK, ConnOK, playVars, seatVars
<1>7. ASSUME NEW c \in Clients, Disconnect(c) PROVE SeatInv'
  <2>1. \A e \in Clients : /\ user'[e] = IF e = c THEN NoUser ELSE user[e]
                           /\ ingame'[e] = IF e = c THEN FALSE ELSE ingame[e]
    BY <1>7 DEF Disconnect, Inv, TypeOK, ConnOK
  <2>2. \A s \in Slots : player'[s] # 0 => player'[s] = player[s] /\ player[s] # c
    <3>1. CASE IsMatchPlayer(c)
      <4>1. player' = [player EXCEPT ![GetSlot(c)] = 0]
        BY <1>7, <3>1 DEF Disconnect
      <4>2. \A s \in Slots : player[s] = c => s = GetSlot(c)
        BY <3>1, <1>0 DEF GetSlot, IsMatchPlayer, SeatInv, Slots, Clients
      <4>. QED
        BY <4>1, <4>2 DEF GetSlot, Slots, Inv, TypeOK, SeatOK
    <3>2. CASE ~IsMatchPlayer(c)
      BY <1>7, <3>2 DEF Disconnect, IsMatchPlayer, SeatInv, Slots
    <3>. QED
      BY <3>1, <3>2
  <2>3. UNCHANGED <<matchActive, authId>>
    BY <1>7 DEF Disconnect
  <2>4. \A s \in Slots : player'[s] # 0
                         => matchActive' /\ user'[player'[s]] = authId'[s]
    <3> SUFFICES ASSUME NEW s \in Slots, player'[s] # 0
                 PROVE  matchActive' /\ user'[player'[s]] = authId'[s]
      OBVIOUS
    <3>1. player'[s] = player[s] /\ player[s] # c /\ player[s] # 0
      BY <2>2
    <3>2. user'[player[s]] = user[player[s]]
      BY <1>0, <2>1, <3>1
    <3>3. matchActive /\ user[player[s]] = authId[s]
      BY <3>1 DEF SeatInv
    <3>. QED
      BY <2>3, <3>1, <3>2, <3>3, Zenon
  <2>5. ASSUME NEW e \in Clients, NEW f \in Clients,
               user'[e] = user'[f], user'[e] # NoUser
        PROVE  e = f
    <3>1. user[e] = user[f] /\ user[e] # NoUser
      BY <2>1, <2>5, Zenon
    <3>. QED
      BY <1>0, <3>1, Zenon DEF SeatInv
  <2>6. \A e \in Clients : ingame'[e] => user'[e] # NoUser
    BY <2>1 DEF SeatInv
  <2>. QED
    BY <2>3, <2>4, <2>5, <2>6 DEF SeatInv
<1>8. ASSUME NEW c \in Clients, Authorized(c) PROVE SeatInv'
  <2>1. ModeSlots(user[c]) = {}
    BY DEF ModeSlots
  <2>2. CASE player' = player
    BY <1>8, <2>2 DEF Authorized, SeatInv
  <2>3. ASSUME NEW s \in RejoinSlots(user[c]),
               player' = [player EXCEPT ![s] = c]
        PROVE  SeatInv'
    <3>1. s \in Slots /\ matchActive /\ authId[s] = user[c]
      BY <2>3 DEF RejoinSlots
    <3>2. \A t \in Slots : player'[t] = IF t = s THEN c ELSE player[t]
      BY <2>3, <3>1 DEF Inv, TypeOK, SeatOK
    <3>3. UNCHANGED <<user, ingame, authId, matchActive>>
      BY <1>8 DEF Authorized, connVars
    <3>4. \A t \in Slots : player'[t] # 0
                           => matchActive' /\ user'[player'[t]] = authId'[t]
      BY <3>1, <3>2, <3>3 DEF SeatInv
    <3>. QED
      BY <3>3, <3>4 DEF SeatInv
  <2>. QED
    BY <1>8, <2>1, <2>2, <2>3 DEF Authorized
<1>9. ASSUME NEW test \in BOOLEAN, NEW r \in Clients \cup {0},
             StartWithBot(test, r)
      PROVE  SeatInv'
  <2>1. \A e \in Clients : user'[e] \in {user[e], NoUser}
    BY <1>9 DEF StartWithBot
  <2>2. \A e \in Clients : ingame'[e] => ingame[e] /\ user'[e] = user[e]
    BY <1>9 DEF StartWithBot
  <2>. QED
    BY <1>9, <2>1, <2>2 DEF StartWithBot, SeatInv, playVars, seatVars
<1>. QED
  BY <1>1, <1>2, <1>3, <1>4, <1>5, <1>6, <1>7, <1>8, <1>9, SeatKinds

\* With any number of people and clients, whoever leaves, joins or comes back,
\* a seat is only ever held by the person it was given to, and the two seats
\* by two persons (SelectMatchPlayers, client_authorized,
\* client_disconnected).  In match mode it is not so (see the README).
THEOREM SeatsAreKept == ~MatchMode => (Spec => []SeatsHoldTheirPlayers)
<1> SUFFICES ASSUME ~MatchMode PROVE Spec => []SeatsHoldTheirPlayers
  OBVIOUS
<1>1. Init => SeatInv
  BY DEF Init, PluginInit, SeatInv, NoSeats
<1>2. Inv /\ Inv' /\ SeatInv /\ [Next]_vars => SeatInv'
  BY SeatStep
<1>3. Inv /\ SeatInv => SeatsHoldTheirPlayers
  BY DEF SeatInv, SeatsHoldTheirPlayers, Other, Slots, Inv, TypeOK, SeatOK
<1>. QED
  BY <1>1, <1>2, <1>3, Invariance, PTL DEF Spec

=============================================================================
