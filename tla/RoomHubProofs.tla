--------------------------- MODULE RoomHubProofs ---------------------------
(***************************************************************************)
(* Theorems about a room: its creations, its place for a joiner, its slots *)
(* and who is told of the match.                                           *)
(*                                                                         *)
(* Each invariant rests on a lemma that says what a step may do to the     *)
(* state it is about (RowKinds, CreationKinds, HolderKinds, MatchKinds);   *)
(* only the steps that do something are looked at again.                   *)
(***************************************************************************)
EXTENDS RoomHub, TLAPS

-----------------------------------------------------------------------------
(* The row.                                                                 *)

\* What a step may do to the row: nothing, or one of the statements of the store.
RowStatement ==
  \/ UNCHANGED rowVars
  \/ \E u \in Joiners : Joinable /\ joiner' = u /\ status' = "ready"
                         /\ UNCHANGED <<deleted, rowMatch>>
  \/ \E u \in Users \cup {Nobody} : RowLeave(u)
  \/ RowDelete \/ RowComplete
  \/ \E m \in Nat : RowMatched(m)

LEMMA RowKinds ==
  ASSUME TypeOK, [Next]_vars PROVE RowStatement
<1> USE DEF RowStatement, rowVars
<1>1. ASSUME NEW u \in Joiners, Join(u) PROVE RowStatement
  BY <1>1 DEF Join
<1>2. ASSUME NEW u \in Joiners, LeaveByRest(u) PROVE RowStatement
  BY <1>2 DEF LeaveByRest, Users
<1>3. ASSUME NEW c \in Conns, KickRow(c) PROVE RowStatement
  BY <1>3 DEF KickRow, TypeOK, ConnOK
<1>4. ASSUME NEW c \in Conns, Record(c) PROVE RowStatement
  BY <1>4 DEF Record, TypeOK, ConnOK
<1>5. ASSUME NEW c \in Conns, QuitRow(c) PROVE RowStatement
  BY <1>5 DEF QuitRow
<1>6. ASSUME NEW c \in Conns, LeaveRow(c) PROVE RowStatement
  BY <1>6 DEF LeaveRow, TypeOK, ConnOK
<1>7. ASSUME NEW g \in Enders, EndWrite(g) PROVE RowStatement
  BY <1>7 DEF EndWrite
<1>8. CASE SweepDelete
  BY <1>8 DEF SweepDelete
<1>9. ASSUME NEW c \in Conns, NEW u \in Users, Open(c, u)
      PROVE  RowStatement
  BY <1>9 DEF Open
<1>10. ASSUME NEW c \in Conns,
              GetOrCreate(c) \/ Attach(c) \/ Confirm(c) \/ CancelConfirm(c) \/
              Kick(c) \/ Post(c) \/ PostFailed(c) \/ PostMade(c) \/ Announce(c) \/
              Left(c) \/ LeaveUnconfirm(c) \/ CheckEmpty(c) \/ Forget(c)
      PROVE  RowStatement
  BY <1>10 DEF GetOrCreate, Attach, Confirm, CancelConfirm, Kick, Post, PostFailed,
               PostMade, Announce, Left, LeaveUnconfirm, CheckEmpty, Forget
<1>11. ASSUME NEW c \in Conns, NEW e \in BOOLEAN, Leave(c, e)
      PROVE  RowStatement
  BY <1>11 DEF Leave
<1>12. ASSUME NEW g \in Enders,
              EndRead(g) \/ EndFind(g) \/ EndSlots(g) \/ EndClose(g)
      PROVE  RowStatement
  BY <1>12 DEF EndRead, EndFind, EndSlots, EndClose
<1>13. CASE SweepList \/ SweepCheck
  BY <1>13 DEF SweepList, SweepCheck
<1>14. CASE UNCHANGED vars
  BY <1>14 DEF vars
<1>. QED
  BY <1>1, <1>2, <1>3, <1>4, <1>5, <1>6, <1>7, <1>8, <1>9, <1>10, <1>11, <1>12,
     <1>13, <1>14 DEF Next, Arrives, Says, Creates, Leaves, Ends

LEMMA RowStep == TypeOK /\ [Next]_vars => RowOK'
<1> SUFFICES ASSUME TypeOK, RowStatement PROVE RowOK'
  BY RowKinds
<1>. QED
  BY DEF TypeOK, RowOK, RowStatement, rowVars, RowLeave, RowDelete, RowComplete,
         RowMatched

LEMMA JoinableStep ==
  TypeOK /\ RowIsJoinable /\ [Next]_vars => RowIsJoinable'
<1> SUFFICES ASSUME TypeOK, RowIsJoinable, RowStatement PROVE RowIsJoinable'
  BY RowKinds
<1>. QED
  BY RoomAssumption
     DEF TypeOK, RowOK, RowIsJoinable, RowStatement, rowVars, RowLeave, RowDelete,
         RowComplete, RowMatched

LEMMA JoinerStep ==
  ASSUME TypeOK, [Next]_vars, joiner' # joiner
  PROVE  Nobody \in {joiner, joiner'}
BY RowKinds DEF RowStatement, rowVars, RowLeave, RowDelete, RowComplete, RowMatched,
                Joinable

-----------------------------------------------------------------------------
(* The types of the service's memory.                                       *)

\* SetSlot keeps the types of the slots ...
LEMMA SlotSet ==
  ASSUME SlotOK, NEW k \in Hubs, NEW i \in Roles, NEW c \in Conns \cup {NoConn},
         NEW m \in Nat, SetSlot(k, i, c, m)
  PROVE  SlotOK'
<1>1. slots' \in [Hubs -> [Roles -> Conns \cup {NoConn}]]
  BY DEF SetSlot, SlotOK
<1>2. confirmed' \in [Hubs -> [Roles -> BOOLEAN]]
  BY DEF SetSlot, SlotOK
<1>3. told' \in [Hubs -> [Roles -> Nat]]
  BY DEF SetSlot, SlotOK
<1>. QED
  BY <1>1, <1>2, <1>3 DEF SlotOK

\* ... and emptying one leaves the others alone.
LEMMA SlotEmptied ==
  ASSUME SlotOK, NEW k \in Hubs, NEW i \in Roles,
         slots' = [slots EXCEPT ![k][i] = NoConn], told' = [told EXCEPT ![k][i] = 0],
         NEW h \in Hubs, NEW r \in Roles, slots'[h][r] # NoConn
  PROVE  slots'[h][r] = slots[h][r] /\ told'[h][r] = told[h][r]
<1>1. CASE h # k
  BY <1>1 DEF SlotOK
<1>2. CASE h = k
  <2>1. slots'[k] = [slots[k] EXCEPT ![i] = NoConn] /\ told'[k] = [told[k] EXCEPT ![i] = 0]
    BY DEF SlotOK
  <2>. QED
    BY <1>2, <2>1 DEF SlotOK
<1>. QED
  BY <1>1, <1>2

LEMMA SlotStep == TypeOK /\ [Next]_vars => SlotOK'
<1> SUFFICES ASSUME TypeOK, [Next]_vars PROVE SlotOK'
  OBVIOUS
<1> USE RoomAssumption DEF TypeOK, SlotOK, slotVars
<1>1. ASSUME NEW c \in Conns, Attach(c)
      PROVE  SlotOK'
  BY <1>1 DEF Attach, SetSlot, Replay, HubOK
<1>2. ASSUME NEW c \in Conns, Confirm(c)
      PROVE  SlotOK'
  BY <1>2 DEF Confirm
<1>3. ASSUME NEW c \in Conns, CancelConfirm(c)
      PROVE  SlotOK'
  BY <1>3 DEF CancelConfirm
<1>4. ASSUME NEW c \in Conns, Kick(c)
      PROVE  SlotOK'
  BY <1>4 DEF Kick, None
<1>5. ASSUME NEW c \in Conns, PostFailed(c)
      PROVE  SlotOK'
  BY <1>5 DEF PostFailed, None
<1>6. ASSUME NEW c \in Conns, Announce(c)
      PROVE  SlotOK'
  BY <1>6 DEF Announce, ConnOK
<1>7. ASSUME NEW c \in Conns, NEW e \in BOOLEAN, Leave(c, e)
      PROVE  SlotOK'
  <2>1. hub[c] \in Hubs /\ role[c] \in Roles
    BY <1>7 DEF Leave, ConnOK
  <2>2. \/ UNCHANGED slotVars
        \/ SetSlot(hub[c], role[c], NoConn, 0)
    BY <1>7 DEF Leave
  <2>. QED
    BY <2>1, <2>2, SlotSet
<1>8. ASSUME NEW c \in Conns, LeaveUnconfirm(c)
      PROVE  SlotOK'
  BY <1>8 DEF LeaveUnconfirm
<1>9. ASSUME NEW g \in Enders, EndSlots(g)
      PROVE  SlotOK'
  BY <1>9 DEF EndSlots, Step, Empty, None, Nothing
<1>10. CASE UNCHANGED vars
  BY <1>10 DEF vars
<1>11. ASSUME NEW u \in Joiners, Join(u) \/ LeaveByRest(u)
      PROVE  SlotOK'
  BY <1>11 DEF Join, LeaveByRest
<1>12. ASSUME NEW c \in Conns, NEW u \in Users, Open(c, u)
      PROVE  SlotOK'
  BY <1>12 DEF Open
<1>13. ASSUME NEW c \in Conns,
              GetOrCreate(c) \/ KickRow(c) \/ Post(c) \/ PostMade(c) \/ Record(c) \/
              Left(c) \/ QuitRow(c) \/ LeaveRow(c) \/ CheckEmpty(c) \/ Forget(c)
      PROVE  SlotOK'
  BY <1>13 DEF GetOrCreate, KickRow, Post, PostMade, Record, Left, QuitRow,
               LeaveRow, CheckEmpty, Forget
<1>14. ASSUME NEW g \in Enders,
              EndRead(g) \/ EndWrite(g) \/ EndFind(g) \/ EndClose(g)
      PROVE  SlotOK'
  BY <1>14 DEF EndRead, EndWrite, EndFind, EndClose
<1>15. CASE SweepList \/ SweepCheck \/ SweepDelete
  BY <1>15 DEF SweepList, SweepCheck, SweepDelete
<1>. QED
  BY <1>1, <1>2, <1>3, <1>4, <1>5, <1>6, <1>7, <1>8, <1>9, <1>10, <1>11, <1>12,
     <1>13, <1>14, <1>15 DEF Next, Arrives, Says, Creates, Leaves, Ends

LEMMA HubStep == TypeOK /\ [Next]_vars => HubOK'
<1> SUFFICES ASSUME TypeOK, [Next]_vars PROVE HubOK'
  OBVIOUS
<1> USE RoomAssumption DEF TypeOK, HubOK, mgrVars, matchVars
<1>1. ASSUME NEW c \in Conns, GetOrCreate(c)
      PROVE  HubOK'
  BY <1>1 DEF GetOrCreate, Hubs
<1>2. ASSUME NEW c \in Conns, Confirm(c)
      PROVE  HubOK'
  BY <1>2 DEF Confirm
<1>3. ASSUME NEW c \in Conns, Post(c)
      PROVE  HubOK'
  BY <1>3 DEF Post
<1>4. ASSUME NEW c \in Conns, PostFailed(c)
      PROVE  HubOK'
  BY <1>4 DEF PostFailed, Released, None
<1>5. ASSUME NEW c \in Conns, PostMade(c)
      PROVE  HubOK'
  BY <1>5 DEF PostMade, Released, ConnOK
<1>6. ASSUME NEW c \in Conns, Forget(c)
      PROVE  HubOK'
  BY <1>6 DEF Forget
<1>7. ASSUME NEW g \in Enders, EndClose(g)
      PROVE  HubOK'
  BY <1>7 DEF EndClose
<1>8. CASE UNCHANGED vars
  BY <1>8 DEF vars
<1>9. ASSUME NEW u \in Joiners, Join(u) \/ LeaveByRest(u)
      PROVE  HubOK'
  BY <1>9 DEF Join, LeaveByRest
<1>10. ASSUME NEW c \in Conns, NEW u \in Users, Open(c, u)
      PROVE  HubOK'
  BY <1>10 DEF Open
<1>11. ASSUME NEW c \in Conns,
              Attach(c) \/ CancelConfirm(c) \/ Kick(c) \/ KickRow(c) \/ Record(c) \/
              Announce(c) \/ Left(c) \/ QuitRow(c) \/ LeaveRow(c) \/
              LeaveUnconfirm(c) \/ CheckEmpty(c)
      PROVE  HubOK'
  BY <1>11 DEF Attach, CancelConfirm, Kick, KickRow, Record, Announce, Left,
               QuitRow, LeaveRow, LeaveUnconfirm, CheckEmpty
<1>12. ASSUME NEW c \in Conns, NEW e \in BOOLEAN, Leave(c, e)
      PROVE  HubOK'
  BY <1>12 DEF Leave
<1>13. ASSUME NEW g \in Enders,
              EndRead(g) \/ EndWrite(g) \/ EndFind(g) \/ EndSlots(g)
      PROVE  HubOK'
  BY <1>13 DEF EndRead, EndWrite, EndFind, EndSlots
<1>14. CASE SweepList \/ SweepCheck \/ SweepDelete
  BY <1>14 DEF SweepList, SweepCheck, SweepDelete
<1>. QED
  BY <1>1, <1>2, <1>3, <1>4, <1>5, <1>6, <1>7, <1>8, <1>9, <1>10, <1>11, <1>12,
     <1>13, <1>14 DEF Next, Arrives, Says, Creates, Leaves, Ends

LEMMA ConnStep == TypeOK /\ [Next]_vars => ConnOK'
<1> SUFFICES ASSUME TypeOK, [Next]_vars PROVE ConnOK'
  OBVIOUS
<1> USE RoomAssumption DEF TypeOK, ConnOK, idVars
<1>1. ASSUME NEW c \in Conns, NEW u \in Users, Open(c, u)
      PROVE  ConnOK'
  BY <1>1 DEF Open, Goto, Steps, Roles
<1>2. ASSUME NEW c \in Conns, GetOrCreate(c)
      PROVE  ConnOK'
  <2>1. PICK h \in Hubs : hub' = [hub EXCEPT ![c] = h]
    BY <1>2 DEF GetOrCreate, Hubs, HubOK
  <2>. QED
    BY <1>2, <2>1 DEF GetOrCreate, Goto, Hubs, Steps
<1>3. ASSUME NEW c \in Conns, Attach(c)
      PROVE  ConnOK'
  BY <1>3 DEF Attach, Goto, Steps
<1>4. ASSUME NEW c \in Conns, Confirm(c)
      PROVE  ConnOK'
  BY <1>4 DEF Confirm, Goto, Steps
<1>5. ASSUME NEW c \in Conns, Kick(c)
      PROVE  ConnOK'
  <2>1. target' \in [Conns -> Users \cup {Nobody}]
    <3>1. hub[c] \in Hubs /\ slots[hub[c]][1] \in Conns \cup {NoConn}
      BY <1>5 DEF Kick, SlotOK, Roles
    <3>. QED
      BY <1>5, <3>1 DEF Kick
  <2>2. pc' = pc \/ pc' = [pc EXCEPT ![c] = "kicking"]
    BY <1>5 DEF Kick, Goto
  <2>. QED
    BY <1>5, <2>1, <2>2 DEF Kick, Steps
<1>6. ASSUME NEW c \in Conns, KickRow(c)
      PROVE  ConnOK'
  BY <1>6 DEF KickRow, Goto, Steps
<1>7. ASSUME NEW c \in Conns, Post(c)
      PROVE  ConnOK'
  <2>1. answer' = answer \/ answer' = [answer EXCEPT ![c] = made + 1]
    BY <1>7 DEF Post
  <2>2. answer' \in [Conns -> Nat]
    BY <2>1 DEF HubOK
  <2>. QED
    BY <1>7, <2>2 DEF Post, Goto, Steps
<1>8. ASSUME NEW c \in Conns, PostFailed(c)
      PROVE  ConnOK'
  BY <1>8 DEF PostFailed, Goto, Steps
<1>9. ASSUME NEW c \in Conns, PostMade(c)
      PROVE  ConnOK'
  BY <1>9 DEF PostMade, Goto, Steps
<1>10. ASSUME NEW c \in Conns, Record(c)
      PROVE  ConnOK'
  BY <1>10 DEF Record, Goto, Steps
<1>11. ASSUME NEW c \in Conns, Announce(c)
      PROVE  ConnOK'
  BY <1>11 DEF Announce, Goto, Steps
<1>12. ASSUME NEW c \in Conns, NEW e \in BOOLEAN, Leave(c, e)
      PROVE  ConnOK'
  BY <1>12 DEF Leave, Goto, Return, Steps, Roles
<1>13. ASSUME NEW c \in Conns, Left(c)
      PROVE  ConnOK'
  BY <1>13 DEF Left, Goto, Steps
<1>14. ASSUME NEW c \in Conns, QuitRow(c)
      PROVE  ConnOK'
  BY <1>14 DEF QuitRow, Goto, Steps
<1>15. ASSUME NEW c \in Conns, LeaveRow(c)
      PROVE  ConnOK'
  BY <1>15 DEF LeaveRow, Goto, Steps
<1>16. ASSUME NEW c \in Conns, LeaveUnconfirm(c)
      PROVE  ConnOK'
  BY <1>16 DEF LeaveUnconfirm, Goto, Steps
<1>17. ASSUME NEW c \in Conns, CheckEmpty(c)
      PROVE  ConnOK'
  BY <1>17 DEF CheckEmpty, Goto, Return, Steps, Roles
<1>18. ASSUME NEW c \in Conns, Forget(c)
      PROVE  ConnOK'
  BY <1>18 DEF Forget, Goto, Return, Steps, Roles
<1>19. CASE UNCHANGED vars
  BY <1>19 DEF vars
<1>20. ASSUME NEW u \in Joiners, Join(u) \/ LeaveByRest(u)
      PROVE  ConnOK'
  BY <1>20 DEF Join, LeaveByRest
<1>21. ASSUME NEW c \in Conns, CancelConfirm(c)
      PROVE  ConnOK'
  BY <1>21 DEF CancelConfirm
<1>22. ASSUME NEW g \in Enders,
              EndRead(g) \/ EndWrite(g) \/ EndFind(g) \/ EndSlots(g) \/ EndClose(g)
      PROVE  ConnOK'
  BY <1>22 DEF EndRead, EndWrite, EndFind, EndSlots, EndClose
<1>23. CASE SweepList \/ SweepCheck \/ SweepDelete
  BY <1>23 DEF SweepList, SweepCheck, SweepDelete
<1>. QED
  BY <1>1, <1>2, <1>3, <1>4, <1>5, <1>6, <1>7, <1>8, <1>9, <1>10, <1>11, <1>12,
     <1>13, <1>14, <1>15, <1>16, <1>17, <1>18, <1>19, <1>20, <1>21, <1>22, <1>23
     DEF Next, Arrives, Says, Creates, Leaves, Ends

LEMMA RestStep == TypeOK /\ [Next]_vars => RestOK'
<1> SUFFICES ASSUME TypeOK, [Next]_vars PROVE RestOK'
  OBVIOUS
<1> USE RoomAssumption DEF TypeOK, RestOK, restVars
<1>1. ASSUME NEW g \in Enders, EndRead(g)
      PROVE  RestOK'
  BY <1>1 DEF EndRead, Step
<1>2. ASSUME NEW g \in Enders, EndWrite(g)
      PROVE  RestOK'
  BY <1>2 DEF EndWrite, Step
<1>3. ASSUME NEW g \in Enders, EndFind(g)
      PROVE  RestOK'
  BY <1>3 DEF EndFind, Step, HubOK
<1>4. ASSUME NEW g \in Enders, EndSlots(g)
      PROVE  RestOK'
  BY <1>4 DEF EndSlots, Step
<1>5. ASSUME NEW g \in Enders, EndClose(g)
      PROVE  RestOK'
  BY <1>5 DEF EndClose, Step
<1>6. CASE SweepList
  BY <1>6 DEF SweepList
<1>7. CASE SweepCheck
  BY <1>7 DEF SweepCheck
<1>8. CASE SweepDelete
  BY <1>8 DEF SweepDelete
<1>9. CASE UNCHANGED vars
  BY <1>9 DEF vars
<1>10. ASSUME NEW u \in Joiners, Join(u) \/ LeaveByRest(u)
      PROVE  RestOK'
  BY <1>10 DEF Join, LeaveByRest
<1>11. ASSUME NEW c \in Conns, NEW u \in Users, Open(c, u)
      PROVE  RestOK'
  BY <1>11 DEF Open
<1>12. ASSUME NEW c \in Conns,
              GetOrCreate(c) \/ Attach(c) \/ Confirm(c) \/ CancelConfirm(c) \/
              Kick(c) \/ KickRow(c) \/ Post(c) \/ PostFailed(c) \/ PostMade(c) \/
              Record(c) \/ Announce(c) \/ Left(c) \/ QuitRow(c) \/ LeaveRow(c) \/
              LeaveUnconfirm(c) \/ CheckEmpty(c) \/ Forget(c)
      PROVE  RestOK'
  BY <1>12 DEF GetOrCreate, Attach, Confirm, CancelConfirm, Kick, KickRow, Post,
               PostFailed, PostMade, Record, Announce, Left, QuitRow, LeaveRow,
               LeaveUnconfirm, CheckEmpty, Forget
<1>13. ASSUME NEW c \in Conns, NEW e \in BOOLEAN, Leave(c, e)
      PROVE  RestOK'
  BY <1>13 DEF Leave
<1>. QED
  BY <1>1, <1>2, <1>3, <1>4, <1>5, <1>6, <1>7, <1>8, <1>9, <1>10, <1>11, <1>12,
     <1>13 DEF Next, Arrives, Says, Creates, Leaves, Ends

-----------------------------------------------------------------------------
(* Creations.                                                               *)

\* The creations in flight and the flags stay as they are.
CreationKept ==
  /\ matching' = matching
  /\ \A c \in Conns : (Creating(c)' <=> Creating(c)) /\ (Creating(c) => hub'[c] = hub[c])

LEMMA CreationKinds ==
  ASSUME TypeOK, [Next]_vars
  PROVE  CreationKept \/ \E c \in Conns : Confirm(c) \/ PostFailed(c) \/ PostMade(c)
<1> USE DEF CreationKept, Creating, matchVars, idVars, TypeOK, ConnOK
<1>1. ASSUME NEW c \in Conns, NEW u \in Users, Open(c, u) PROVE CreationKept
  BY <1>1 DEF Open, Goto
<1>2. ASSUME NEW c \in Conns, GetOrCreate(c) PROVE CreationKept
  BY <1>2 DEF GetOrCreate, Goto
<1>3. ASSUME NEW c \in Conns, Attach(c) PROVE CreationKept
  BY <1>3 DEF Attach, Goto
<1>4. ASSUME NEW c \in Conns, Kick(c) PROVE CreationKept
  BY <1>4 DEF Kick, Goto
<1>5. ASSUME NEW c \in Conns, KickRow(c) PROVE CreationKept
  BY <1>5 DEF KickRow, Goto
<1>6. ASSUME NEW c \in Conns, Record(c) PROVE CreationKept
  BY <1>6 DEF Record, Goto
<1>7. ASSUME NEW c \in Conns, Announce(c) PROVE CreationKept
  BY <1>7 DEF Announce, Goto
<1>8. ASSUME NEW c \in Conns, NEW e \in BOOLEAN, Leave(c, e) PROVE CreationKept
  BY <1>8 DEF Leave, Goto, Return
<1>9. ASSUME NEW c \in Conns, Left(c) PROVE CreationKept
  BY <1>9 DEF Left, Goto
<1>10. ASSUME NEW c \in Conns, QuitRow(c) PROVE CreationKept
  BY <1>10 DEF QuitRow, Goto
<1>11. ASSUME NEW c \in Conns, LeaveRow(c) PROVE CreationKept
  BY <1>11 DEF LeaveRow, Goto
<1>12. ASSUME NEW c \in Conns, LeaveUnconfirm(c) PROVE CreationKept
  BY <1>12 DEF LeaveUnconfirm, Goto
<1>13. ASSUME NEW c \in Conns, CheckEmpty(c) PROVE CreationKept
  BY <1>13 DEF CheckEmpty, Goto, Return
<1>14. ASSUME NEW c \in Conns, Forget(c) PROVE CreationKept
  BY <1>14 DEF Forget, Goto, Return
<1>15. ASSUME NEW c \in Conns, Post(c) PROVE CreationKept
  BY <1>15 DEF Post, Goto
<1>16. ASSUME NEW u \in Joiners, Join(u) \/ LeaveByRest(u)
      PROVE  CreationKept
  BY <1>16 DEF Join, LeaveByRest
<1>17. ASSUME NEW c \in Conns, CancelConfirm(c)
      PROVE  CreationKept
  BY <1>17 DEF CancelConfirm
<1>18. ASSUME NEW g \in Enders,
              EndRead(g) \/ EndWrite(g) \/ EndFind(g) \/ EndSlots(g) \/ EndClose(g)
      PROVE  CreationKept
  BY <1>18 DEF EndRead, EndWrite, EndFind, EndSlots, EndClose
<1>19. CASE SweepList \/ SweepCheck \/ SweepDelete
  BY <1>19 DEF SweepList, SweepCheck, SweepDelete
<1>20. CASE UNCHANGED vars
  BY <1>20 DEF vars
<1>. QED
  BY <1>1, <1>2, <1>3, <1>4, <1>5, <1>6, <1>7, <1>8, <1>9, <1>10, <1>11, <1>12,
     <1>13, <1>14, <1>15, <1>16, <1>17, <1>18, <1>19, <1>20
     DEF Next, Arrives, Says, Creates, Leaves, Ends

LEMMA CreationStep ==
  TypeOK /\ OneCreationInFlight /\ [Next]_vars => OneCreationInFlight'
<1> SUFFICES ASSUME TypeOK, OneCreationInFlight, [Next]_vars
             PROVE  OneCreationInFlight'
  OBVIOUS
<1>1. CASE CreationKept
  BY <1>1 DEF CreationKept, OneCreationInFlight
<1>2. ASSUME NEW c \in Conns, Confirm(c) PROVE OneCreationInFlight'
  <2>1. CASE matching' = matching /\ pc' = pc
    BY <1>2, <2>1 DEF Confirm, idVars, OneCreationInFlight, Creating
  <2>2. CASE /\ matching' = [matching EXCEPT ![hub[c]] = TRUE]
             /\ pc' = [pc EXCEPT ![c] = "posting"] /\ ~matching[hub[c]]
    <3>1. hub' = hub /\ ~Creating(c) /\ hub[c] \in Hubs
      BY <1>2 DEF Confirm, idVars, Creating, TypeOK, ConnOK
    <3>2. \A d \in Conns : Creating(d)' <=> Creating(d) \/ d = c
      BY <2>2 DEF Creating, TypeOK, ConnOK
    <3>3. \A d \in Conns : Creating(d) => hub[d] # hub[c]
      BY <2>2, <3>1 DEF OneCreationInFlight
    <3>4. \A h \in Hubs : matching'[h] <=> matching[h] \/ h = hub[c]
      BY <2>2 DEF TypeOK, HubOK
    <3>. QED
      BY <3>1, <3>2, <3>3, <3>4 DEF OneCreationInFlight
  <2>. QED
    BY <1>2, <2>1, <2>2 DEF Confirm, BothAgree, Goto
<1>3. ASSUME NEW c \in Conns, PostFailed(c) \/ PostMade(c)
      PROVE  OneCreationInFlight'
  <2>1. hub' = hub /\ Creating(c) /\ hub[c] \in Hubs
    BY <1>3 DEF PostFailed, PostMade, idVars, Creating, TypeOK, ConnOK
  <2>2. \A d \in Conns : Creating(d)' <=> Creating(d) /\ d # c
    BY <1>3 DEF PostFailed, PostMade, Goto, Creating, TypeOK, ConnOK
  <2>3. \A d \in Conns : Creating(d) /\ d # c => hub[d] # hub[c]
    BY <2>1 DEF OneCreationInFlight
  <2>4. \A h \in Hubs : matching'[h] <=> matching[h] /\ h # hub[c]
    BY <1>3 DEF PostFailed, PostMade, Released, TypeOK, HubOK
  <2>. QED
    BY <2>1, <2>2, <2>3, <2>4 DEF OneCreationInFlight
<1>. QED
  BY <1>1, <1>2, <1>3, CreationKinds

-----------------------------------------------------------------------------
(* Slots.                                                                   *)

\* Every connection in a slot stays there, and stays what it is.
HoldersKept ==
  /\ \A h \in Hubs, r \in Roles : slots'[h][r] \in {slots[h][r], NoConn}
  /\ \A c \in Conns : pc[c] \in Reading =>
       pc'[c] \in Reading /\ hub'[c] = hub[c] /\ role'[c] = role[c]

LEMMA HolderKinds ==
  ASSUME TypeOK, [Next]_vars
  PROVE  \/ HoldersKept
         \/ \E c \in Conns : Attach(c) \/ \E e \in BOOLEAN : Leave(c, e)
<1> USE DEF HoldersKept, Reading, slotVars, idVars, TypeOK, ConnOK, SlotOK
<1>1. ASSUME NEW c \in Conns, NEW u \in Users, Open(c, u) PROVE HoldersKept
  BY <1>1 DEF Open, Goto
<1>2. ASSUME NEW c \in Conns, GetOrCreate(c) PROVE HoldersKept
  BY <1>2 DEF GetOrCreate, Goto
<1>3. ASSUME NEW c \in Conns, Confirm(c) PROVE HoldersKept
  BY <1>3 DEF Confirm, Goto
<1>4. ASSUME NEW c \in Conns, Kick(c) PROVE HoldersKept
  BY <1>4 DEF Kick, Goto
<1>5. ASSUME NEW c \in Conns, KickRow(c) PROVE HoldersKept
  BY <1>5 DEF KickRow, Goto
<1>6. ASSUME NEW c \in Conns, Post(c) PROVE HoldersKept
  BY <1>6 DEF Post, Goto
<1>7. ASSUME NEW c \in Conns, PostFailed(c) PROVE HoldersKept
  BY <1>7 DEF PostFailed, Goto
<1>8. ASSUME NEW c \in Conns, PostMade(c) PROVE HoldersKept
  BY <1>8 DEF PostMade, Goto
<1>9. ASSUME NEW c \in Conns, Record(c) PROVE HoldersKept
  BY <1>9 DEF Record, Goto
<1>10. ASSUME NEW c \in Conns, Announce(c) PROVE HoldersKept
  BY <1>10 DEF Announce, Goto
<1>11. ASSUME NEW c \in Conns, Left(c) PROVE HoldersKept
  BY <1>11 DEF Left, Goto
<1>12. ASSUME NEW c \in Conns, QuitRow(c) PROVE HoldersKept
  BY <1>12 DEF QuitRow, Goto
<1>13. ASSUME NEW c \in Conns, LeaveRow(c) PROVE HoldersKept
  BY <1>13 DEF LeaveRow, Goto
<1>14. ASSUME NEW c \in Conns, LeaveUnconfirm(c) PROVE HoldersKept
  BY <1>14 DEF LeaveUnconfirm, Goto
<1>15. ASSUME NEW c \in Conns, CheckEmpty(c) PROVE HoldersKept
  BY <1>15 DEF CheckEmpty, Goto, Return
<1>16. ASSUME NEW c \in Conns, Forget(c) PROVE HoldersKept
  BY <1>16 DEF Forget, Goto, Return
<1>17. ASSUME NEW g \in Enders, EndSlots(g) PROVE HoldersKept
  BY <1>17 DEF EndSlots, Empty
<1>18. ASSUME NEW u \in Joiners, Join(u) \/ LeaveByRest(u)
      PROVE  HoldersKept
  BY <1>18 DEF Join, LeaveByRest
<1>19. ASSUME NEW c \in Conns, CancelConfirm(c)
      PROVE  HoldersKept
  BY <1>19 DEF CancelConfirm
<1>20. ASSUME NEW g \in Enders,
              EndRead(g) \/ EndWrite(g) \/ EndFind(g) \/ EndClose(g)
      PROVE  HoldersKept
  BY <1>20 DEF EndRead, EndWrite, EndFind, EndClose
<1>21. CASE SweepList \/ SweepCheck \/ SweepDelete
  BY <1>21 DEF SweepList, SweepCheck, SweepDelete
<1>22. CASE UNCHANGED vars
  BY <1>22 DEF vars
<1>. QED
  BY <1>1, <1>2, <1>3, <1>4, <1>5, <1>6, <1>7, <1>8, <1>9, <1>10, <1>11, <1>12,
     <1>13, <1>14, <1>15, <1>16, <1>17, <1>18, <1>19, <1>20, <1>21, <1>22
     DEF Next, Arrives, Says, Creates, Leaves, Ends

LEMMA LiveStep ==
  TypeOK /\ SlotsAreLive /\ [Next]_vars => SlotsAreLive'
<1> SUFFICES ASSUME TypeOK, SlotsAreLive, [Next]_vars, NEW h \in Hubs, NEW r \in Roles,
                    slots'[h][r] # NoConn
             PROVE  /\ pc'[slots'[h][r]] \in Reading
                    /\ hub'[slots'[h][r]] = h /\ role'[slots'[h][r]] = r
  BY DEF SlotsAreLive
<1> USE RoomAssumption DEF TypeOK, SlotOK, ConnOK
<1>1. CASE HoldersKept
  BY <1>1 DEF HoldersKept, SlotsAreLive
<1>2. ASSUME NEW c \in Conns, Attach(c)
      PROVE  /\ pc'[slots'[h][r]] \in Reading
             /\ hub'[slots'[h][r]] = h /\ role'[slots'[h][r]] = r
  BY <1>2 DEF Attach, SetSlot, Goto, idVars, SlotsAreLive, Reading
<1>3. ASSUME NEW c \in Conns, NEW e \in BOOLEAN, Leave(c, e)
      PROVE  /\ pc'[slots'[h][r]] \in Reading
             /\ hub'[slots'[h][r]] = h /\ role'[slots'[h][r]] = r
  <2>1. CASE OwnsSlot(c)
    <3>1. slots' = [slots EXCEPT ![hub[c]][role[c]] = NoConn] /\ hub[c] \in Hubs
      BY <1>3, <2>1 DEF Leave, SetSlot
    <3>2. hub' = hub /\ role' = role /\ \A d \in Conns : d # c => pc'[d] = pc[d]
      BY <1>3, <2>1 DEF Leave, Goto, idVars
    <3>3. slots'[h][r] = slots[h][r] /\ slots[h][r] # c
      BY <2>1, <3>1 DEF OwnsSlot, SlotsAreLive
    <3>. QED
      BY <3>2, <3>3 DEF SlotsAreLive
  <2>2. CASE ~OwnsSlot(c)
    <3>1. slots' = slots /\ slots[h][r] # c
      BY <1>3, <2>2 DEF Leave, OwnsSlot, slotVars, SlotsAreLive
    <3>2. \A d \in Conns : d # c => /\ pc'[d] = pc[d] /\ hub'[d] = hub[d]
                                  /\ role'[d] = role[d]
      BY <1>3, <2>2 DEF Leave, Return, Goto
    <3>. QED
      BY <3>1, <3>2 DEF SlotsAreLive
  <2>. QED
    BY <2>1, <2>2
<1>. QED
  BY <1>1, <1>2, <1>3, HolderKinds

-----------------------------------------------------------------------------
(* Who is told.                                                             *)

Announcing(c) == pc[c] \in {"recording", "announcing"}

\* A match that is being announced, or that a hub has, is one the backend made.
AnswersAreMatches ==
  /\ \A c \in Conns : Announcing(c) => answer[c] # 0
  /\ \A h \in Hubs : matched[h] => hubMatch[h] # 0

\* What the hubs know of their matches, who is announcing them and to whom stays.
MatchKept ==
  /\ matched' = matched /\ hubMatch' = hubMatch
  /\ \A c \in Conns : Announcing(c)' <=> Announcing(c)
  /\ \A c \in Conns : Announcing(c) => answer'[c] = answer[c] /\ hub'[c] = hub[c]
  /\ \A h \in Hubs, r \in Roles :
       slots'[h][r] # NoConn => slots'[h][r] = slots[h][r] /\ told'[h][r] = told[h][r]

LEMMA MatchKinds ==
  ASSUME TypeOK, [Next]_vars
  PROVE  MatchKept \/ \E c \in Conns : Attach(c) \/ PostMade(c) \/ Announce(c)
<1> USE DEF MatchKept, Announcing, slotVars, matchVars, idVars, TypeOK, ConnOK, SlotOK
<1>1. ASSUME NEW c \in Conns, NEW u \in Users, Open(c, u) PROVE MatchKept
  BY <1>1 DEF Open, Goto
<1>2. ASSUME NEW c \in Conns, GetOrCreate(c) PROVE MatchKept
  BY <1>2 DEF GetOrCreate, Goto
<1>3. ASSUME NEW c \in Conns, Confirm(c) PROVE MatchKept
  BY <1>3 DEF Confirm, Goto
<1>4. ASSUME NEW c \in Conns, Kick(c) PROVE MatchKept
  <2>1. /\ matched' = matched /\ hubMatch' = hubMatch
        /\ \A d \in Conns : Announcing(d)' <=> Announcing(d)
        /\ \A d \in Conns : Announcing(d) => answer'[d] = answer[d] /\ hub'[d] = hub[d]
    BY <1>4 DEF Kick, Goto
  <2>2. \A h \in Hubs, r \in Roles :
          slots'[h][r] # NoConn => slots'[h][r] = slots[h][r] /\ told'[h][r] = told[h][r]
    <3>1. hub[c] \in Hubs /\ 1 \in Roles
      BY <1>4 DEF Kick, Roles
    <3>2. \/ UNCHANGED <<slots, told>>
          \/ /\ slots' = [slots EXCEPT ![hub[c]][1] = NoConn]
             /\ told' = [told EXCEPT ![hub[c]][1] = 0]
      BY <1>4 DEF Kick
    <3>. QED
      BY <3>1, <3>2, SlotEmptied
  <2>. QED
    BY <2>1, <2>2
<1>5. ASSUME NEW c \in Conns, KickRow(c) PROVE MatchKept
  BY <1>5 DEF KickRow, Goto
<1>6. ASSUME NEW c \in Conns, Post(c) PROVE MatchKept
  BY <1>6 DEF Post, Goto
<1>7. ASSUME NEW c \in Conns, PostFailed(c) PROVE MatchKept
  BY <1>7 DEF PostFailed, Goto
<1>8. ASSUME NEW c \in Conns, Record(c) PROVE MatchKept
  BY <1>8 DEF Record, Goto
<1>9. ASSUME NEW c \in Conns, NEW e \in BOOLEAN, Leave(c, e) PROVE MatchKept
  <2>1. /\ matched' = matched /\ hubMatch' = hubMatch
        /\ \A d \in Conns : Announcing(d)' <=> Announcing(d)
        /\ \A d \in Conns : Announcing(d) => answer'[d] = answer[d] /\ hub'[d] = hub[d]
    BY <1>9 DEF Leave, Goto, Return
  <2>2. \A h \in Hubs, r \in Roles :
          slots'[h][r] # NoConn => slots'[h][r] = slots[h][r] /\ told'[h][r] = told[h][r]
    <3>1. hub[c] \in Hubs /\ role[c] \in Roles
      BY <1>9 DEF Leave, Roles
    <3>2. \/ UNCHANGED <<slots, told>>
          \/ /\ slots' = [slots EXCEPT ![hub[c]][role[c]] = NoConn]
             /\ told' = [told EXCEPT ![hub[c]][role[c]] = 0]
      BY <1>9 DEF Leave, SetSlot
    <3>. QED
      BY <3>1, <3>2, SlotEmptied
  <2>. QED
    BY <2>1, <2>2
<1>10. ASSUME NEW c \in Conns, Left(c) PROVE MatchKept
  BY <1>10 DEF Left, Goto
<1>11. ASSUME NEW c \in Conns, QuitRow(c) PROVE MatchKept
  BY <1>11 DEF QuitRow, Goto
<1>12. ASSUME NEW c \in Conns, LeaveRow(c) PROVE MatchKept
  BY <1>12 DEF LeaveRow, Goto
<1>13. ASSUME NEW c \in Conns, LeaveUnconfirm(c) PROVE MatchKept
  BY <1>13 DEF LeaveUnconfirm, Goto
<1>14. ASSUME NEW c \in Conns, CheckEmpty(c) PROVE MatchKept
  BY <1>14 DEF CheckEmpty, Goto, Return
<1>15. ASSUME NEW c \in Conns, Forget(c) PROVE MatchKept
  BY <1>15 DEF Forget, Goto, Return
<1>16. ASSUME NEW g \in Enders, EndSlots(g) PROVE MatchKept
  <2>1. /\ matched' = matched /\ hubMatch' = hubMatch
        /\ \A d \in Conns : Announcing(d)' <=> Announcing(d)
        /\ \A d \in Conns : Announcing(d) => answer'[d] = answer[d] /\ hub'[d] = hub[d]
    BY <1>16 DEF EndSlots
  <2>2. PICK k \in {0} \cup Hubs : /\ slots' = [slots EXCEPT ![k] = Empty]
                                 /\ told' = [told EXCEPT ![k] = Nothing]
    BY <1>16 DEF EndSlots, RestOK
  <2>3. \A h \in Hubs, r \in Roles :
          slots'[h][r] # NoConn => slots'[h][r] = slots[h][r] /\ told'[h][r] = told[h][r]
    BY <2>2 DEF Empty
  <2>. QED
    BY <2>1, <2>3
<1>17. ASSUME NEW u \in Joiners, Join(u) \/ LeaveByRest(u)
      PROVE  MatchKept
  BY <1>17 DEF Join, LeaveByRest
<1>18. ASSUME NEW c \in Conns, CancelConfirm(c)
      PROVE  MatchKept
  BY <1>18 DEF CancelConfirm
<1>19. ASSUME NEW g \in Enders,
              EndRead(g) \/ EndWrite(g) \/ EndFind(g) \/ EndClose(g)
      PROVE  MatchKept
  BY <1>19 DEF EndRead, EndWrite, EndFind, EndClose
<1>20. CASE SweepList \/ SweepCheck \/ SweepDelete
  BY <1>20 DEF SweepList, SweepCheck, SweepDelete
<1>21. CASE UNCHANGED vars
  BY <1>21 DEF vars
<1>. QED
  BY <1>1, <1>2, <1>3, <1>4, <1>5, <1>6, <1>7, <1>8, <1>9, <1>10, <1>11, <1>12,
     <1>13, <1>14, <1>15, <1>16, <1>17, <1>18, <1>19, <1>20, <1>21
     DEF Next, Arrives, Says, Creates, Leaves, Ends

ToldInv == AnswersAreMatches /\ NobodyMissesTheMatch

LEMMA ToldStep ==
  TypeOK /\ ToldInv /\ [Next]_vars => ToldInv'
<1> SUFFICES ASSUME TypeOK, ToldInv, [Next]_vars PROVE ToldInv'
  OBVIOUS
<1> USE DEF ToldInv, AnswersAreMatches, NobodyMissesTheMatch
<1>1. CASE MatchKept
  BY <1>1 DEF MatchKept, Announcing
<1>2. ASSUME NEW c \in Conns, Attach(c) PROVE ToldInv'
  <2>1. /\ matched' = matched /\ hubMatch' = hubMatch /\ answer' = answer /\ hub' = hub
        /\ hub[c] \in Hubs /\ role[c] \in Roles
    BY <1>2 DEF Attach, matchVars, idVars, TypeOK, ConnOK
  <2>2. \A d \in Conns : Announcing(d)' <=> Announcing(d)
    BY <1>2 DEF Attach, Goto, Announcing, TypeOK, ConnOK
  <2>3. \A h \in Hubs, r \in Roles :
          \/ slots'[h][r] = slots[h][r] /\ told'[h][r] = told[h][r]
          \/ h = hub[c] /\ told'[h][r] = Replay(h)
    BY <1>2 DEF Attach, SetSlot, TypeOK, SlotOK
  <2>. QED
    BY <2>1, <2>2, <2>3 DEF Announcing, Replay
<1>3. ASSUME NEW c \in Conns, PostMade(c) PROVE ToldInv'
  <2>1. /\ slots' = slots /\ told' = told /\ hub' = hub /\ answer' = answer
        /\ hub[c] \in Hubs /\ answer[c] # 0
    BY <1>3 DEF PostMade, slotVars, idVars, TypeOK, ConnOK
  <2>2. \A d \in Conns : Announcing(d)' <=> Announcing(d) \/ d = c
    BY <1>3 DEF PostMade, Goto, Announcing, TypeOK, ConnOK
  <2>3. \A h \in Hubs : \/ matched'[h] = matched[h] /\ hubMatch'[h] = hubMatch[h]
                        \/ h = hub[c] /\ hubMatch'[h] = answer[c]
    BY <1>3 DEF PostMade, TypeOK, HubOK
  <2>. QED
    BY <2>1, <2>2, <2>3 DEF Announcing
<1>4. ASSUME NEW c \in Conns, Announce(c) PROVE ToldInv'
  <2>1. /\ matched' = matched /\ hubMatch' = hubMatch /\ slots' = slots /\ hub' = hub
        /\ hub[c] \in Hubs /\ Announcing(c)
    BY <1>4 DEF Announce, matchVars, idVars, Announcing, TypeOK, ConnOK
  <2>2. \A d \in Conns : /\ Announcing(d)' <=> Announcing(d) /\ d # c
                         /\ d # c => answer'[d] = answer[d]
    BY <1>4 DEF Announce, Goto, Announcing, TypeOK, ConnOK
  <2>3. \A h \in Hubs, r \in Roles :
          \/ h # hub[c] /\ told'[h][r] = told[h][r]
          \/ h = hub[c] /\ (slots[h][r] # NoConn => told'[h][r] = answer[c])
    BY <1>4 DEF Announce, TypeOK, SlotOK
  <2>. QED
    BY <2>1, <2>2, <2>3 DEF Announcing
<1>. QED
  BY <1>1, <1>2, <1>3, <1>4, MatchKinds

-----------------------------------------------------------------------------
(* Who empties a slot.                                                      *)

LEMMA SlotKinds ==
  ASSUME [Next]_vars
  PROVE  \/ slots' = slots
         \/ \E c \in Conns : Attach(c) \/ Kick(c) \/ \E e \in BOOLEAN : Leave(c, e)
         \/ \E g \in Enders : EndSlots(g)
<1> USE DEF slotVars
<1>1. ASSUME NEW u \in Joiners, Join(u) \/ LeaveByRest(u)
      PROVE  slots' = slots
  BY <1>1 DEF Join, LeaveByRest
<1>2. ASSUME NEW c \in Conns, NEW u \in Users, Open(c, u)
      PROVE  slots' = slots
  BY <1>2 DEF Open
<1>3. ASSUME NEW c \in Conns,
             GetOrCreate(c) \/ Confirm(c) \/ CancelConfirm(c) \/ KickRow(c) \/
             Post(c) \/ PostFailed(c) \/ PostMade(c) \/ Record(c) \/ Announce(c) \/
             Left(c) \/ QuitRow(c) \/ LeaveRow(c) \/ LeaveUnconfirm(c) \/
             CheckEmpty(c) \/ Forget(c)
      PROVE  slots' = slots
  BY <1>3 DEF GetOrCreate, Confirm, CancelConfirm, KickRow, Post, PostFailed,
              PostMade, Record, Announce, Left, QuitRow, LeaveRow, LeaveUnconfirm,
              CheckEmpty, Forget
<1>4. ASSUME NEW g \in Enders,
             EndRead(g) \/ EndWrite(g) \/ EndFind(g) \/ EndClose(g)
      PROVE  slots' = slots
  BY <1>4 DEF EndRead, EndWrite, EndFind, EndClose
<1>5. CASE SweepList \/ SweepCheck \/ SweepDelete
  BY <1>5 DEF SweepList, SweepCheck, SweepDelete
<1>6. CASE UNCHANGED vars
  BY <1>6 DEF vars
<1>. QED
  BY <1>1, <1>2, <1>3, <1>4, <1>5, <1>6
     DEF Next, Arrives, Says, Creates, Leaves, Ends

\* Who may have emptied slot r of hub h.
Emptied(h, r) ==
  \/ pc'[slots[h][r]] \in {"left", "quit"}
  \/ r = 1 /\ \E c \in Conns : pc[c] = "reading" /\ pc'[c] = "kicking"
  \/ \E g \in Enders : ender[g].at = "found" /\ ender'[g].at = "closing"

LEMMA EmptiedStep ==
  ASSUME TypeOK, SlotsAreLive, [Next]_vars, NEW h \in Hubs, NEW r \in Roles,
         slots[h][r] # NoConn, slots'[h][r] = NoConn
  PROVE  Emptied(h, r)
<1> USE RoomAssumption DEF TypeOK, SlotOK, ConnOK, RestOK
<1>1. ASSUME NEW c \in Conns, Attach(c) PROVE FALSE
  <2>1. slots' = [slots EXCEPT ![hub[c]][role[c]] = c] /\ c # NoConn
    BY <1>1 DEF Attach, SetSlot
  <2>. QED
    BY <2>1
<1>2. ASSUME NEW c \in Conns, Kick(c) PROVE Emptied(h, r)
  <2>1. hub[c] \in Hubs /\ slots' = [slots EXCEPT ![hub[c]][1] = NoConn]
    BY <1>2 DEF Kick
  <2>2. h = hub[c] /\ r = 1
    BY <2>1 DEF Roles
  <2>3. pc[c] = "reading" /\ pc'[c] = "kicking"
    BY <1>2, <2>2 DEF Kick, Goto
  <2>. QED
    BY <2>2, <2>3 DEF Emptied
<1>3. ASSUME NEW c \in Conns, NEW e \in BOOLEAN, Leave(c, e) PROVE Emptied(h, r)
  <2>1. OwnsSlot(c) /\ slots' = [slots EXCEPT ![hub[c]][role[c]] = NoConn]
    BY <1>3 DEF Leave, SetSlot, slotVars
  <2>2. slots[h][r] = c
    <3>1. hub[c] \in Hubs
      BY <1>3 DEF Leave
    <3>2. h = hub[c] /\ r = role[c]
      BY <2>1, <3>1
    <3>. QED
      BY <2>1, <3>2 DEF OwnsSlot
  <2>3. pc'[c] \in {"left", "quit"}
    BY <1>3, <2>1 DEF Leave, Goto
  <2>. QED
    BY <2>2, <2>3 DEF Emptied
<1>4. ASSUME NEW g \in Enders, EndSlots(g) PROVE Emptied(h, r)
  <2>1. ender[g].at = "found" /\ ender'[g].at = "closing"
    BY <1>4 DEF EndSlots, Step
  <2>. QED
    BY <2>1 DEF Emptied
<1>. QED
  BY <1>1, <1>2, <1>3, <1>4, SlotKinds

-----------------------------------------------------------------------------
(* The theorems.                                                            *)

Inv == TypeOK /\ RowIsJoinable /\ OneCreationInFlight /\ SlotsAreLive /\ ToldInv

LEMMA InvInit == Init => Inv
<1> SUFFICES ASSUME Init PROVE Inv
  OBVIOUS
<1> USE RoomAssumption DEF Init
<1>1. TypeOK
  BY DEF TypeOK, RowOK, SlotOK, HubOK, ConnOK, RestOK, Hubs, Roles, Users, Enders, Steps,
         Empty, None, Nothing, Idle
<1>2. RowIsJoinable /\ OneCreationInFlight
  BY DEF RowIsJoinable, OneCreationInFlight, Creating
<1>3. SlotsAreLive
  BY DEF SlotsAreLive, Empty
<1>4. ToldInv
  BY DEF ToldInv, AnswersAreMatches, NobodyMissesTheMatch, Announcing
<1>. QED
  BY <1>1, <1>2, <1>3, <1>4 DEF Inv

LEMMA InvStep == Inv /\ [Next]_vars => Inv'
BY RowStep, SlotStep, HubStep, ConnStep, RestStep, JoinableStep, CreationStep, LiveStep,
   ToldStep
   DEF Inv, TypeOK

LEMMA Invariance == Spec => []Inv
BY InvInit, InvStep, PTL DEF Spec

\* Every variable keeps its type for any number of joiners, connections, hubs and
\* matches; whoever is about to work on a hub has one.
THEOREM TypeCorrect == Spec => []TypeOK
BY Invariance, PTL DEF Inv

\* The test of the confirmations and of the flag under one lock makes creations
\* exclusive in a hub, however many connections it has had (hub.go:235-243).
THEOREM CreationIsExclusive == Spec => []OneCreationInFlight
BY Invariance, PTL DEF Inv

\* The status and the place of a room agree, whoever writes the row (store.go).
THEOREM PlaceIsAsTheStatusSays == Spec => []RowIsJoinable
BY Invariance, PTL DEF Inv

\* No slot refers to a connection that has gone (hub.go:163-177).
THEOREM NoSlotIsDead == Spec => []SlotsAreLive
BY Invariance, PTL DEF Inv

\* Between the broadcast and the repetition on connect nobody slips through
\* (hub.go:117-120, 307-315).
THEOREM EverybodyIsTold == Spec => []NobodyMissesTheMatch
BY Invariance, PTL DEF Inv, ToldInv

\* The place of a joiner is never given away while he has it (store.go:374-388).
THEOREM JoinersAreSafe == Spec => JoinerIsNeverReplaced
<1>1. Inv /\ [Next]_vars => [joiner' # joiner => Nobody \in {joiner, joiner'}]_vars
  BY JoinerStep DEF Inv
<1>. QED
  BY <1>1, Invariance, PTL DEF Spec, JoinerIsNeverReplaced

\* A slot is only ever emptied by the connection that holds it, by a kick or by the
\* end of the room, for any number of connections that came and went (hub.go:164-167).
THEOREM SlotsAreSafe == Spec => OnlyItsOwnerEmptiesASlot
<1>1. Inv /\ [Next]_vars =>
        [\A h \in Hubs, r \in Roles :
           slots[h][r] # NoConn /\ slots'[h][r] = NoConn => Emptied(h, r)]_vars
  BY EmptiedStep DEF Inv
<1>. QED
  BY <1>1, Invariance, PTL DEF Spec, OnlyItsOwnerEmptiesASlot, Emptied

=============================================================================
