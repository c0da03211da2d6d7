------------------------------ MODULE RoomHub ------------------------------
(***************************************************************************)
(* One room of the mini-program: its row in wx_rooms (store.go), the hubs  *)
(* the service keeps for it in memory (hub.go, manager.go), and everybody  *)
(* who works on them: the read loop of every WebSocket connection, the     *)
(* REST handlers (rooms.go, internal.go) and the sweeper (main.go).        *)
(*                                                                         *)
(* Each of those is a goroutine.  An action is what a goroutine does under *)
(* one lock, or one SQL statement; between two of them any other goroutine *)
(* may run.  A connection stands for the WebSocket, for its read loop and  *)
(* for the slot object that Connect creates for it; once its read loop has *)
(* returned it stands for another one.  Closing a socket ends its read     *)
(* loop some time, which the network may do at any moment: it is no state. *)
(***************************************************************************)
EXTENDS Integers, FiniteSets

CONSTANTS
  Creator,      (* who created the room                                    *)
  Joiners,      (* the others                                              *)
  Nobody,       (* joiner_openid IS NULL                                   *)
  Conns,        (* bound: WebSocket connections at a time                  *)
  NoConn,       (* an empty slot                                           *)
  MaxHubs,      (* bound: hubs made for the room                           *)
  MaxMatches    (* bound: matches the backend makes for it                 *)

ASSUME RoomAssumption ==
  /\ Creator \notin Joiners /\ Nobody \notin Joiners \cup {Creator}
  /\ NoConn \notin Conns /\ MaxHubs \in Nat /\ MaxMatches \in Nat

Hubs  == 1..MaxHubs
Roles == {0, 1}                       \* slots: 0 creator, 1 joiner
Users == {Creator} \cup Joiners
Enders == {"leave", "ended"}          \* LeaveRoom of the creator, MatchEnded

VARIABLES
  (* the row *)
  status,     \* status; why a row was deleted is not told apart
  deleted,    \* deleted_at is set
  joiner,     \* joiner_openid
  rowMatch,   \* match_id
  (* the service's memory *)
  current,    \* the hub Manager.hubs has for the room, 0 when it has none
  hubs,       \* hubs made so far
  slots,      \* Hub.slots
  matching,   \* Hub.matching
  matched,    \* Hub.matched
  hubMatch,   \* Hub.matchID
  confirmed,  \* slot.confirmed
  (* the connections *)
  owner,      \* openid
  role,       \* idx
  hub,        \* the hub of its read loop
  pc,         \* what the read loop does next
  target,     \* handleKickJoiner: the openid that is kicked
  answer,     \* triggerMatch: the match the backend answered, 0 for an error
  (* the other goroutines *)
  ender,      \* what LeaveRoom and MatchEnded do next, and on which hub
  sweeper,    \* sweepStaleRooms
  (* history, read by no handler *)
  made,       \* matches the backend has made so far
  told        \* the match the client in a slot was told, 0 for none

rowVars   == <<status, deleted, joiner, rowMatch>>
mgrVars   == <<current, hubs>>
slotVars  == <<slots, confirmed, told>>
matchVars == <<matching, matched, hubMatch>>
idVars    == <<owner, role, hub>>
restVars  == <<ender, sweeper>>
vars == <<rowVars, mgrVars, slotVars, matchVars, idVars, pc, target, answer, restVars,
          made>>

Empty   == [r \in Roles |-> NoConn]
None    == [r \in Roles |-> FALSE]
Nothing == [r \in Roles |-> 0]
Idle == [at |-> "idle", hub |-> 0]

\* CreateRoom has inserted the row, nobody is connected.
Init ==
  /\ status = "waiting" /\ deleted = FALSE /\ joiner = Nobody /\ rowMatch = 0
  /\ current = 0 /\ hubs = 0
  /\ slots = [h \in Hubs |-> Empty]
  /\ matching = [h \in Hubs |-> FALSE] /\ matched = [h \in Hubs |-> FALSE]
  /\ hubMatch = [h \in Hubs |-> 0]
  /\ confirmed = [h \in Hubs |-> None]
  /\ owner = [c \in Conns |-> Nobody] /\ role = [c \in Conns |-> 0]
  /\ hub = [c \in Conns |-> 0] /\ pc = [c \in Conns |-> "new"]
  /\ target = [c \in Conns |-> Nobody] /\ answer = [c \in Conns |-> 0]
  /\ ender = [g \in Enders |-> Idle] /\ sweeper = "idle"
  /\ made = 0
  /\ told = [h \in Hubs |-> Nothing]

-----------------------------------------------------------------------------
(* Statements of the store.  The hub ignores their errors: where it runs   *)
(* one, the row may also stay as it is.                                    *)

\* Seeded: the status is not part of the WHERE clause's place test.
JoinableTwice == status \in {"waiting", "ready"} /\ ~deleted

\* JoinRoom: one UPDATE that tests and takes the place.
Joinable == status = "waiting" /\ joiner = Nobody /\ ~deleted

\* Seeded: the status is left as it was.
RowLeaveKeepsStatus(u) ==
  IF joiner = u /\ ~deleted
  THEN joiner' = Nobody /\ UNCHANGED <<status, deleted, rowMatch>>
  ELSE UNCHANGED rowVars

\* LeaveRoom: the place is free again if it is u's, whatever the status.
RowLeave(u) ==
  IF joiner = u /\ ~deleted
  THEN joiner' = Nobody /\ status' = "waiting" /\ UNCHANGED <<deleted, rowMatch>>
  ELSE UNCHANGED rowVars

\* DeleteRoom: a completed room keeps its status, a deleted one need not.
RowDelete ==
  /\ deleted' = TRUE
  /\ status' = IF status = "completed" THEN status ELSE "deleted"
  /\ UNCHANGED <<joiner, rowMatch>>

\* SetRoomMatched
RowMatched(m) ==
  IF deleted THEN UNCHANGED rowVars
  ELSE /\ status' = "matched" /\ rowMatch' = m
       /\ UNCHANGED <<deleted, joiner>>

\* CompleteRoom
RowComplete ==
  IF deleted THEN UNCHANGED rowVars
  ELSE status' = "completed" /\ UNCHANGED <<deleted, joiner, rowMatch>>

-----------------------------------------------------------------------------
(* REST handlers that change the row only.                                  *)

\* JoinRoom.  What it reads before the UPDATE (the room exists, it is not
\* one's own) cannot change in between, or is tested again.
Join(u) ==
  /\ Joinable
  /\ joiner' = u /\ status' = "ready"
  /\ UNCHANGED <<deleted, rowMatch, mgrVars, slotVars, matchVars, idVars, pc, target,
                 answer, restVars, made>>

\* LeaveRoom of somebody who is not the creator: the hub is not told.
LeaveByRest(u) ==
  /\ joiner = u /\ ~deleted
  /\ RowLeave(u)
  /\ UNCHANGED <<mgrVars, slotVars, matchVars, idVars, pc, target, answer, restVars,
                 made>>

-----------------------------------------------------------------------------
(* LeaveRoom of the creator and MatchEnded: read the row, write it, look    *)
(* for the hub, empty its slots, and forget it.                             *)

Step(g, to, h) == ender' = [ender EXCEPT ![g] = [at |-> to, hub |-> h]]

\* Nothing happens when the row is deleted, or does not have the match (yet).
EndRead(g) ==
  /\ ender[g].at = "idle" /\ ~deleted
  /\ g = "ended" => rowMatch # 0
  /\ Step(g, "read", 0)
  /\ UNCHANGED <<rowVars, mgrVars, slotVars, matchVars, idVars, pc, target, answer,
                 sweeper, made>>

\* Only a match that was played leaves the room in the list.  An error ends it.
EndWrite(g) ==
  /\ ender[g].at = "read"
  /\ \/ /\ RowDelete \/ (g = "ended" /\ RowComplete)
        /\ Step(g, "written", 0)
     \/ Step(g, "idle", 0) /\ UNCHANGED rowVars
  /\ UNCHANGED <<mgrVars, slotVars, matchVars, idVars, pc, target, answer,
                 sweeper, made>>

\* Seeded: that there may be no hub is forgotten.
EndFindAny(g) ==
  /\ ender[g].at = "written"
  /\ Step(g, "found", current)
  /\ UNCHANGED <<rowVars, mgrVars, slotVars, matchVars, idVars, pc, target, answer,
                 sweeper, made>>

\* Manager.GetIfExists
EndFind(g) ==
  /\ ender[g].at = "written"
  /\ IF current = 0 THEN Step(g, "idle", 0) ELSE Step(g, "found", current)
  /\ UNCHANGED <<rowVars, mgrVars, slotVars, matchVars, idVars, pc, target, answer,
                 sweeper, made>>

\* CloseByCreator, NotifyMatchEnded: the slots are emptied ...
EndSlots(g) ==
  /\ ender[g].at = "found"
  /\ slots' = [slots EXCEPT ![ender[g].hub] = Empty]
  /\ confirmed' = [confirmed EXCEPT ![ender[g].hub] = None]
  /\ told' = [told EXCEPT ![ender[g].hub] = Nothing]
  /\ Step(g, "closing", ender[g].hub)
  /\ UNCHANGED <<rowVars, mgrVars, matchVars, idVars, pc, target, answer, sweeper, made>>

\* ... the connections closed, and onEmpty removes whatever hub is there.
EndClose(g) ==
  /\ ender[g].at = "closing"
  /\ current' = 0
  /\ Step(g, "idle", 0)
  /\ UNCHANGED <<rowVars, hubs, slotVars, matchVars, idVars, pc, target, answer, sweeper,
                 made>>

-----------------------------------------------------------------------------
(* sweepStaleRooms: rooms that did not change for long and have no hub.     *)

SweepList ==
  /\ sweeper = "idle" /\ status \in {"waiting", "ready"} /\ ~deleted
  /\ sweeper' = "listed"
  /\ UNCHANGED <<rowVars, mgrVars, slotVars, matchVars, idVars, pc, target, answer,
                 ender, made>>

\* Manager.IsActive
SweepCheck ==
  /\ sweeper = "listed"
  /\ sweeper' = IF current = 0 THEN "inactive" ELSE "idle"
  /\ UNCHANGED <<rowVars, mgrVars, slotVars, matchVars, idVars, pc, target, answer,
                 ender, made>>

SweepDelete ==
  /\ sweeper = "inactive"
  /\ RowDelete
  /\ sweeper' = "idle"
  /\ UNCHANGED <<mgrVars, slotVars, matchVars, idVars, pc, target, answer,
                 ender, made>>

-----------------------------------------------------------------------------
(* A connection arrives: RoomWS and the beginning of Hub.Connect.           *)

Goto(c, to) == pc' = [pc EXCEPT ![c] = to]

\* RoomWS up to the upgrade: the role is that of the row as it is now.
Open(c, u) ==
  /\ pc[c] = "new"
  /\ ~deleted /\ u \in {Creator, joiner}
  /\ owner' = [owner EXCEPT ![c] = u]
  /\ role' = [role EXCEPT ![c] = IF u = Creator THEN 0 ELSE 1]
  /\ Goto(c, "upgraded")
  /\ UNCHANGED <<rowVars, mgrVars, slotVars, matchVars, hub, target, answer, restVars,
                 made>>

\* Manager.GetOrCreate
GetOrCreate(c) ==
  /\ pc[c] = "upgraded"
  /\ \/ /\ current # 0
        /\ hub' = [hub EXCEPT ![c] = current]
        /\ UNCHANGED mgrVars
     \/ /\ current = 0 /\ hubs < MaxHubs                          \* bound
        /\ hubs' = hubs + 1 /\ current' = hubs + 1
        /\ hub' = [hub EXCEPT ![c] = hubs + 1]
  /\ Goto(c, "attaching")
  /\ UNCHANGED <<rowVars, slotVars, matchVars, owner, role, target, answer, restVars,
                 made>>

\* The slot of a role is given to a connection whose client was told m, or emptied.
SetSlot(h, r, c, m) ==
  /\ slots' = [slots EXCEPT ![h][r] = c]
  /\ confirmed' = [confirmed EXCEPT ![h][r] = FALSE]
  /\ told' = [told EXCEPT ![h][r] = m]

\* Seeded: the match is not repeated to somebody who comes back late.
ReplayNothing(h) == 0

\* The match that was made is repeated to a client that (re)connects.
Replay(h) == IF matched[h] THEN hubMatch[h] ELSE 0

\* Connect takes the slot, whoever is in it, and reads on.
Attach(c) ==
  /\ pc[c] = "attaching"
  /\ SetSlot(hub[c], role[c], c, Replay(hub[c]))
  /\ Goto(c, "reading")
  /\ UNCHANGED <<rowVars, mgrVars, matchVars, idVars, target, answer, restVars, made>>

-----------------------------------------------------------------------------
(* What a client says.  A frame the server has received may still be read   *)
(* after the socket was closed or the slot was given to somebody else.      *)

\* Seeded: the flag is not tested.
BothAgreeAgain(h, conf) ==
  \A r \in Roles : slots[h][r] # NoConn /\ conf[h][r]

\* Both slots are taken and confirmed, and no creation is in flight.
BothAgree(h, conf) ==
  /\ \A r \in Roles : slots[h][r] # NoConn /\ conf[h][r]
  /\ ~matching[h]

\* handleConfirm: the confirmation goes to whoever has the slot now.
Confirm(c) ==
  /\ pc[c] = "reading"
  /\ LET h    == hub[c]
         conf == [confirmed EXCEPT ![h][role[c]] = slots[h][role[c]] # NoConn]
     IN
     /\ confirmed' = conf
     /\ IF BothAgree(h, conf)
        THEN matching' = [matching EXCEPT ![h] = TRUE] /\ Goto(c, "posting")
        ELSE UNCHANGED <<matching, pc>>
  /\ UNCHANGED <<rowVars, mgrVars, slots, told, matched, hubMatch, idVars, target, answer,
                 restVars, made>>

\* handleCancelConfirm
CancelConfirm(c) ==
  /\ pc[c] = "reading"
  /\ confirmed' = [confirmed EXCEPT ![hub[c]][role[c]] = FALSE]
  /\ UNCHANGED <<rowVars, mgrVars, slots, told, matchVars, idVars, pc, target, answer,
                 restVars, made>>

\* handleKickJoiner: the slot is emptied at once; row and connection follow.
\* It tests matched, not matching.
Kick(c) ==
  /\ pc[c] = "reading" /\ role[c] = 0 /\ ~matched[hub[c]]
  /\ LET h == hub[c] IN
     /\ slots' = [slots EXCEPT ![h][1] = NoConn]
     /\ confirmed' = [confirmed EXCEPT ![h] = None]
     /\ told' = [told EXCEPT ![h][1] = 0]
     /\ IF slots[h][1] = NoConn THEN UNCHANGED <<target, pc>>
        ELSE target' = [target EXCEPT ![c] = owner[slots[h][1]]] /\ Goto(c, "kicking")
  /\ UNCHANGED <<rowVars, mgrVars, matchVars, idVars, answer, restVars, made>>

KickRow(c) ==
  /\ pc[c] = "kicking"
  /\ RowLeave(target[c]) \/ UNCHANGED rowVars
  /\ target' = [target EXCEPT ![c] = Nobody]
  /\ Goto(c, "reading")
  /\ UNCHANGED <<mgrVars, slotVars, matchVars, idVars, answer, restVars, made>>

-----------------------------------------------------------------------------
(* triggerMatch, in the read loop of whoever confirmed last.                *)

\* createMatch, the POST to the manager backend: a match is made and the answer
\* arrives, or it is lost (15 seconds), or no match is made.
Post(c) ==
  /\ pc[c] = "posting"
  /\ \/ /\ made < MaxMatches                                     \* bound
        /\ made' = made + 1
        /\ answer' = [answer EXCEPT ![c] = made + 1] \/ UNCHANGED answer
     \/ UNCHANGED <<made, answer>>
  /\ Goto(c, "answered")
  /\ UNCHANGED <<rowVars, mgrVars, slotVars, matchVars, idVars, target, restVars>>

\* Seeded: a creation that failed keeps the flag.
ReleasedIfMade(c) == matching' = [matching EXCEPT ![hub[c]] = (answer[c] = 0)]

Released(c) == matching' = [matching EXCEPT ![hub[c]] = FALSE]

\* The creation failed: both have to confirm again.
PostFailed(c) ==
  /\ pc[c] = "answered" /\ answer[c] = 0
  /\ confirmed' = [confirmed EXCEPT ![hub[c]] = None]
  /\ Released(c)
  /\ Goto(c, "reading")
  /\ UNCHANGED <<rowVars, mgrVars, slots, told, matched, hubMatch, idVars, target, answer,
                 restVars, made>>

\* The match was made: first the hub knows ...
PostMade(c) ==
  /\ pc[c] = "answered" /\ answer[c] # 0
  /\ matched' = [matched EXCEPT ![hub[c]] = TRUE]
  /\ hubMatch' = [hubMatch EXCEPT ![hub[c]] = answer[c]]
  /\ Released(c)
  /\ Goto(c, "recording")
  /\ UNCHANGED <<rowVars, mgrVars, slotVars, idVars, target, answer, restVars, made>>

\* ... then the row ...
Record(c) ==
  /\ pc[c] = "recording"
  /\ RowMatched(answer[c]) \/ UNCHANGED rowVars
  /\ Goto(c, "announcing")
  /\ UNCHANGED <<mgrVars, slotVars, matchVars, idVars, target, answer, restVars, made>>

\* ... then whoever is connected.
Announce(c) ==
  /\ pc[c] = "announcing"
  /\ told' = [told EXCEPT ![hub[c]] =
                [r \in Roles |-> IF slots[hub[c]][r] = NoConn THEN 0 ELSE answer[c]]]
  /\ answer' = [answer EXCEPT ![c] = 0]
  /\ Goto(c, "reading")
  /\ UNCHANGED <<rowVars, mgrVars, slots, confirmed, matchVars, idVars, target, restVars,
                 made>>

-----------------------------------------------------------------------------
(* The read loop ends: the rest of Connect.                                 *)

\* Connect returns: nothing refers to the connection any more.
Return(c) ==
  /\ Goto(c, "new")
  /\ owner' = [owner EXCEPT ![c] = Nobody]
  /\ role' = [role EXCEPT ![c] = 0]
  /\ hub' = [hub EXCEPT ![c] = 0]

\* Seeded: a read loop that ends empties the slot of its role.
OwnsAnySlot(c) == TRUE

\* Seeded: after a match was made nothing is done, the slot is not emptied either.
OwnsSlotBefore(c) == slots[hub[c]][role[c]] = c /\ ~matched[hub[c]]

\* The slot was not given to a later connection.
OwnsSlot(c) == slots[hub[c]][role[c]] = c

\* The connection is lost, or the creator closes the room (close_room).
Leave(c, explicit) ==
  /\ pc[c] = "reading" /\ (explicit => role[c] = 0)
  /\ IF OwnsSlot(c)
     THEN /\ SetSlot(hub[c], role[c], NoConn, 0)
          /\ Goto(c, IF explicit THEN "quit" ELSE "left")
          /\ UNCHANGED idVars
     ELSE Return(c) /\ UNCHANGED slotVars
  /\ UNCHANGED <<rowVars, mgrVars, matchVars, target, answer, restVars, made>>

\* After a match was made nothing more is done; a creator may come back.
Left(c) ==
  /\ pc[c] \in {"left", "quit"}
  /\ Goto(c, IF matched[hub[c]] THEN "checking"
             ELSE IF pc[c] = "quit" THEN "closing"
             ELSE IF role[c] = 0 THEN "checking" ELSE "leaving")
  /\ UNCHANGED <<rowVars, mgrVars, slotVars, matchVars, idVars, target, answer, restVars,
                 made>>

\* The creator closed the room: the row is deleted, the opponent's socket closed.
QuitRow(c) ==
  /\ pc[c] = "closing"
  /\ RowDelete \/ UNCHANGED rowVars
  /\ Goto(c, "checking")
  /\ UNCHANGED <<mgrVars, slotVars, matchVars, idVars, target, answer, restVars, made>>

\* The joiner left: the place is free again ...
LeaveRow(c) ==
  /\ pc[c] = "leaving"
  /\ RowLeave(owner[c]) \/ UNCHANGED rowVars
  /\ Goto(c, "unconfirming")
  /\ UNCHANGED <<mgrVars, slotVars, matchVars, idVars, target, answer, restVars, made>>

\* ... and the creator has to confirm the next one anew.
LeaveUnconfirm(c) ==
  /\ pc[c] = "unconfirming"
  /\ confirmed' = [confirmed EXCEPT ![hub[c]][0] = FALSE]
  /\ Goto(c, "checking")
  /\ UNCHANGED <<rowVars, mgrVars, slots, told, matchVars, idVars, target, answer,
                 restVars, made>>

\* The last one out ...
CheckEmpty(c) ==
  /\ pc[c] = "checking"
  /\ IF slots[hub[c]] = Empty THEN Goto(c, "forgetting") /\ UNCHANGED idVars
     ELSE Return(c)
  /\ UNCHANGED <<rowVars, mgrVars, slotVars, matchVars, target, answer, restVars, made>>

\* ... calls onEmpty, which removes whatever hub the room has by then.
Forget(c) ==
  /\ pc[c] = "forgetting"
  /\ current' = 0
  /\ Return(c)
  /\ UNCHANGED <<rowVars, hubs, slotVars, matchVars, target, answer, restVars, made>>

-----------------------------------------------------------------------------
Arrives(c) == (\E u \in Users : Open(c, u)) \/ GetOrCreate(c) \/ Attach(c)

Says(c) == Confirm(c) \/ CancelConfirm(c) \/ Kick(c) \/ KickRow(c)

Creates(c) == Post(c) \/ PostFailed(c) \/ PostMade(c) \/ Record(c) \/ Announce(c)

Leaves(c) ==
  \/ \E explicit \in BOOLEAN : Leave(c, explicit)
  \/ Left(c) \/ QuitRow(c) \/ LeaveRow(c) \/ LeaveUnconfirm(c)
  \/ CheckEmpty(c) \/ Forget(c)

Ends(g) == EndRead(g) \/ EndWrite(g) \/ EndFind(g) \/ EndSlots(g) \/ EndClose(g)

Next ==
  \/ \E u \in Joiners : Join(u) \/ LeaveByRest(u)
  \/ \E c \in Conns : Arrives(c) \/ Says(c) \/ Creates(c) \/ Leaves(c)
  \/ \E g \in Enders : Ends(g)
  \/ SweepList \/ SweepCheck \/ SweepDelete

Spec == Init /\ [][Next]_vars

-----------------------------------------------------------------------------
(* Properties.                                                              *)

Steps == {"new", "upgraded", "attaching", "reading", "kicking", "posting", "answered",
          "recording", "announcing", "left", "quit", "closing", "leaving", "unconfirming",
          "checking", "forgetting"}

RowOK ==
  /\ status \in {"waiting", "ready", "matched", "completed", "deleted"}
  /\ deleted \in BOOLEAN /\ joiner \in Joiners \cup {Nobody} /\ rowMatch \in Nat

SlotOK ==
  /\ slots \in [Hubs -> [Roles -> Conns \cup {NoConn}]]
  /\ confirmed \in [Hubs -> [Roles -> BOOLEAN]]
  /\ told \in [Hubs -> [Roles -> Nat]]

HubOK ==
  /\ hubs \in {0} \cup Hubs /\ current \in {0} \cup Hubs
  /\ matching \in [Hubs -> BOOLEAN] /\ matched \in [Hubs -> BOOLEAN]
  /\ hubMatch \in [Hubs -> Nat] /\ made \in Nat

ConnOK ==
  /\ owner \in [Conns -> Users \cup {Nobody}] /\ role \in [Conns -> Roles]
  /\ hub \in [Conns -> {0} \cup Hubs] /\ pc \in [Conns -> Steps]
  /\ target \in [Conns -> Users \cup {Nobody}] /\ answer \in [Conns -> Nat]
  /\ \A c \in Conns : pc[c] \notin {"new", "upgraded"} => hub[c] # 0

RestOK ==
  /\ ender \in [Enders -> [at : {"idle", "read", "written", "found", "closing"},
                           hub : {0} \cup Hubs]]
  /\ \A g \in Enders : ender[g].at = "found" => ender[g].hub # 0
  /\ sweeper \in {"idle", "listed", "inactive"}

\* Types; a connection on its way to a slot has a hub, and so has whoever is
\* about to empty its slots.
TypeOK == RowOK /\ SlotOK /\ HubOK /\ ConnOK /\ RestOK

Creating(c) == pc[c] \in {"posting", "answered"}

\* Of the read loops of a hub at most one has a creation in flight, and the
\* flag is set exactly as long as there is one: handleConfirm tests and sets it
\* under the lock that decides, whatever is said, kicked or left meanwhile.
OneCreationInFlight ==
  /\ \A c, d \in Conns : Creating(c) /\ Creating(d) /\ hub[c] = hub[d] => c = d
  /\ \A h \in Hubs : matching[h] <=> \E c \in Conns : Creating(c) /\ hub[c] = h

\* A room that is open for a joiner has none, one that is ready has one: JoinRoom
\* takes a place nobody holds, and whoever frees it says so in the status, with
\* leaves by REST, kicks, dropped connections and late creations in any order.
RowIsJoinable ==
  ~deleted => /\ status = "waiting" => joiner = Nobody
              /\ status = "ready" => joiner # Nobody

\* A joiner is never replaced by another in one step: of two who join at the
\* same time one is refused, and nobody's place is taken from under him.
JoinerIsNeverReplaced ==
  [][joiner' # joiner => Nobody \in {joiner, joiner'}]_vars

\* A slot is emptied by the connection that holds it, by a kick or by the end of
\* the room, never by the read loop of a connection it replaced (hub.go:164-167).
OnlyItsOwnerEmptiesASlot ==
  [][\A h \in Hubs, r \in Roles :
       slots[h][r] # NoConn /\ slots'[h][r] = NoConn =>
         \/ pc'[slots[h][r]] \in {"left", "quit"}
         \/ r = 1 /\ \E c \in Conns : pc[c] = "reading" /\ pc'[c] = "kicking"
         \/ \E g \in Enders : ender[g].at = "found" /\ ender'[g].at = "closing"]_vars

Reading == {"reading", "kicking", "posting", "answered", "recording", "announcing"}

\* A slot never holds a connection whose read loop has ended, nor one of another
\* hub or role: what is broadcast or confirmed reaches somebody who is there, and
\* the hub is empty when the last one is gone.
SlotsAreLive ==
  \A h \in Hubs, r \in Roles : LET c == slots[h][r] IN
    c # NoConn => pc[c] \in Reading /\ hub[c] = h /\ role[c] = r

\* Once a hub has its match and the broadcast is done, everybody in its slots was
\* told, those who connected while it was made, recorded or announced included.
NobodyMissesTheMatch ==
  \A h \in Hubs :
    matched[h] =>
      \/ \E c \in Conns : hub[c] = h /\ pc[c] \in {"recording", "announcing"}
      \/ \A r \in Roles : slots[h][r] # NoConn => told[h][r] # 0

\* hub.go:202-205: what the creator confirmed for one joiner does not count for
\* the next one, who takes his slot.
ConfirmationIsNotCarriedOver ==
  [][\A h \in Hubs :
       LET old == slots[h][1]  new == slots'[h][1] IN
       NoConn \notin {old, new} /\ owner[old] # owner[new] => ~confirmed'[h][0]]_vars

=============================================================================
