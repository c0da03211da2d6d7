# Verification of the mr1v1 platform

mr1v1 runs ranked one-against-one Counter-Strike matches.  Two people meet in a
room of a WeChat mini-program, a server is created for them, an AMXX plugin
plays the match on it, and reports flow back until the room shows the result.
This directory holds TLA+ models of those parts, TLC instances that check them,
and TLAPS proofs of the facts that must hold for every size of the system.

## The system

```
 mini-program --WebSocket/REST--> room service (hub, store) --HTTP--> manager backend
                                        ^                                |   ^
                                        | round-update, match-ended      |   | status (MQTT)
                                     consumer <--MQTT-- gateway       create / destroy (MQTT)
                                        |                 ^              v   |
                                        v                 | HTTP       agent --docker, RCON--+
                                     Postgres       match + telemetry plugins <--------------+
```

| component | state it keeps | operations | what is hard about it |
|---|---|---|---|
| match plugin (`mr1v1_match.sma`) | seats, sides, score, round, match id, saved cvars, pending tasks | engine callbacks, chat and console commands, timers | tasks that are never cancelled, entities that are reused, drops and reconnects in every phase |
| telemetry plugin (`mr1v1_telemetry.sma`) | three batches of events, the seats of the match | hooks, periodic flush, forwards of the match plugin | batches at their limit, events around the start and the end of a match, reconnects |
| room hub (`room/hub.go`, `manager.go`) | per room: two slots with a connection, confirmations, `matching`, `matched`, score | WebSocket read loops, kick, confirm, close, score and end notifications | one goroutine per connection, a slow HTTP call outside the lock, hubs forgotten when empty |
| room store and REST (`store.go`, `handlers/*.go`, `main.go`) | one row per room | create, join, leave, list, sweep, complete | read-then-write over several requests, soft deletion |
| manager backend (`backend.go`) | one row per match, agents and their heartbeats | create, end, destroy, status messages, timeout sweep, choice of agent and port | every writer of the match state overwrites the others; ports are chosen before they are taken |
| agent (`agent.go`, `dockerctl.go`, `rcon.go`) | ports and passwords of its containers | create, destroy, heartbeat | one goroutine per command, create and destroy racing, restarts |
| gateway (`gateway.go`) | a bounded queue | record, publish | a full queue loses reports whose hook already ran |
| consumer (`consumer.go`) | Postgres tables | apply a report, forward to the room service, heartbeats | duplicates, order of the asynchronous notifications |
| A2S client (`pkg/a2s`) | one query | reassembly of split answers | datagrams lost, repeated, reordered |
| manager frontend (`App.tsx`, `api.ts`, `pages/*.tsx`) | tables, dialogs, spinners, the session cookie | polls, writes, navigation, login | answers late, lost or out of order; pages left or loaded anew; dialogs older than the row |
| accounts, maps, legacy sync, scripts | - | one row per request, or pure I/O | nothing interacts |

What makes each correct: a match is played once, by the two persons it was made
for, to the end its score decides, and every party learns of that end; a room is
held by one opponent, one match is created for it and its state follows the
match; a port is used by one container, every container is destroyed some day,
and a match in a final state stays in it.

PROJECT.json lists every component, the hazards of its code with their lines
and, where a model covers them, the properties that would catch them.

## Modules

| module | models |
|---|---|
| `Match` | the match plugin: one action per engine callback, command or timer |
| `MatchLifecycle` | the abstract promise of the plugin: warm up, play, decide, announce |
| `MatchGame` | what the programs around a match container rely on: one start, rounds, the end |
| `MatchImplementsLifecycle` | the refinement mappings from `Match` to `MatchLifecycle` and to `MatchGame` |
| `MCMatch` | the instances TLC checks |
| `MatchProofs` | types, end of a match and alternation of sides, proved for every instance |
| `MatchSeatProofs` | the wait for a reconnect and the ownership of seats, proved |
| `MatchReportProofs` | the reports of matches and rounds, the life of a container, the warm-up settings, proved |
| `MatchLifecycleProofs` | that the plugin implements `MatchLifecycle`, and in a container `MatchGame`, proved |
| `RoomHub` | a room: row, hubs, read loops, REST handlers, sweeper |
| `MCRoomHub` | its instances |
| `RoomHubProofs` | exclusive creation, slots, place and announcement, proved |
| `MatchControl` | the life of a match over backend, agent, Docker, gateway and consumer |
| `MCMatchControl` | its instances |
| `MatchControlProofs` | rows, ports, teardown and notification, proved |
| `Agents` | the hosts: heartbeats, their settings page, version test, fitness |
| `MCAgents` | its instance |
| `AgentsProofs` | types, ports against the limit, the two version tests, proved |
| `Console` | a browser tab on the page of the matches, its session, the backend's handlers |
| `MCConsole` | its instance |
| `ConsoleProofs` | types, spinners, creations and the view, proved |

### Match

The plugin is single threaded, so a handler is one action and what interleaves is
the order of the handlers.  The state is that of the plugin's globals, under
their names without the prefix (`g_bMatchActive` is `matchActive`), plus:

- *the engine's side*: who is connected on each client entity (`user`), whether
  it was authorized (`auth`) and put in the server (`ingame`), its team.  The
  engine gives out the first free entity, so an entity freed by one player is
  soon somebody else's;
- *pending tasks*.  `set_task` callbacks are actions enabled while their task is
  pending: `startTasks` (Task_StartMatch), `onceTasks` (match-mode start, bot
  test, map change, restart), `roundTasks` (the three tasks of a round end),
  `warmupTimer`, and `rejoin`, the 60-second timers of each slot.  Of those it
  distinguishes the timer of the drop that is still unanswered (`live`) from
  those of earlier drops (`stale`), which no code ever removes;
- *reports*: how often each match id was reported to start and to end, and
  which rounds were reported under it.

Time is not modelled: a pending task may fire at any moment.  Two facts about
delays are kept, because the code relies on them: the tasks of one round end fire
in the order of their delays (0.1 s for a delay of 0, then 0.3 and 0.4 s), and
nothing the engine starts a second later (the next round end, a warm-up tick)
overtakes them.  Commands, joins and drops may come between any two tasks.

Damage, names, chat, HUD and the voice matrix are left out.  `.refresh` only
re-executes settings.  A match id is a number, 0 before the first match after a
load; in match mode it is always 1, the id the container was made with.

### RoomHub

Every WebSocket connection has a goroutine (`Connect`), every REST call another,
and the sweeper is one more.  An action is what one of them does under one
lock or in one SQL statement; `pc` says where a read loop is between two of them.

| code | model |
|---|---|
| row of `wx_rooms` | `status`, `deleted`, `joiner`, `rowMatch`; the statements of store.go are the operators `Row...` and `Joinable` |
| `Manager.hubs[room]` | `current`; a hub that was removed lives on for the goroutines that hold it, so hubs are numbered |
| `Hub` | `slots`, `matching`, `matched`, `hubMatch` of each hub; `confirmed` and (history) `told` belong to the slot |
| `RoomWS`, `GetOrCreate`, `Connect` | `Open`, `GetOrCreate`, `Attach` |
| read loop | `Confirm`, `CancelConfirm`, `Kick`/`KickRow`, `Leave` |
| `triggerMatch` | `Post` (answered, failed, or made with the answer lost), `PostFailed`, or `PostMade`, `Record`, `Announce` |
| end of `Connect` | `Left`, then `QuitRow`, or `LeaveRow` and `LeaveUnconfirm`, then `CheckEmpty`, `Forget` |
| `LeaveRoom` of the creator, `MatchEnded` | `EndRead`, `EndWrite`, `EndFind`, `EndSlots`, `EndClose` |
| `sweepStaleRooms` | `SweepList`, `SweepCheck`, `SweepDelete` |

A connection may be lost at any moment, noticed late, and its last frames read
after it was replaced or closed; so closing a socket needs no state of its own.
Errors of the store are possible wherever the hub ignores them.  Left out are
chat, score, passwords and lists, and a second creator's room.

### MatchControl

The programs share the row of a match and no lock.  An action is one SQL
statement, one publication or one Docker call; what lies between two of them in
a handler is kept in `create`, `stop`, `todo` and `current` for the backend and
in `tasks` for the agent, where every command is a goroutine of its own.

| code | model |
|---|---|
| `manager_matches` | `row` (its state), `port`, `stale` (its `updated_at` is too old) |
| `handleCreateMatch` | `Pick`, `PublishCreate`, `Insert`: the command goes out before the row exists |
| `dispatchDestroy` | `StopRead`, `StopPublish`, `StopClose` |
| `sweepTimeoutMatches` | `SweepRead`, then `SweepPublish` and `SweepClose` for each match read |
| `createMatch` of the agent with `CreateAndStart` | `CreateContainer`, `StartContainer`, `PublishStatus` |
| `teardownMatch` with `StopAndRemoveByMatchID` | `FindContainer`, `RemoveContainer`, `PublishStatus` |
| `handleRecord` and its hook | `GameStarts`, `GameEnds`, over a queue of `QueueCap` |
| `onStatus`, `handle` of the consumer | `OnStatus`, `HandleStart`, `HandleEnd` |
| restarts | `AgentRestart` (goroutines and queue lost, containers kept), `BackendRestart` (requests, sweep and status reports lost) |

There is one agent; commands are delivered once and in any order relative to
each other, because their goroutines are; status reports and telemetry in the
order of their topics.  A match is asked to end once by an administrator.  The RCON
countdown of a graceful end delays the teardown and nothing else, so both ends are
one action; the agent's map of ports and passwords serves only that countdown.
Failures are publications that do not get out, Docker calls, the INSERT of the
row, and restarts, `MaxFaults` of them; the failure of an UPDATE is left out.
`loose` and `cut` are history variables the properties use to name their exceptions.

The game of a match is what `MatchGame` allows: it starts once, and its end may be
reported again, since a match that is stopped after its deciding round is announced
all the same.  That the plugin keeps to this is the property `GameSpec` of `MatchMode`
and the theorem `ImplementsGame`.  A container that is stopped in the warm-up reports
an end without a match id, which the gateway refuses (gateway.go:106), so no game
begins or ends here.  Reports reach the gateway in the order they are made; that the
plugin's HTTP calls could overtake each other is not modelled.

### Agents

One action per heartbeat (`Heartbeat`, the upsert of the consumer), per step of the
settings dialog (`OpenEdit`, `Edit`, `CloseEdit`, `HandleSave` up to its await,
`Saved`, `SaveFailed`) and per request (`HandleUpdateAgent`, `FailUpdate`).  The
port range is modelled by what the page's `parsePortRange`, `serializePortRange`
and `portCount` do to it; a text is a record that says which form it has.  A
version is a value with its parts (`Segments`) and its place as text (`Text`),
since the comparison uses the one or the other.  `PageLatest` and
`BackendLatest` are the two programs' ideas of the latest version.

The comparison is no order of all texts (1.9 < 1.10 < 1.10a < 1.9), and with such
versions what is the latest depends on the order of the rows.
`VersionsAreOrdered` assumes that the versions in use have a highest one.

### Console

A handler of a page runs up to its await in one action, the backend's handler is
a second one, and what follows the await a third (`Deliver...`).  Between them
`req` holds the request; `live` says that the page it was sent from is still
mounted, because a state setter of an unmounted component does nothing.  `page`
is the state of `MatchesPage` under its own names (`asked`, `waiting` and `cache`
are the three maps of the logs and the three of the server query).

Loading a page anew (`Open`, and the interceptor on a 401) abandons every
request; writes already sent may still arrive.  Any request may fail before or
after it had its effect.  A backend restart empties the sessions.  The other pages
are one page, which fetches once when it is mounted.  A match only goes forward
here (none, active, final); that it may come back is in MatchControl.

## Runs

| run | instance | question |
|---|---|---|
| `MatchMode` | match mode, 2 owners, 2 entities, best of 3, `.stop` | are rounds, score, sides and reports consistent under drops, reconnects and stops; does the plugin implement `MatchLifecycle` and report a `MatchGame` |
| `MatchManual` | standing server, 3 players, 2 entities, 2 timers per slot, `.start`, `.stop` | are seats never confused, waits always timed, warm-up settings always undone |
| `MatchBots` | standing server, 1 player, 2 bots, `.start_bot_test`, map change, restart | the same about seats, sides and the deciding round when bots come and go |
| `MatchLive` | match mode with bot stand-ins, best of 2, fairness | is a match that began over some day |
| `MatchStaleTimer` | standing server | (violated) is everybody who drops given the full wait |
| `RoomHub` | a creator, 2 joiners, 2 connections at a time, 2 hubs, 1 match | is a match created once at a time, is everybody told, do slots, place and status agree whatever is interleaved |
| `RoomConfirmation` | the same, 3 connections | (violated) is the confirmation of one joiner kept from the next |
| `MatchControl` | 1 match, its players come, one request to end it, queue of 1, 2 faults | does the row follow the game, is an ended game torn down and its end told, is every match closed for good |
| `MatchPorts` | 2 matches, 2 ports, requests to end both | do two active matches share a port |
| `FinalMeansDestroyed` | 1 match, a request to end it, no faults | (violated) is the container of a final match gone some day |
| `Agents` | 2 agents, 3 versions, 1 tab, 1 save at a time, 7 drafts | do the ports go on to suffice, do page and backend agree on who is out of date |
| `Console` | 1 match, 2 tokens, 2 requests at a time, fairness | does anything spin for ever, does a page create twice, does the table run ahead or stay behind, is a dead session noticed |

**Bounds.** Two client entities are the smallest server on which a match can be
played, and on it every entity that is freed is reused at once; the third player
and the bots are there to reuse it.  Two rounds are needed to see a swap and
three to see an early win (threshold 2), a win in the last round and a draw.
`MaxTimers` = 2 lets the timer of an earlier drop meet a later one.  `MaxMatches`
bounds the ids of the standing server (in match mode there is one id), and
`MaxStartTasks` the scheduled bot matches.  In `RoomHub` connections are used again, so
players reconnect without limit; two at a time are enough for both players, for
a player who replaces himself and for one joiner who replaces another.  The
second hub is the one that is made after, or beside, the first.

In `MatchControl` one match shows every race about its row and its container, for
they are per match: three parties end it (administrator, sweep, game), and two faults
let a restart follow a lost report.  `QueueCap` = 1 makes the queue full as soon as
the start of the match is still in it.  Ports need a second match; no match is played
there, since a game does not touch ports.  `Played`, `Stopped` and `MaxFaults`
bound what players, administrators and the environment do.  In `Agents` two agents are
needed for one to be behind the other, and the third version (no number) for the
comparison as text; every test of `handleSave` has a draft that fails it.  That two tabs
save at once is left to the theorem.  In `Console` two requests are enough for an
answer to overtake another one, and for a refresh during a query; a third only
repeats this.  Two tokens are an old session and a new one.

Deadlock is checked where the system never stops: the plugin, the agents and the
console.  A room may be deleted for good and a match is over some day, so the runs of
`RoomHub` and `MatchControl` do not check it.

All bounds are named in their module's CONSTANTS or by a guard marked
`bound`; the theorems hold for every value of them.

**Fairness.** `FairSpec` assumes that the plugin's own tasks fire once they are
due and that the round clock ends a round nobody wins (`mp_roundtime`), which
is what the AMXX scheduler and the engine do as long as the server runs.  Nothing is
assumed of players: they may leave for good.

`MatchControl!FairSpec` assumes that time passes and that the backend's sweep runs
(it is a ticker of one minute, restarted with the backend).  The agent, the game,
Docker and the administrators may stop for ever: the sweep closes the row without them.
`LiveSpec`, under which `FinalMeansDestroyed` is violated, lets everybody go on.

`Console!FairSpec` assumes that the page's timer fires while the page is mounted
(strong fairness, as the bound on requests may keep it from sending for a while), that
every request is answered or fails (the backend, or the browser's own timeout) and every
answer is processed, and that some of the polls that are sent again and again get
through.  `ViewConverges` and `DeadSessionIsNoticed` moreover suppose `Patient`: the
user does not reload the page for ever.

## Proofs

The theorems about the plugin hold for every number of players, bots, entities,
rounds and matches, under `MatchAssumption` only; those about the room for every
number of joiners, connections, hubs and matches, under `RoomAssumption`; those about
MatchControl, Agents and Console for every value of their constants, under
`MatchControlAssumption`, `AgentsAssumption` with `VersionsAreOrdered`, and
`ConsoleAssumption`.

- `MatchProofs` proves the inductive invariant `Inv`: the types together with
  `ScoreInv`, which ties the score, the round number, the sides and the pending
  tasks of a round end to each other.  `TypeOK` alone is not inductive: that the
  score stays within the threshold depends on the announcement being pending
  once it is reached, and that in turn on no round ending before the task ran.
  There is a lemma per action; `TypeCorrect`, `DecidedIsAnnounced` and
  `SidesAreAlternated` follow.
- `MatchSeatProofs` adds two invariants on top.  `WaitsAreTimed` says that
  whoever is waited for left an empty seat and that the timer of that very drop
  is pending: no wait is endless.  `SeatsAreKept` says that outside match mode a
  seat is only held by the person it was given to.  It needs that no two
  entities have the same user, that whoever is in the game is somebody, and that the two ids of
  a running match differ.  Its cases are grouped by what they do to the seats: keep them,
  give them out, empty them all.  In match mode the statement is false, see below.
- `MatchReportProofs` is about what the platform is told.  Its theorems need servers that
  are used in a certain way, for the code does not keep the properties otherwise (TLC
  finds a counterexample for each hypothesis dropped; see the divergences below):
  `NoPractice` (no `.start_bot` and no `.start_bot_test`, which a container refuses
  anyway), `NoBotTest`, `NoMapChange` and `NoReload` (no `.map`, and no `.hardreset`
  either).  What is not commanded is never scheduled (`Unscheduled`), and
  `ReportKinds` says what is left for a step to do to a match and its reports.
  `CvarsAreRestored` needs that what a warm-up saved are the settings of the server
  (`CvarInv`); `StartedIsClosed` that reported matches are closed already in the
  warm-up of the next (`ClosedInv`).  `ModePlayedOnce` follows the life of a
  container (`ModeInv`): slots taken, match scheduled, warmed up, played, over or
  stopped for good, with nothing reported before it begins; `RoundsAreInTheMatch`
  adds that nobody has a seat when no match is active, so that the late task of an ended
  match reports nothing.  `ReportsFollowTheScore` needs to know which round ended last
  (`Ended`, although the number moves on before the report is made), that its report is
  still due, and that ids are new; then the reports of a slot, with the one due, never
  exceed its score.
- `MatchLifecycleProofs` proves the refinement of `MatchLifecycle` without bot practice.
  Entering the warm-up is `WarmUp`, its last tick `KickOff`, the end of a round `Play`
  of the slot on the winning side; what announces, cancels or cuts off a match is
  `Finish`, everything else a stutter.  The swap of the sides is one because a round
  is followed by a swap or by the announcement, never by both (`OneOutcome`), and the
  code's test `>=` decides as the abstract `=` does because of `Inv`.
  It also proves that a container whose map is not changed implements `MatchGame`
  (`ImplementsGame`).  An id is only in use once its match was reported to start
  (`ModeId`), so an end without a start is reported under no id; the start comes once
  because of `ModeInv`, and a round only in the match because of `RoundInTheMatch`.
- `RoomHubProofs` proves all the properties of the run `RoomHub`, as theorems.
  Lemmas say what a step may do to the row (`RowKinds`), the creations (`CreationKinds`), the
  holders of slots (`HolderKinds`) and the announcement (`MatchKinds`); only those
  cases are argued.  Each invariant is inductive together with the types; that
  everybody is told needs in addition that a match being announced is one the
  backend made (`AnswersAreMatches`), and who empties a slot that slots are live.
- `MatchControlProofs` proves all the safety properties of the runs `MatchControl` and
  `MatchPorts`.  That ports are exclusive needs more than the rows say: a match that
  is being created already has its port, so the invariant speaks of those too.  That
  an ended game is torn down needs the order of a creation's steps: no container is
  started for a match whose game is over.  That rows follow the game needs that the
  reports still in the queue tell the truth.
- `AgentsProofs` proves all the properties of the run `Agents`.  The limit and the ports of a
  row come from one save that passed `Valid`, so that every save under way carries
  ports that suffice for its limit; what the page marks covers what the backend
  refuses because the candidates are among the agents the page lists.
- `ConsoleProofs` proves the safety properties of the run `Console`.  `TypeCorrect` adds
  `Owned`: a live request belongs to the page that is mounted.  The spinners need
  that every flag of the page has its live request, and the other way round that a
  creation or a query under way is flagged (`Flagged`), without which an answer could
  clear the flag of another request; the view needs that a list that
  was answered is itself a past of the matches (`Past`).

Liveness (`LiveMatchEnds`, `MatchesAreClosed`, `ViewConverges`,
`DeadSessionIsNoticed`) is model-checked only, for the prover does not reason about fairness.
All the safety properties of the passing runs are theorems.

## Divergences met while modelling

Shown by a run each: the stale reconnect timer, the confirmation that reaches the
next joiner, and the container that outlives its match.  The models also
contain the following, which no run is spent on:

- the warm-up's end clears `g_bPendingReconnect` (mr1v1_match.sma:873): a player who
  left in the warm-up has an empty seat nobody may return to and no timer cancels,
  against the header comment (:19);
- the announcement of a result is not removed by `.stop` and ends whatever match is active by
  then (:982), against the comment at :1502;
- when both slots are empty the hub is forgotten although it has its match (hub.go:216), and
  whoever reconnects is not told of it, against the comment at hub.go:117;
- a report that a container runs, or that Docker failed, overwrites a final state (backend.go:264),
  against the comment at :251; a match that is brought back is closed by the sweep;
- the consumer marks an aborted match `finished` (consumer.go:237) whatever its
  `end_reason`, and also one that was terminated or timed out;
- a match that ends in `error` by a failed container is not announced to the room server
  (backend.go:246), against the comment at :669; the properties except it;
- two creations that overlap may get one port (backend.go:401), and so may a match
  that a late report brings back;
- an emptied limit counts as 0 when the page checks the ports (AgentsPage.tsx:259) and is then sent as
  null, which the backend takes for "unchanged" (backend.go:813);
- a list of ports is accepted by the page (AgentsPage.tsx:278) and passed over by the scheduler, which
  reads "start-end" only (backend.go:473); if that agent has the latest version, nobody
  is given a match;
- the version marks are said to compare agents that are online (AgentsPage.tsx:301), but all
  that are listed count;
- the 401 of an old poll throws out a user who has logged in meanwhile (api.ts:14); the
  answer of a creation or a save closes whatever dialog is open by then
  (MatchesPage.tsx:249, AgentsPage.tsx:293);
- in match mode a slot is taken once (mr1v1_match.sma:1298).  An owner who leaves before the
  start and returns on another entity is not found again, the match does not
  start although both are there (against the comment at :1277), or starts with
  whoever holds the old entity in the seat (against :736);
- a second `.start_bot` within 1.5 seconds saves the warm-up settings as the old ones:
  `mp_round_infinite` stays on after the warm-up and no round ends (:708, :389);
  it also saves the bot settings it had changed itself (:374);
- a bot that drops out is waited for, although the comment at :1249 says the
  match is cancelled: the seat's id is never the string it is compared with;
- a match played out with equal scores is reported as won by slot 0 (:1093),
  MR1V1_EVENTS.md:114 says it is a draw with winner -1;
- a stop between the deciding round and its announcement reports the end
  twice (MR1V1_EVENTS.md:87); a stop in the warm-up reports the end of the
  previous id or of none (:112);
- a map change scheduled before `.start` is executed in the warm-up (:637), or, if that
  is set to a second, in the match, which is then never reported to end;
- the map of a match container may be changed between matches (:613 does not ask for the mode).
  That loads the plugin again, and the match is played and reported a second time
  under its id;
- on the standing server a stop, and a `.start` within the 0.3 seconds the report of a
  round takes, let that round be reported under the id of the match that has ended (the test
  at the head of Task_RoundDamage only asks for two seated players);
- two `.start_bot_test` within 1.5 seconds begin two matches: the first is never
  closed, and its last round may be reported as won in the second (:1039 asks for two
  seated players only); so may two `.start_bot` if the warm-up is set to a second;
- `.hardreset` in a match container ends it for good: only the standing server has a
  restart policy (:423, dockerctl.go:101);
- a joiner who is kicked or leaves while the match is created is matched all the same, and
  the room has a match without a joiner (hub.go:257; the comment at :254 says that a
  kick is refused once the match is being created);
- both players stay confirmed after a match was made, so one more confirm creates
  a second match (hub.go:240);
- leaving by REST puts a matched or completed room back to waiting (store.go:394);
- a connection that got its hub just before it was removed stays in one that nobody else
  finds; the sweeper may then delete a room with somebody in it, and also when
  somebody connects between its test and its deletion (main.go:82, manager.go:41);
- a match that ends before its room was marked as matched leaves the room matched.

## Plan

1. *done*: the match plugin, its abstract life cycle, first proofs.
2. *done*: the room hub with its store, handlers and sweeper
   (`RoomHub`), with its theorems.  Left: score and its replay, the lists, two rooms
   of one creator.
3. *done*: the life of a match over backend, agent, gateway and consumer
   (`MatchControl`), the agents and their settings (`Agents`), the console
   (`Console`), each with its theorems.  Left: several agents and their load, the
   failure of an UPDATE, round ends and the order of the notifications.
4. The image configuration: its activation is two statements
   (backend.go:904), and two of them may leave two active images or none; the map
   pool; the pages of both.
5. Telemetry batches (`Telemetry`), composed with `Match` over the forwards.
6. A2S reassembly, against a reference definition over bounded inputs.
7. *done*: the refinement of `MatchLifecycle`, `ReportsAgreeWithScore`,
   `StartedMatchIsClosed`, `ModePlaysOnce`, `NoRoundAfterEnd`, `WarmupCvarsRestored`.

## Not modelled

HTTP and MQTT encodings, avatars and names, deployment scripts and images: they hold
no state that two parties race for.  The pages of rooms, users, old players, maps
and images, beyond a fetch when they are opened: single writes of single rows.  The
telemetry plugin and the tables its events fill, which decide nothing elsewhere, and the
A2S client, whose answers are only shown.  What tables, tabs and colours look like.
Where these set the scene for a model (server.cfg, the container's settings, the
broker's delivery) the model's initial states and environment actions say so.
