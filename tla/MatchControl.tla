---------------------------- MODULE MatchControl ----------------------------
(***************************************************************************)
(* How a match is created, watched and closed: the manager backend         *)
(* (handleCreateMatch, dispatchDestroy, onStatus, the sweep of matches     *)
(* that take too long), the agent of a host (agent.go) with Docker         *)
(* (dockerctl.go) and the telemetry gateway (gateway.go), and the consumer *)
(* (consumer.go).                                                          *)
(*                                                                         *)
(* They share no lock.  A match is commanded to the agent before its row   *)
(* is inserted and before its row is closed; the agent runs every command  *)
(* in a goroutine of its own; what the agent and the game report comes     *)
(* over two topics; and any of it may arrive when the row has moved on.    *)
(*                                                                         *)
(* There is one agent.  Which agent is picked is in module Agents, what    *)
(* the page asks for in Console, what the game does in Match.              *)
(***************************************************************************)
EXTENDS Naturals, Sequences, FiniteSets

CONSTANTS
  Matches,   (* match_ids                                                  *)
  NoMatch,   (* the sweep is at no match                                   *)
  Ports,     (* the port range of the agent                                *)
  NoPort,    (* no port is picked                                          *)
  RunMax,    (* rehlds_run_max of the agent                                *)
  QueueCap,  (* capacity of the gateway's queue                            *)
  Played,    (* bound: matches whose players come                          *)
  Stopped,   (* bound: matches an administrator asks to end                *)
  MaxFaults  (* bound: what breaks, counted over a behaviour               *)

ASSUME MatchControlAssumption ==
  /\ NoMatch \notin Matches /\ NoPort \notin Ports
  /\ Played \subseteq Matches /\ Stopped \subseteq Matches
  /\ RunMax \in Nat /\ QueueCap \in Nat /\ MaxFaults \in Nat

\* manager_matches.state; "none" is a match that has no row.
Active == {"creating", "waiting", "playing"}
Final  == {"finished", "terminated", "timeout", "error"}

VARIABLES
  row,       \* state of each match
  stale,     \* matches whose updated_at is past the timeout of their state
  port,      \* the port picked for each match
  create,    \* where handleCreateMatch is for each match
  stop,      \* where dispatchDestroy is for each match
  todo,      \* matches the sweep has read and not come to yet
  current,   \* the match the sweep has published the end of, or NoMatch
  tasks,     \* commands on their way to the agent, and its goroutines
  statuses,  \* status reports on their way to the backend
  container, \* the container of each match
  game,      \* what the game in it has come to
  telemetry, \* reports of the games on their way to the consumer
  told,      \* matches whose end the room server was told of
  faults,    \* what broke so far, up to MaxFaults
  loose,     \* matches created while another one was, or brought back
  cut        \* matches whose teardown Docker or a restart has cut short

backend == <<row, stale, port, create, stop, todo, current, told, loose>>
agent   == <<tasks, container, game, cut>>
vars    == <<row, stale, port, create, stop, todo, current, tasks, statuses,
             container, game, telemetry, told, faults, loose, cut>>

\* Where a command is: on its way, or at a step of its goroutine.
Stages == {"create", "start", "up", "destroy", "remove", "down", "failed"}

Task(m, at) == [match |-> m, at |-> at]

\* One more thing breaks.
Fault == faults < MaxFaults /\ faults' = faults + 1

\* UPDATE manager_matches SET state=s, updated_at=NOW() WHERE match_id=m
Update(m, s) ==
  /\ row' = [row EXCEPT ![m] = IF @ = "none" THEN @ ELSE s]
  /\ stale' = stale \ {m}

-----------------------------------------------------------------------------
(* handleCreateMatch                                                         *)

\* Creations that have picked a port and recorded no row yet.
Unrecorded == {m \in Matches : create[m] \in {"picked", "published"}}

\* Seeded: a match that is being created does not count.
BusyOnceUp == {port[m] : m \in {n \in Matches : row[n] \in Active \ {"creating"}}}

\* The ports of the agent's active matches, as pickAgentPort reads them.
Busy == {port[m] : m \in {n \in Matches : row[n] \in Active}}

Pick(m) ==
  /\ create[m] = "new"
  /\ Cardinality(Busy) < RunMax
  /\ \E p \in Ports \ Busy : port' = [port EXCEPT ![m] = p]
  /\ create' = [create EXCEPT ![m] = "picked"]
  /\ loose' = IF Unrecorded = {} THEN loose ELSE loose \cup Unrecorded \cup {m}
  /\ UNCHANGED <<row, stale, stop, todo, current, told, agent, statuses, telemetry, faults>>

\* The create command is published; the request fails when it cannot be.
PublishCreate(m) ==
  /\ create[m] = "picked"
  /\ \/ /\ create' = [create EXCEPT ![m] = "published"]
        /\ tasks' = tasks \cup {Task(m, "create")}
        /\ UNCHANGED faults
     \/ /\ Fault
        /\ create' = [create EXCEPT ![m] = "over"]
        /\ UNCHANGED tasks
  /\ UNCHANGED <<row, stale, port, stop, todo, current, told, loose,
                 container, game, cut, statuses, telemetry>>

\* The row is inserted.  When that fails the match goes on without one.
Insert(m) ==
  /\ create[m] = "published"
  /\ create' = [create EXCEPT ![m] = "over"]
  /\ \/ row' = [row EXCEPT ![m] = "creating"] /\ UNCHANGED faults
     \/ Fault /\ UNCHANGED row
  /\ UNCHANGED <<stale, port, stop, todo, current, told, loose, agent, statuses, telemetry>>

-----------------------------------------------------------------------------
(* dispatchDestroy, once for each match                                      *)

StopRead(m) ==
  /\ m \in Stopped /\ stop[m] = "idle" /\ row[m] # "none"
  /\ stop' = [stop EXCEPT ![m] = "read"]
  /\ UNCHANGED <<row, stale, port, create, todo, current, told, loose, agent, statuses,
                 telemetry, faults>>

\* A command that is there already is not counted twice.
StopPublish(m) ==
  /\ stop[m] = "read"
  /\ \/ /\ stop' = [stop EXCEPT ![m] = "published"]
        /\ tasks' = tasks \cup {Task(m, "destroy")}
        /\ UNCHANGED faults
     \/ /\ Fault
        /\ stop' = [stop EXCEPT ![m] = "over"]
        /\ UNCHANGED tasks
  /\ UNCHANGED <<row, stale, port, create, todo, current, told, loose,
                 container, game, cut, statuses, telemetry>>

\* Whatever the state of the match has become, it is terminated.
StopClose(m) ==
  /\ stop[m] = "published"
  /\ stop' = [stop EXCEPT ![m] = "over"]
  /\ Update(m, "terminated")
  /\ told' = told \cup {m}
  /\ UNCHANGED <<port, create, todo, current, loose, agent, statuses, telemetry, faults>>

-----------------------------------------------------------------------------
(* sweepTimeoutMatches                                                       *)

\* Time passes: the timeout of the state is over.
Age(m) ==
  /\ row[m] \in Active /\ m \notin stale
  /\ stale' = stale \cup {m}
  /\ UNCHANGED <<row, port, create, stop, todo, current, told, loose, agent, statuses,
                 telemetry, faults>>

\* Seeded: the sweep forgets the matches whose container never came up.
SweptOnceUp == {m \in stale : row[m] \in Active \ {"creating"}}

Swept == {m \in stale : row[m] \in Active}

SweepRead ==
  /\ todo = {} /\ current = NoMatch /\ Swept # {}
  /\ todo' = Swept
  /\ UNCHANGED <<row, stale, port, create, stop, current, told, loose, agent, statuses,
                 telemetry, faults>>

\* The sweep goes on when the command cannot be published.
SweepPublish(m) ==
  /\ m \in todo /\ current = NoMatch
  /\ todo' = todo \ {m} /\ current' = m
  /\ \/ tasks' = tasks \cup {Task(m, "destroy")} /\ UNCHANGED faults
     \/ Fault /\ UNCHANGED tasks
  /\ UNCHANGED <<row, stale, port, create, stop, told, loose, container, game, cut,
                 statuses, telemetry>>

\* Seeded: the room server is not told.
SweepCloseQuietly ==
  /\ current # NoMatch
  /\ Update(current, "timeout")
  /\ current' = NoMatch
  /\ UNCHANGED <<port, create, stop, todo, told, loose, agent, statuses, telemetry, faults>>

\* Whatever the state of the match has become, it is timed out.
SweepClose ==
  /\ current # NoMatch
  /\ Update(current, "timeout")
  /\ told' = told \cup {current}
  /\ current' = NoMatch
  /\ UNCHANGED <<port, create, stop, todo, loose, agent, statuses, telemetry, faults>>

-----------------------------------------------------------------------------
(* The agent: createMatch and teardownMatch, a goroutine for each command    *)

\* The goroutine of a task goes on.
Becomes(t, at) == tasks' = (tasks \ {t}) \cup {Task(t.match, at)}

\* The first half of CreateAndStart.
CreateContainer(t) ==
  /\ t \in tasks /\ t.at = "create"
  /\ \/ /\ container' = [container EXCEPT ![t.match] = "created"]
        /\ Becomes(t, "start")
        /\ UNCHANGED faults
     \/ Fault /\ Becomes(t, "failed") /\ UNCHANGED container
  /\ UNCHANGED <<backend, game, cut, statuses, telemetry>>

\* The second half.  It fails when the container has been removed; when it
\* fails otherwise the container stays.
StartContainer(t) ==
  /\ t \in tasks /\ t.at = "start"
  /\ \/ /\ container[t.match] = "created"
        /\ container' = [container EXCEPT ![t.match] = "running"]
        /\ Becomes(t, "up")
        /\ UNCHANGED faults
     \/ /\ IF container[t.match] = "none" THEN UNCHANGED faults ELSE Fault
        /\ Becomes(t, "failed")
        /\ UNCHANGED container
  /\ UNCHANGED <<backend, game, cut, statuses, telemetry>>

\* StopAndRemoveByMatchID finds the container, or has nothing to do.
FindContainer(t) ==
  /\ t \in tasks /\ t.at = "destroy"
  /\ Becomes(t, IF container[t.match] = "none" THEN "down" ELSE "remove")
  /\ UNCHANGED <<backend, container, game, cut, statuses, telemetry, faults>>

\* It stops and removes it.  That fails when another teardown has done so.
RemoveContainer(t) ==
  /\ t \in tasks /\ t.at = "remove"
  /\ \/ /\ container[t.match] # "none"
        /\ container' = [container EXCEPT ![t.match] = "none"]
        /\ Becomes(t, "down")
        /\ UNCHANGED <<faults, cut>>
     \/ /\ container[t.match] = "none"
        /\ Becomes(t, "failed")
        /\ UNCHANGED <<container, faults, cut>>
     \/ /\ Fault
        /\ Becomes(t, "failed")
        /\ cut' = cut \cup {t.match}
        /\ UNCHANGED container
  /\ UNCHANGED <<backend, game, statuses, telemetry>>

\* The last step of either: publishStatus.  The report may be lost.
PublishStatus(t) ==
  /\ t \in tasks /\ t.at \in {"up", "down", "failed"}
  /\ tasks' = tasks \ {t}
  /\ \/ statuses' = Append(statuses, t) /\ UNCHANGED faults
     \/ Fault /\ UNCHANGED statuses
  /\ UNCHANGED <<backend, container, game, cut, telemetry>>

\* The agent forgets its goroutines and its queue; the containers stay.  The
\* commands the broker holds for it come afterwards.
AgentRestart ==
  /\ Fault
  /\ tasks' \in SUBSET {t \in tasks : t.at \in {"create", "destroy"}}
  /\ cut' = Matches
  /\ telemetry' = <<>>
  /\ UNCHANGED <<backend, container, game, statuses>>

-----------------------------------------------------------------------------
(* The game in a container reports to the gateway (handleRecord)             *)

Report(m, what) == [match |-> m, is |-> what]

\* Seeded: the queue grows.
QueueAlways(r) == telemetry' = Append(telemetry, r)

\* A report is queued, or dropped when the queue is full.
Queue(r) == telemetry' = IF Len(telemetry) < QueueCap THEN Append(telemetry, r) ELSE telemetry

GameStarts(m) ==
  /\ m \in Played /\ container[m] = "running" /\ game[m] = "idle"
  /\ game' = [game EXCEPT ![m] = "playing"]
  /\ Queue(Report(m, "start"))
  /\ UNCHANGED <<backend, tasks, container, cut, statuses, faults>>

\* Seeded: the hook is called for the reports that are queued.
GameEndsQueueFirst(m) ==
  /\ container[m] = "running" /\ game[m] # "idle"
  /\ game' = [game EXCEPT ![m] = "over"]
  /\ tasks' = IF Len(telemetry) < QueueCap THEN tasks \cup {Task(m, "destroy")} ELSE tasks
  /\ Queue(Report(m, "end"))
  /\ UNCHANGED <<backend, container, cut, statuses, faults>>

\* onEnvelope tears the match down before the report is queued.  A match that is
\* stopped after its last round is reported to end again when it is announced.
GameEnds(m) ==
  /\ container[m] = "running" /\ game[m] # "idle"
  /\ game' = [game EXCEPT ![m] = "over"]
  /\ tasks' = tasks \cup {Task(m, "destroy")}
  /\ Queue(Report(m, "end"))
  /\ UNCHANGED <<backend, container, cut, statuses, faults>>

-----------------------------------------------------------------------------
(* What arrives: onStatus of the backend, handle of the consumer             *)

\* Seeded: a container that runs is a match that is played.
StateOfPlaying(at) == CASE at = "up" -> "playing" [] at \in {"failed", "down"} -> "error"

\* The state a status report stands for.
StateOf(at) == CASE at = "up" -> "waiting" [] at \in {"failed", "down"} -> "error"

\* "running" and "error" overwrite any state; "stopped" only one that is not
\* final, and only it tells the room server.
OnStatus ==
  /\ statuses # <<>>
  /\ statuses' = Tail(statuses)
  /\ LET m == Head(statuses).match  at == Head(statuses).at
     IN  IF at = "down" /\ row[m] \notin Active THEN UNCHANGED <<row, stale, told, loose>>
         ELSE /\ Update(m, StateOf(at))
              /\ told' = IF at = "down" THEN told \cup {m} ELSE told
              /\ loose' = IF at = "up" /\ row[m] \in Final THEN loose \cup {m} ELSE loose
  /\ UNCHANGED <<port, create, stop, todo, current, agent, telemetry, faults>>

\* mr1v1_match_start
HandleStart ==
  /\ telemetry # <<>> /\ Head(telemetry).is = "start"
  /\ telemetry' = Tail(telemetry)
  /\ LET m == Head(telemetry).match
     IN  IF row[m] \in {"creating", "waiting"} THEN Update(m, "playing")
         ELSE UNCHANGED <<row, stale>>
  /\ UNCHANGED <<port, create, stop, todo, current, told, loose, agent, statuses, faults>>

\* mr1v1_match_end
HandleEnd ==
  /\ telemetry # <<>> /\ Head(telemetry).is = "end"
  /\ telemetry' = Tail(telemetry)
  /\ LET m == Head(telemetry).match
     IN  IF row[m] \in {"none", "finished"} THEN UNCHANGED <<row, stale, told>>
         ELSE Update(m, "finished") /\ told' = told \cup {m}
  /\ UNCHANGED <<port, create, stop, todo, current, loose, agent, statuses, faults>>

\* The requests under way and the sweep are gone, and so are the status
\* reports that come while the backend is away: it has a clean session.
BackendRestart ==
  /\ Fault
  /\ create' = [m \in Matches |-> IF m \in Unrecorded THEN "over" ELSE create[m]]
  /\ stop' = [m \in Matches |-> IF stop[m] = "idle" THEN "idle" ELSE "over"]
  /\ todo' = {} /\ current' = NoMatch /\ statuses' = <<>>
  /\ UNCHANGED <<row, stale, port, told, loose, agent, telemetry>>

-----------------------------------------------------------------------------

Init ==
  /\ row = [m \in Matches |-> "none"] /\ stale = {}
  /\ port = [m \in Matches |-> NoPort]
  /\ create = [m \in Matches |-> "new"] /\ stop = [m \in Matches |-> "idle"]
  /\ todo = {} /\ current = NoMatch
  /\ tasks = {} /\ statuses = <<>>
  /\ container = [m \in Matches |-> "none"] /\ game = [m \in Matches |-> "idle"]
  /\ telemetry = <<>> /\ told = {} /\ faults = 0 /\ loose = {} /\ cut = {}

Sweep == SweepRead \/ SweepClose \/ \E m \in Matches : SweepPublish(m)

Next ==
  \/ \E m \in Matches : \/ Pick(m) \/ PublishCreate(m) \/ Insert(m)
                        \/ StopRead(m) \/ StopPublish(m) \/ StopClose(m)
                        \/ Age(m) \/ GameStarts(m) \/ GameEnds(m)
  \/ Sweep
  \/ \E t \in tasks : \/ CreateContainer(t) \/ StartContainer(t) \/ FindContainer(t)
                      \/ RemoveContainer(t) \/ PublishStatus(t)
  \/ AgentRestart \/ BackendRestart
  \/ OnStatus \/ HandleStart \/ HandleEnd

Spec == Init /\ [][Next]_vars

\* Time passes and the sweep runs every minute.  Everything else may stop.
Fairness == WF_vars(Sweep) /\ \A m \in Matches : WF_vars(Age(m))

FairSpec == Spec /\ Fairness

\* Everybody goes on: the agent, the backend, and the administrator who asks.
LiveSpec ==
  /\ FairSpec /\ WF_vars(OnStatus)
  /\ \A m \in Matches : WF_vars(PublishCreate(m) \/ Insert(m) \/ StopPublish(m) \/ StopClose(m))
  /\ \A t \in [match : Matches, at : Stages] :
       WF_vars(CreateContainer(t) \/ StartContainer(t) \/ FindContainer(t)
               \/ RemoveContainer(t) \/ PublishStatus(t))

-----------------------------------------------------------------------------
(* Properties                                                               *)

TypeOK ==
  /\ row \in [Matches -> {"none"} \cup Active \cup Final]
  /\ stale \subseteq {m \in Matches : row[m] \in Active}
  /\ port \in [Matches -> Ports \cup {NoPort}]
  /\ create \in [Matches -> {"new", "picked", "published", "over"}]
  /\ stop \in [Matches -> {"idle", "read", "published", "over"}]
  /\ todo \subseteq Matches /\ current \in Matches \cup {NoMatch}
  /\ tasks \subseteq [match : Matches, at : Stages]
  /\ statuses \in Seq([match : Matches, at : {"up", "down", "failed"}])
  /\ container \in [Matches -> {"none", "created", "running"}]
  /\ game \in [Matches -> {"idle", "playing", "over"}]
  /\ telemetry \in Seq([match : Matches, is : {"start", "end"}])
  /\ Len(telemetry) <= QueueCap
  /\ told \subseteq Matches /\ faults \in 0..MaxFaults
  /\ loose \subseteq Matches /\ cut \subseteq Matches

(* Two matches that are active have a port each, unless one was created     *)
(* while another one was being created, or was brought back by a late       *)
(* report that its container runs (pickAgentPort reads the rows, and the    *)
(* row of a match is inserted after it is commanded).                       *)
PortsAreExclusive ==
  \A m, n \in Matches :
    /\ m # n /\ {row[m], row[n]} \subseteq Active
    /\ m \notin loose /\ n \notin loose
    => port[m] # port[n]

(* A match that has ended has its container torn down, even when the queue  *)
(* is full and its report is dropped: there is no container, or a teardown  *)
(* is on its way to it, or Docker or a restart of the agent has cut one     *)
(* short (onEnvelope, handleRecord, teardownMatch).                         *)
EndedMatchIsTornDown ==
  \A m \in Matches :
    game[m] = "over" =>
      \/ container[m] = "none" \/ m \in cut
      \/ \E t \in tasks : t.match = m /\ t.at \in {"destroy", "remove"}

(* No row says more than the game did, in whatever order the reports of the *)
(* agent and of the game come: a match is played when its game has started, *)
(* and finished when it is over (onStatus, handle).                         *)
RowsFollowTheGame ==
  \A m \in Matches : /\ row[m] = "playing" => game[m] # "idle"
                     /\ row[m] = "finished" => game[m] = "over"

(* The room server was told of the end of every match that is finished,     *)
(* terminated or timed out (notifyWxMatchEnded, of both programs).          *)
EndsAreTold ==
  \A m \in Matches : row[m] \in {"finished", "terminated", "timeout"} => m \in told

(* Every match that is recorded is closed for good in the end: one that a   *)
(* late report brings back is swept again, however the agent, the game and  *)
(* the administrators go on (sweepTimeoutMatches).                          *)
MatchesAreClosed ==
  \A m \in Matches : row[m] # "none" ~> [](row[m] \in Final)

(* What is said of the final states at backend.go:728: their containers     *)
(* have been destroyed.  Even when nothing breaks and everybody goes on, a  *)
(* match may stay final with its container running.                         *)
FinalMeansDestroyed ==
  \A m \in Matches : (row[m] \in Final /\ container[m] # "none") ~> container[m] = "none"

=============================================================================
