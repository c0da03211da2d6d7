------------------------ MODULE MatchControlProofs ------------------------
(***************************************************************************)
(* Theorems about the creation, the watch and the end of matches.          *)
(***************************************************************************)
EXTENDS MatchControl, SequenceTheorems, TLAPS

-----------------------------------------------------------------------------
(* Types                                                                    *)

\* What arrives is taken from the front of a queue.
LEMMA HeadAndTail ==
  ASSUME NEW S, NEW q \in Seq(S), q # <<>>
  PROVE  /\ Head(q) \in S /\ Tail(q) \in Seq(S) /\ Len(Tail(q)) = Len(q) - 1
         /\ Len(q) \in Nat
         /\ \A i \in 1..Len(Tail(q)) : i + 1 \in 1..Len(q) /\ Tail(q)[i] = q[i + 1]
OBVIOUS

LEMMA Appended ==
  ASSUME NEW S, NEW q \in Seq(S), NEW e \in S
  PROVE  /\ Append(q, e) \in Seq(S) /\ Len(Append(q, e)) = Len(q) + 1
         /\ Len(q) \in Nat
         /\ \A i \in 1..Len(Append(q, e)) :
              Append(q, e)[i] = IF i \in 1..Len(q) THEN q[i] ELSE e
OBVIOUS

\* The elements of tasks, statuses and telemetry.
Tasks   == [match : Matches, at : Stages]
Reports == [match : Matches, is : {"start", "end"}]
Ended   == [match : Matches, at : {"up", "down", "failed"}]

LEMMA TaskType ==
  ASSUME NEW m \in Matches, NEW at \in Stages
  PROVE  Task(m, at) \in Tasks /\ Task(m, at).match = m /\ Task(m, at).at = at
BY DEF Task, Tasks

LEMMA StageNames == {"create", "start", "up", "destroy", "remove", "down", "failed"} = Stages
BY DEF Stages

LEMMA FaultType == TypeOK /\ Fault => faults' \in 0..MaxFaults
BY MatchControlAssumption DEF TypeOK, Fault

LEMMA TypeInit == Init => TypeOK
BY MatchControlAssumption DEF Init, TypeOK

\* The steps of the requests and of the sweep.
LEMMA TypeBackend ==
  ASSUME TypeOK, NEW m \in Matches,
         \/ Pick(m) \/ PublishCreate(m) \/ Insert(m)
         \/ StopRead(m) \/ StopPublish(m) \/ StopClose(m) \/ Age(m) \/ Sweep
  PROVE  TypeOK'
<1> USE MatchControlAssumption DEF TypeOK, Active, Final
<1>1. CASE Pick(m)
  BY <1>1 DEF Pick, Unrecorded, agent
<1>2. CASE PublishCreate(m)
  <2>1. create' \in [Matches -> {"new", "picked", "published", "over"}]
    BY <1>2 DEF PublishCreate
  <2>2. tasks' \subseteq Tasks
    BY <1>2, TaskType, StageNames DEF PublishCreate, Tasks
  <2>3. faults' \in 0..MaxFaults
    BY <1>2, FaultType DEF PublishCreate
  <2>. QED
    BY <1>2, <2>1, <2>2, <2>3 DEF PublishCreate, Tasks
<1>3. CASE Insert(m)
  <2>1. faults' \in 0..MaxFaults
    BY <1>3, FaultType DEF Insert
  <2>2. /\ row' \in [Matches -> {"none"} \cup Active \cup Final]
        /\ create' \in [Matches -> {"new", "picked", "published", "over"}]
        /\ stale' \subseteq {n \in Matches : row'[n] \in Active}
    BY <1>3 DEF Insert
  <2>. QED
    BY <1>3, <2>1, <2>2 DEF Insert, agent
<1>4. CASE StopRead(m)
  BY <1>4 DEF StopRead, agent
<1>5. CASE StopPublish(m)
  <2>1. stop' \in [Matches -> {"idle", "read", "published", "over"}]
    BY <1>5 DEF StopPublish
  <2>2. tasks' \subseteq Tasks
    BY <1>5, TaskType, StageNames DEF StopPublish, Tasks
  <2>3. faults' \in 0..MaxFaults
    BY <1>5, FaultType DEF StopPublish
  <2>. QED
    BY <1>5, <2>1, <2>2, <2>3 DEF StopPublish, Tasks
<1>6. CASE StopClose(m)
  BY <1>6 DEF StopClose, Update, agent
<1>7. CASE Age(m)
  BY <1>7 DEF Age, agent
<1>8. CASE SweepRead
  BY <1>8 DEF SweepRead, Swept, agent
<1>9. CASE SweepClose
  BY <1>9 DEF SweepClose, Update, agent
<1>10. ASSUME NEW n \in Matches, SweepPublish(n) PROVE TypeOK'
  <2>1. tasks' \subseteq Tasks
    BY <1>10, TaskType, StageNames DEF SweepPublish, Tasks
  <2>2. faults' \in 0..MaxFaults
    BY <1>10, FaultType DEF SweepPublish
  <2>. QED
    BY <1>10, <2>1, <2>2 DEF SweepPublish, Tasks
<1>. QED
  BY <1>1, <1>2, <1>3, <1>4, <1>5, <1>6, <1>7, <1>8, <1>9, <1>10 DEF Sweep

LEMMA TypeGame ==
  ASSUME TypeOK, NEW m \in Matches, GameStarts(m) \/ GameEnds(m)
  PROVE  TypeOK'
<1>1. \A what \in {"start", "end"} :
        Queue(Report(m, what)) => telemetry' \in Seq(Reports) /\ Len(telemetry') <= QueueCap
  <2>1. SUFFICES ASSUME NEW what \in {"start", "end"}, Queue(Report(m, what))
                 PROVE  telemetry' \in Seq(Reports) /\ Len(telemetry') <= QueueCap
    OBVIOUS
  <2>2. Report(m, what) \in Reports /\ telemetry \in Seq(Reports) /\ Len(telemetry) <= QueueCap
    BY DEF Report, Reports, TypeOK
  <2>. QED
    BY <2>1, <2>2, Appended, MatchControlAssumption DEF Queue
<1>2. telemetry' \in Seq(Reports) /\ Len(telemetry') <= QueueCap
  BY <1>1 DEF GameStarts, GameEnds
<1>3. tasks' \subseteq Tasks
  BY TaskType, StageNames DEF GameStarts, GameEnds, TypeOK, Tasks
<1>4. game' \in [Matches -> {"idle", "playing", "over"}]
  BY DEF GameStarts, GameEnds, TypeOK
<1>5. UNCHANGED <<backend, container, cut, statuses, faults>>
  BY DEF GameStarts, GameEnds
<1>. QED
  BY <1>2, <1>3, <1>4, <1>5 DEF TypeOK, Reports, Tasks, backend

\* The steps of the agent and of the game.
LEMMA TypeAgent ==
  ASSUME TypeOK, NEW t \in tasks, NEW m \in Matches,
         \/ CreateContainer(t) \/ StartContainer(t) \/ FindContainer(t)
         \/ RemoveContainer(t) \/ PublishStatus(t) \/ GameStarts(m) \/ GameEnds(m)
  PROVE  TypeOK'
<1> USE MatchControlAssumption DEF TypeOK, Becomes, Task, Stages, backend
<1>0. t.match \in Matches /\ t.at \in Stages
  OBVIOUS
<1>1. CASE CreateContainer(t)
  BY <1>0, <1>1 DEF CreateContainer, Fault
<1>2. CASE StartContainer(t)
  BY <1>0, <1>2 DEF StartContainer, Fault
<1>3. CASE FindContainer(t)
  BY <1>0, <1>3 DEF FindContainer
<1>4. CASE RemoveContainer(t)
  BY <1>0, <1>4 DEF RemoveContainer, Fault
<1>5. CASE PublishStatus(t)
  <2>1. t \in Ended
    BY <1>5 DEF PublishStatus, Ended, Tasks
  <2>2. Append(statuses, t) \in Seq(Ended)
    BY <2>1, Appended DEF Ended
  <2>3. statuses' \in Seq(Ended) /\ tasks' \subseteq Tasks /\ faults' \in 0..MaxFaults
    BY <1>5, <2>2, FaultType DEF PublishStatus, Ended, Tasks
  <2>4. UNCHANGED <<backend, container, game, cut, telemetry>>
    BY <1>5 DEF PublishStatus
  <2>. QED
    BY <2>3, <2>4 DEF Ended, Tasks
<1>6. CASE GameStarts(m) \/ GameEnds(m)
  BY <1>6, TypeGame
<1>. QED
  BY <1>1, <1>2, <1>3, <1>4, <1>5, <1>6

\* What arrives, and the restarts.
LEMMA TypeArrives ==
  ASSUME TypeOK,
         OnStatus \/ HandleStart \/ HandleEnd \/ AgentRestart \/ BackendRestart
  PROVE  TypeOK'
<1> USE MatchControlAssumption DEF TypeOK, Active, Final
<1>1. CASE OnStatus
  <2>1. Head(statuses) \in Ended /\ Tail(statuses) \in Seq(Ended)
    BY <1>1, HeadAndTail DEF OnStatus, Ended
  <2>2. PICK m \in Matches, at \in {"up", "down", "failed"} :
          m = Head(statuses).match /\ at = Head(statuses).at
    BY <2>1 DEF Ended
  <2>3. StateOf(at) \in Active \cup Final
    BY <2>2 DEF StateOf
  <2>4. /\ row' \in [Matches -> {"none"} \cup Active \cup Final]
        /\ stale' \subseteq {n \in Matches : row'[n] \in Active}
        /\ told' \subseteq Matches /\ loose' \subseteq Matches
    <3>1. CASE at = "down" /\ row[m] \notin Active
      BY <1>1, <2>2, <3>1 DEF OnStatus
    <3>2. CASE ~(at = "down" /\ row[m] \notin Active)
      <4>1. Update(m, StateOf(at)) /\ told' \subseteq Matches /\ loose' \subseteq Matches
        BY <1>1, <2>2, <3>2 DEF OnStatus
      <4>. QED
        BY <2>3, <4>1 DEF Update
    <3>. QED
      BY <3>1, <3>2
  <2>5. statuses' \in Seq(Ended)
    BY <1>1, <2>1 DEF OnStatus
  <2>6. UNCHANGED <<port, create, stop, todo, current, agent, telemetry, faults>>
    BY <1>1 DEF OnStatus
  <2>. QED
    BY <2>4, <2>5, <2>6 DEF agent, Ended
<1>2. CASE HandleStart \/ HandleEnd
  <2>1. /\ Head(telemetry) \in Reports /\ telemetry' \in Seq(Reports)
        /\ Len(telemetry') <= QueueCap
    <3>1. telemetry \in Seq(Reports) /\ Len(telemetry) <= QueueCap /\ QueueCap \in Nat
      BY DEF Reports
    <3>2. telemetry # <<>> /\ telemetry' = Tail(telemetry)
      BY <1>2 DEF HandleStart, HandleEnd
    <3>. HIDE DEF TypeOK
    <3>. QED
      BY <3>1, <3>2, HeadAndTail
  <2>2. PICK m \in Matches : m = Head(telemetry).match
    BY <2>1 DEF Reports
  <2>3. /\ row' \in [Matches -> {"none"} \cup Active \cup Final]
        /\ stale' \subseteq {n \in Matches : row'[n] \in Active}
        /\ told' \subseteq Matches
    BY <1>2, <2>2 DEF HandleStart, HandleEnd, Update
  <2>4. UNCHANGED <<port, create, stop, todo, current, loose, agent, statuses, faults>>
    BY <1>2 DEF HandleStart, HandleEnd
  <2>. QED
    BY <2>1, <2>3, <2>4 DEF agent, Reports
<1>4. CASE AgentRestart
  <2>1. <<>> \in Seq(Reports) /\ Len(<<>>) = 0
    OBVIOUS
  <2>. QED
    BY <1>4, <2>1, FaultType DEF AgentRestart, backend, Reports
<1>5. CASE BackendRestart
  <2>1. <<>> \in Seq(Ended)
    OBVIOUS
  <2>. QED
    BY <1>5, <2>1, FaultType DEF BackendRestart, Unrecorded, agent, Ended
<1>. QED
  BY <1>1, <1>2, <1>4, <1>5

LEMMA TypeStep == TypeOK /\ [Next]_vars => TypeOK'
<1> SUFFICES ASSUME TypeOK, [Next]_vars PROVE TypeOK'
  OBVIOUS
<1>1. CASE UNCHANGED vars
  BY <1>1 DEF vars, TypeOK, Stages, Active
<1>2. ASSUME NEW t \in tasks,
             \/ CreateContainer(t) \/ StartContainer(t) \/ FindContainer(t)
             \/ RemoveContainer(t) \/ PublishStatus(t)
      PROVE  TypeOK'
  <2>1. t.match \in Matches
    BY DEF TypeOK
  <2>. QED
    BY <1>2, <2>1, TypeAgent
<1>3. CASE SweepRead \/ SweepClose
  <2>1. PICK m \in Matches : TRUE
    BY <1>3 DEF SweepRead, SweepClose, Swept, TypeOK
  <2>. QED
    BY <1>3, <2>1, TypeBackend DEF Sweep
<1>4. ASSUME NEW m \in Matches,
             \/ Pick(m) \/ PublishCreate(m) \/ Insert(m) \/ StopRead(m)
             \/ StopPublish(m) \/ StopClose(m) \/ Age(m) \/ SweepPublish(m)
      PROVE  TypeOK'
  BY <1>4, TypeBackend DEF Sweep
<1>. QED
  BY <1>1, <1>2, <1>3, <1>4, TypeGame, TypeArrives DEF Next, Sweep

(* Every variable of the creation, the watch and the end of matches has its *)
(* type: the queue never holds more than it may, and no row is waiting for  *)
(* the sweep that is not active.                                            *)
THEOREM TypeCorrect == Spec => []TypeOK
BY TypeInit, TypeStep, PTL DEF Spec

-----------------------------------------------------------------------------
(* The rows.                                                                *)

\* What a step may do to the rows, to the room server and to loose.
RowKind ==
  \/ UNCHANGED <<row, told, loose>>
  \/ UNCHANGED <<row, told>> /\ \E m \in Matches : Pick(m)
  \/ UNCHANGED <<told, loose>> /\ \E m \in Matches :
       create[m] = "published" /\ row' = [row EXCEPT ![m] = "creating"]
  \/ UNCHANGED loose /\ \E m \in Matches : \E s \in {"terminated", "timeout", "finished"} :
       /\ Update(m, s) /\ told' = told \cup {m}
       /\ s = "finished" => HandleEnd /\ m = Head(telemetry).match
  \/ UNCHANGED loose /\ told \subseteq told' /\ \E m \in Matches : Update(m, "error")
  \/ UNCHANGED told /\ \E m \in Matches :
       /\ Update(m, "waiting")
       /\ loose' = IF row[m] \in Final THEN loose \cup {m} ELSE loose
  \/ UNCHANGED <<told, loose>> /\ HandleStart /\ \E m \in Matches :
       /\ m = Head(telemetry).match
       /\ row[m] \in {"creating", "waiting"} /\ Update(m, "playing")

LEMMA RowKinds ==
  ASSUME TypeOK, [Next]_vars PROVE RowKind
<1>1. CASE UNCHANGED vars
  BY <1>1 DEF vars, RowKind
<1>2. ASSUME NEW t \in tasks,
             \/ CreateContainer(t) \/ StartContainer(t) \/ FindContainer(t)
             \/ RemoveContainer(t) \/ PublishStatus(t)
      PROVE  RowKind
  BY <1>2 DEF CreateContainer, StartContainer, FindContainer, RemoveContainer,
              PublishStatus, backend, RowKind
<1>3. ASSUME NEW m \in Matches,
             \/ PublishCreate(m) \/ StopRead(m) \/ StopPublish(m) \/ Age(m)
             \/ SweepPublish(m) \/ GameStarts(m) \/ GameEnds(m)
      PROVE  RowKind
  BY <1>3 DEF PublishCreate, StopRead, StopPublish, Age, SweepPublish, GameStarts,
              GameEnds, backend, RowKind
<1>4. CASE SweepRead \/ AgentRestart \/ BackendRestart
  BY <1>4 DEF SweepRead, AgentRestart, BackendRestart, backend, RowKind
<1>5. ASSUME NEW m \in Matches, Pick(m) PROVE RowKind
  BY <1>5 DEF Pick, RowKind
<1>6. ASSUME NEW m \in Matches, Insert(m) PROVE RowKind
  BY <1>6 DEF Insert, RowKind
<1>7. ASSUME NEW m \in Matches, StopClose(m) PROVE RowKind
  BY <1>7 DEF StopClose, RowKind
<1>8. CASE SweepClose
  <2>1. current \in Matches
    BY <1>8 DEF SweepClose, TypeOK
  <2>. QED
    BY <1>8, <2>1 DEF SweepClose, RowKind
<1>9. CASE OnStatus
  <2>1. Head(statuses) \in Ended
    BY <1>9, HeadAndTail DEF OnStatus, TypeOK, Ended
  <2>2. PICK m \in Matches, at \in {"up", "down", "failed"} :
          m = Head(statuses).match /\ at = Head(statuses).at
    BY <2>1 DEF Ended
  <2>3. CASE at = "up"
    BY <1>9, <2>2, <2>3 DEF OnStatus, StateOf, RowKind
  <2>4. CASE at = "failed"
    BY <1>9, <2>2, <2>4 DEF OnStatus, StateOf, RowKind
  <2>5. CASE at = "down"
    BY <1>9, <2>2, <2>5 DEF OnStatus, StateOf, RowKind
  <2>. QED
    BY <2>2, <2>3, <2>4, <2>5
<1>10. CASE HandleStart \/ HandleEnd
  <2>1. Head(telemetry) \in Reports
    BY <1>10, HeadAndTail DEF HandleStart, HandleEnd, TypeOK, Reports
  <2>2. PICK m \in Matches : m = Head(telemetry).match
    BY <2>1 DEF Reports
  <2>3. CASE HandleStart
    BY <2>2, <2>3 DEF HandleStart, RowKind
  <2>4. CASE HandleEnd
    BY <2>2, <2>4 DEF HandleEnd, RowKind
  <2>. QED
    BY <1>10, <2>3, <2>4
<1>. QED
  BY <1>1, <1>2, <1>3, <1>4, <1>5, <1>6, <1>7, <1>8, <1>9, <1>10 DEF Next, Sweep

LEMMA ToldStep == TypeOK /\ EndsAreTold /\ [Next]_vars => EndsAreTold'
<1> SUFFICES ASSUME TypeOK, EndsAreTold, RowKind PROVE EndsAreTold'
  BY RowKinds
<1> USE DEF EndsAreTold, TypeOK
<1>1. CASE UNCHANGED <<row, told>>
  BY <1>1
<1>2. ASSUME NEW m \in Matches, told \subseteq told',
             \E s \in {"creating", "waiting", "playing", "error"} :
               row' = [row EXCEPT ![m] = s] \/ Update(m, s)
      PROVE  EndsAreTold'
  BY <1>2 DEF Update
<1>3. ASSUME NEW m \in Matches, told' = told \cup {m}, NEW s \in Final, Update(m, s)
      PROVE  EndsAreTold'
  BY <1>3 DEF Update
<1>. QED
  BY <1>1, <1>2, <1>3 DEF RowKind, Final

(* The room server was told of the end of every match that is finished,     *)
(* terminated or timed out, whatever the agent and the game do meanwhile,   *)
(* for any number of matches, commands, reports and faults.                 *)
THEOREM ToldOfTheEnd == Spec => []EndsAreTold
<1>1. Init => EndsAreTold
  BY DEF Init, EndsAreTold
<1>. QED
  BY <1>1, TypeCorrect, ToldStep, PTL DEF Spec

-----------------------------------------------------------------------------
(* The ports.                                                               *)

\* A creation that overlaps no other holds a port that no active match has,
\* and has no row yet.
PortsOK ==
  /\ PortsAreExclusive
  /\ \A m \in Matches : create[m] # "over" => row[m] = "none"
  /\ \A m, n \in Matches :
       m \in Unrecorded /\ n # m /\ m \notin loose /\ n \notin loose =>
         /\ n \notin Unrecorded
         /\ row[n] \in Active => port[m] # port[n]

\* Where a creation may go in a step that is not Pick.
LEMMA CreateKinds ==
  ASSUME TypeOK, [Next]_vars
  PROVE  \/ \E m \in Matches : Pick(m)
         \/ /\ UNCHANGED port
            /\ \A m \in Matches : \/ create'[m] = create[m]
                                  \/ m \in Unrecorded /\ create'[m] \in {"published", "over"}
            /\ \A m \in Matches : row[m] = "none" /\ row'[m] # "none" => create'[m] = "over"
<1>1. CASE UNCHANGED vars
  BY <1>1 DEF vars
<1>2. ASSUME NEW t \in tasks,
             \/ CreateContainer(t) \/ StartContainer(t) \/ FindContainer(t)
             \/ RemoveContainer(t) \/ PublishStatus(t)
      PROVE  UNCHANGED <<port, create, row>>
  BY <1>2 DEF CreateContainer, StartContainer, FindContainer, RemoveContainer,
              PublishStatus, backend
<1>3. ASSUME NEW m \in Matches,
             \/ StopRead(m) \/ StopPublish(m) \/ Age(m) \/ SweepPublish(m)
             \/ GameStarts(m) \/ GameEnds(m)
      PROVE  UNCHANGED <<port, create, row>>
  BY <1>3 DEF StopRead, StopPublish, Age, SweepPublish, GameStarts, GameEnds, backend
<1>4. CASE SweepRead \/ AgentRestart
  BY <1>4 DEF SweepRead, AgentRestart, backend
<1>5. ASSUME NEW m \in Matches, PublishCreate(m)
      PROVE  /\ UNCHANGED <<port, row>>
             /\ \A n \in Matches : \/ create'[n] = create[n]
                                   \/ n \in Unrecorded /\ create'[n] \in {"published", "over"}
  BY <1>5 DEF PublishCreate, Unrecorded, TypeOK
<1>6. ASSUME NEW m \in Matches, Insert(m)
      PROVE  /\ UNCHANGED port
             /\ \A n \in Matches : \/ create'[n] = create[n] /\ row'[n] = row[n]
                                   \/ n \in Unrecorded /\ create'[n] = "over"
  BY <1>6 DEF Insert, Unrecorded, TypeOK
<1>7. CASE BackendRestart
  BY <1>7 DEF BackendRestart, Unrecorded, TypeOK
<1>8. ASSUME NEW m \in Matches, StopClose(m)
      PROVE  UNCHANGED <<port, create>> /\ \A n \in Matches : row[n] = "none" => row'[n] = "none"
  BY <1>8 DEF StopClose, Update, TypeOK
<1>9. CASE SweepClose
  BY <1>9 DEF SweepClose, Update, TypeOK
<1>10. CASE OnStatus \/ HandleStart \/ HandleEnd
  BY <1>10 DEF OnStatus, HandleStart, HandleEnd, Update, TypeOK
<1>. QED
  BY <1>1, <1>2, <1>3, <1>4, <1>5, <1>6, <1>7, <1>8, <1>9, <1>10 DEF Next, Sweep

LEMMA PortStep == TypeOK /\ PortsOK /\ [Next]_vars => PortsOK'
<1> SUFFICES ASSUME TypeOK, PortsOK, [Next]_vars PROVE PortsOK'
  OBVIOUS
<1>1. ASSUME NEW m \in Matches, Pick(m) PROVE PortsOK'
  <2>1. port[m] \in Ports \cup {NoPort} /\ row[m] = "none" /\ create[m] = "new"
    BY <1>1 DEF Pick, PortsOK, TypeOK
  <2>2. /\ \A n \in Matches : n # m => port'[n] = port[n] /\ create'[n] = create[n]
        /\ create'[m] = "picked" /\ row' = row
    BY <1>1 DEF Pick, TypeOK
  <2>3. Unrecorded' = Unrecorded \cup {m}
    BY <2>2 DEF Unrecorded
  <2>4. \A n \in Matches : row[n] \in Active => port'[m] # port[n]
    BY <1>1 DEF Pick, Busy, TypeOK
  <2>5. loose \subseteq loose' /\ (Unrecorded # {} => Unrecorded \cup {m} \subseteq loose')
    BY <1>1 DEF Pick
  <2>6. row[m] \notin Active
    BY <2>1 DEF Active
  <2>. HIDE DEF Unrecorded
  <2>7. PortsAreExclusive'
    BY <2>2, <2>5, <2>6 DEF PortsOK, PortsAreExclusive
  <2>8. \A n \in Matches : create'[n] # "over" => row'[n] = "none"
    BY <2>1, <2>2 DEF PortsOK
  <2>9. ASSUME NEW k \in Matches, NEW n \in Matches,
               k \in Unrecorded', n # k, k \notin loose', n \notin loose'
        PROVE  n \notin Unrecorded' /\ (row'[n] \in Active => port'[k] # port'[n])
    BY <2>2, <2>3, <2>4, <2>5, <2>6, <2>9 DEF PortsOK
  <2>. QED
    BY <2>7, <2>8, <2>9 DEF PortsOK
<1>2. ASSUME \A m \in Matches : ~Pick(m) PROVE PortsOK'
  <2>1. /\ port' = port
        /\ \A m \in Matches : \/ create'[m] = create[m]
                              \/ m \in Unrecorded /\ create'[m] \in {"published", "over"}
        /\ \A m \in Matches : row[m] = "none" /\ row'[m] # "none" => create'[m] = "over"
    BY <1>2, CreateKinds
  <2>2. Unrecorded' \subseteq Unrecorded
    BY <2>1 DEF Unrecorded
  <2>3. /\ loose \subseteq loose'
        /\ \A m \in Matches : row'[m] \in Active =>
             row[m] \in Active \/ m \in loose' \/ m \in Unrecorded
    <3>1. RowKind
      BY RowKinds
    <3>2. ASSUME NEW m \in Matches, create[m] = "published",
                 row' = [row EXCEPT ![m] = "creating"], loose' = loose
          PROVE  <2>3!1 /\ <2>3!2
      BY <3>2 DEF Unrecorded, TypeOK
    <3>3. ASSUME NEW m \in Matches, NEW s \in Final, Update(m, s), loose' = loose
          PROVE  <2>3!1 /\ <2>3!2
      BY <3>3 DEF Update, TypeOK, Active, Final
    <3>4. ASSUME NEW m \in Matches, Update(m, "waiting"),
                 loose' = IF row[m] \in Final THEN loose \cup {m} ELSE loose
          PROVE  <2>3!1 /\ <2>3!2
      BY <3>4 DEF Update, TypeOK, Active, Final
    <3>5. ASSUME NEW m \in Matches, Update(m, "playing"), loose' = loose,
                 row[m] \in {"creating", "waiting"}
          PROVE  <2>3!1 /\ <2>3!2
      BY <3>5 DEF Update, TypeOK, Active, Final
    <3>. QED
      BY <1>2, <3>1, <3>2, <3>3, <3>4, <3>5 DEF RowKind, Final
  <2>4. \A m \in Matches : create'[m] # "over" => row'[m] = "none"
    BY <2>1 DEF PortsOK, Unrecorded
  <2>5. PortsAreExclusive'
    <3>1. ASSUME NEW m \in Matches, NEW n \in Matches, m # n,
                 row'[m] \in Active, row'[n] \in Active, m \notin loose', n \notin loose'
          PROVE  port'[m] # port'[n]
      BY <2>1, <2>3, <3>1 DEF PortsOK, PortsAreExclusive
    <3>. QED
      BY <3>1 DEF PortsAreExclusive
  <2>6. ASSUME NEW m \in Matches, NEW n \in Matches,
               m \in Unrecorded', n # m, m \notin loose', n \notin loose'
        PROVE  n \notin Unrecorded' /\ (row'[n] \in Active => port'[m] # port'[n])
    BY <2>1, <2>2, <2>3, <2>6 DEF PortsOK
  <2>. QED
    BY <2>4, <2>5, <2>6 DEF PortsOK
<1>. QED
  BY <1>1, <1>2

(* Two active matches have a port each, unless their creations overlapped   *)
(* or one of them was brought back after it was closed: for any number of   *)
(* matches, ports and faults.  These two are all that breaks it.            *)
THEOREM PortsExclusive == Spec => []PortsAreExclusive
<1>1. Init => PortsOK
  BY DEF Init, PortsOK, PortsAreExclusive, Unrecorded, Active
<1>2. PortsOK => PortsAreExclusive
  BY DEF PortsOK
<1>. QED
  BY <1>1, <1>2, TypeCorrect, PortStep, PTL DEF Spec

-----------------------------------------------------------------------------
(* The container and the game in it.                                        *)

\* The container of a match is created once, before its game.
CreatedOnce ==
  \A m \in Matches :
    /\ create[m] \in {"new", "picked"} =>
         /\ Task(m, "create") \notin tasks /\ Task(m, "start") \notin tasks
         /\ container[m] = "none" /\ game[m] = "idle"
    /\ Task(m, "create") \in tasks =>
         /\ Task(m, "start") \notin tasks
         /\ container[m] = "none" /\ game[m] = "idle"
    /\ Task(m, "start") \in tasks => container[m] # "running" /\ game[m] = "idle"

\* Two tasks that differ are not mixed up.
LEMMA TasksDiffer ==
  /\ \A t \in Tasks : t = Task(t.match, t.at)
  /\ \A m, n, a, b : Task(m, a) = Task(n, b) => m = n /\ a = b
BY DEF Tasks, Task

\* What a step may do to the tasks, the containers and the games.
TaskKind ==
  \/ UNCHANGED <<tasks, container, game, cut>>
  \/ \E t \in tasks : PublishStatus(t)
  \/ \E m \in Matches : PublishCreate(m)
  \/ /\ UNCHANGED <<container, game, cut>>
     /\ \E m \in Matches : tasks' = tasks \cup {Task(m, "destroy")}
  \/ \E t \in tasks : \/ CreateContainer(t) \/ StartContainer(t)
                      \/ FindContainer(t) \/ RemoveContainer(t)
  \/ \E m \in Matches : GameStarts(m) \/ GameEnds(m)
  \/ AgentRestart

\* A creation is not begun again.
CreateGoesOn ==
  \A m \in Matches : create'[m] \in {"new", "picked"} =>
    create[m] \in {"new", "picked"} /\ ~PublishCreate(m)

LEMMA TaskKinds ==
  ASSUME TypeOK, [Next]_vars PROVE TaskKind /\ CreateGoesOn
<1>0. \A m \in Matches : ~(UNCHANGED create /\ PublishCreate(m))
  BY DEF PublishCreate, TypeOK
<1>1. CASE UNCHANGED vars
  BY <1>1, <1>0 DEF vars, TaskKind, CreateGoesOn
<1>2. ASSUME NEW t \in tasks,
             \/ CreateContainer(t) \/ StartContainer(t) \/ FindContainer(t)
             \/ RemoveContainer(t) \/ PublishStatus(t)
      PROVE  TaskKind /\ UNCHANGED create
  BY <1>2 DEF CreateContainer, StartContainer, FindContainer, RemoveContainer,
              PublishStatus, backend, TaskKind
<1>3. ASSUME NEW m \in Matches, GameStarts(m) \/ GameEnds(m)
      PROVE  TaskKind /\ UNCHANGED create
  BY <1>3 DEF GameStarts, GameEnds, backend, TaskKind
<1>4. ASSUME NEW m \in Matches, StopPublish(m) \/ SweepPublish(m)
      PROVE  TaskKind /\ UNCHANGED create
  BY <1>4 DEF StopPublish, SweepPublish, TaskKind
<1>5. ASSUME NEW m \in Matches, StopRead(m) \/ StopClose(m) \/ Age(m)
      PROVE  TaskKind /\ UNCHANGED create
  BY <1>5 DEF StopRead, StopClose, Age, agent, TaskKind
<1>6. CASE SweepRead \/ SweepClose \/ OnStatus \/ HandleStart \/ HandleEnd
  <2>1. TaskKind /\ UNCHANGED create
    BY <1>6 DEF SweepRead, SweepClose, OnStatus, HandleStart, HandleEnd, agent, TaskKind
  <2>. QED
    BY <1>0, <2>1 DEF CreateGoesOn
<1>7. CASE AgentRestart
  <2>1. TaskKind /\ UNCHANGED create
    BY <1>7 DEF AgentRestart, backend, TaskKind
  <2>. QED
    BY <1>0, <2>1 DEF CreateGoesOn
<1>8. CASE BackendRestart
  <2>1. TaskKind
    BY <1>8 DEF BackendRestart, agent, TaskKind
  <2>2. \A m \in Matches : \/ create'[m] = create[m]
                           \/ create'[m] = "over"
    BY <1>8 DEF BackendRestart, TypeOK
  <2>3. ASSUME NEW m \in Matches, PublishCreate(m) PROVE create'[m] \notin {"new", "picked"}
    BY <2>3 DEF PublishCreate, TypeOK
  <2>. QED
    BY <2>1, <2>2, <2>3 DEF CreateGoesOn
<1>9. ASSUME NEW m \in Matches, Pick(m) \/ Insert(m)
      PROVE  TaskKind /\ CreateGoesOn
  <2>1. TaskKind
    BY <1>9 DEF Pick, Insert, agent, TaskKind
  <2>2. \A n \in Matches : create'[n] \in {"new", "picked"} => create[n] \in {"new", "picked"}
    BY <1>9 DEF Pick, Insert, TypeOK
  <2>3. ASSUME NEW n \in Matches, PublishCreate(n) PROVE create'[n] \notin {"new", "picked"}
    BY <2>3 DEF PublishCreate, TypeOK
  <2>. QED
    BY <2>1, <2>2, <2>3 DEF CreateGoesOn
<1>10. ASSUME NEW m \in Matches, PublishCreate(m) PROVE TaskKind /\ CreateGoesOn
  <2>1. \A n \in Matches : create'[n] \in {"new", "picked"} => create[n] \in {"new", "picked"}
    BY <1>10 DEF PublishCreate, TypeOK
  <2>2. ASSUME NEW n \in Matches, PublishCreate(n) PROVE create'[n] \notin {"new", "picked"}
    BY <2>2 DEF PublishCreate, TypeOK
  <2>. QED
    BY <1>10, <2>1, <2>2 DEF CreateGoesOn, TaskKind
<1>. QED
  BY <1>1, <1>2, <1>3, <1>4, <1>5, <1>6, <1>7, <1>8, <1>9, <1>10, <1>0
     DEF Next, Sweep, CreateGoesOn

LEMMA CreatedStep == TypeOK /\ CreatedOnce /\ [Next]_vars => CreatedOnce'
<1> SUFFICES ASSUME TypeOK, CreatedOnce, TaskKind, CreateGoesOn, NEW m \in Matches
             PROVE  /\ create'[m] \in {"new", "picked"} =>
                         /\ Task(m, "create") \notin tasks' /\ Task(m, "start") \notin tasks'
                         /\ container'[m] = "none" /\ game'[m] = "idle"
                    /\ Task(m, "create") \in tasks' =>
                         /\ Task(m, "start") \notin tasks'
                         /\ container'[m] = "none" /\ game'[m] = "idle"
                    /\ Task(m, "start") \in tasks' =>
                         container'[m] # "running" /\ game'[m] = "idle"
  BY TaskKinds DEF CreatedOnce, Task
<1> DEFINE Goal == /\ create'[m] \in {"new", "picked"} =>
                         /\ Task(m, "create") \notin tasks' /\ Task(m, "start") \notin tasks'
                         /\ container'[m] = "none" /\ game'[m] = "idle"
                   /\ Task(m, "create") \in tasks' =>
                         /\ Task(m, "start") \notin tasks'
                         /\ container'[m] = "none" /\ game'[m] = "idle"
                   /\ Task(m, "start") \in tasks' =>
                         container'[m] # "running" /\ game'[m] = "idle"
<1>0. \A t \in tasks : t \in Tasks
  BY DEF TypeOK, Tasks
<1>1. CASE UNCHANGED <<tasks, container, game>>
  BY <1>1 DEF CreatedOnce, CreateGoesOn
<1>2. ASSUME NEW t \in tasks, PublishStatus(t) PROVE Goal
  BY <1>2 DEF PublishStatus, CreatedOnce, CreateGoesOn
<1>3. ASSUME NEW n \in Matches, PublishCreate(n) PROVE Goal
  BY <1>3, TasksDiffer DEF PublishCreate, CreatedOnce, CreateGoesOn
<1>4. ASSUME UNCHANGED <<container, game>>, NEW n \in Matches,
             tasks' = tasks \cup {Task(n, "destroy")}
      PROVE  Goal
  BY <1>4, TasksDiffer DEF CreatedOnce, CreateGoesOn
<1>5. ASSUME NEW t \in tasks, CreateContainer(t) PROVE Goal
  <2>1. t = Task(t.match, "create") /\ t.match \in Matches
    BY <1>0, <1>5, TasksDiffer DEF CreateContainer, Tasks
  <2>. QED
    BY <1>5, <2>1, TasksDiffer
       DEF CreateContainer, Becomes, backend, CreatedOnce, CreateGoesOn, TypeOK
<1>6. ASSUME NEW t \in tasks, StartContainer(t) PROVE Goal
  <2>1. t = Task(t.match, "start") /\ t.match \in Matches
    BY <1>0, <1>6, TasksDiffer DEF StartContainer, Tasks
  <2>. QED
    BY <1>6, <2>1, TasksDiffer
       DEF StartContainer, Becomes, backend, CreatedOnce, CreateGoesOn, TypeOK
<1>7. ASSUME NEW t \in tasks, FindContainer(t) PROVE Goal
  BY <1>7, TasksDiffer DEF FindContainer, Becomes, backend, CreatedOnce, CreateGoesOn
<1>8. ASSUME NEW t \in tasks, RemoveContainer(t) PROVE Goal
  <2>1. /\ \A n \in Matches : container'[n] \in {container[n], "none"}
        /\ UNCHANGED <<create, game>>
    BY <1>8 DEF RemoveContainer, backend, TypeOK
  <2>2. \A a \in {"create", "start"} : Task(m, a) \in tasks' => Task(m, a) \in tasks
    BY <1>8, TasksDiffer DEF RemoveContainer, Becomes
  <2>. QED
    BY <2>1, <2>2 DEF CreatedOnce, CreateGoesOn
<1>9. ASSUME NEW n \in Matches, GameStarts(n) PROVE Goal
  BY <1>9 DEF GameStarts, backend, CreatedOnce, CreateGoesOn, TypeOK
<1>10. ASSUME NEW n \in Matches, GameEnds(n) PROVE Goal
  BY <1>10, TasksDiffer DEF GameEnds, backend, CreatedOnce, CreateGoesOn, TypeOK
<1>11. CASE AgentRestart
  BY <1>11 DEF AgentRestart, CreatedOnce, CreateGoesOn
<1>. QED
  BY <1>1, <1>2, <1>3, <1>4, <1>5, <1>6, <1>7, <1>8, <1>9, <1>10, <1>11 DEF TaskKind

LEMMA TornDownStep ==
  TypeOK /\ CreatedOnce /\ EndedMatchIsTornDown /\ [Next]_vars => EndedMatchIsTornDown'
<1> DEFINE Torn(m) == \/ container[m] = "none" \/ m \in cut
                      \/ Task(m, "destroy") \in tasks \/ Task(m, "remove") \in tasks
<1>0. ASSUME TypeOK
      PROVE  EndedMatchIsTornDown <=> \A m \in Matches : game[m] = "over" => Torn(m)
  <2>1. \A t \in tasks : t = Task(t.match, t.at)
    BY <1>0, TasksDiffer DEF TypeOK, Tasks
  <2>. QED
    BY <2>1, TaskType, StageNames DEF EndedMatchIsTornDown
<1>1. SUFFICES ASSUME TypeOK, CreatedOnce, TaskKind, NEW m \in Matches, game'[m] = "over",
                      game[m] = "over" => Torn(m)
               PROVE  \/ container'[m] = "none" \/ m \in cut'
                      \/ Task(m, "destroy") \in tasks' \/ Task(m, "remove") \in tasks'
  <2>1. TypeOK' /\ EndedMatchIsTornDown
        => (EndedMatchIsTornDown' <=>
              \A m \in Matches : game'[m] = "over" =>
                \/ container'[m] = "none" \/ m \in cut'
                \/ Task(m, "destroy") \in tasks' \/ Task(m, "remove") \in tasks')
    <3> SUFFICES ASSUME TypeOK' PROVE
          EndedMatchIsTornDown' <=>
              \A m \in Matches : game'[m] = "over" =>
                \/ container'[m] = "none" \/ m \in cut'
                \/ Task(m, "destroy") \in tasks' \/ Task(m, "remove") \in tasks'
      OBVIOUS
    <3>1. \A t \in tasks' : t = Task(t.match, t.at)
      BY TasksDiffer DEF TypeOK, Tasks
    <3>. QED
      BY <3>1, TaskType, StageNames DEF EndedMatchIsTornDown
  <2>. QED
    BY <1>0, <2>1, TypeStep, TaskKinds
<1> DEFINE Goal == \/ container'[m] = "none" \/ m \in cut'
                   \/ Task(m, "destroy") \in tasks' \/ Task(m, "remove") \in tasks'
<1>2. \A t \in tasks : t = Task(t.match, t.at) /\ t.match \in Matches
  BY <1>1, TasksDiffer DEF TypeOK, Tasks
<1>3. CASE UNCHANGED <<tasks, container, game, cut>>
  BY <1>1, <1>3
<1>4. ASSUME NEW t \in tasks, PublishStatus(t) PROVE Goal
  BY <1>1, <1>4, TaskType, StageNames DEF PublishStatus
<1>5. ASSUME NEW n \in Matches, PublishCreate(n) PROVE Goal
  BY <1>1, <1>5 DEF PublishCreate
<1>6. ASSUME UNCHANGED <<container, game, cut>>, NEW n \in Matches,
             tasks' = tasks \cup {Task(n, "destroy")}
      PROVE  Goal
  BY <1>1, <1>6
<1>7. ASSUME NEW t \in tasks, CreateContainer(t) \/ StartContainer(t) PROVE Goal
  <2>1. t \in {Task(t.match, "create"), Task(t.match, "start")} /\ game' = game
    BY <1>2, <1>7 DEF CreateContainer, StartContainer
  <2>2. t.match # m
    BY <1>1, <1>2, <2>1 DEF CreatedOnce
  <2>3. container'[m] = container[m] /\ cut' = cut
    BY <1>1, <1>7, <2>2 DEF CreateContainer, StartContainer, TypeOK
  <2>4. \A at \in {"destroy", "remove"} : Task(m, at) \in tasks => Task(m, at) \in tasks'
    BY <1>7, <2>1, TasksDiffer DEF CreateContainer, StartContainer, Becomes
  <2>. QED
    BY <1>1, <2>1, <2>3, <2>4
<1>8. ASSUME NEW t \in tasks, FindContainer(t) PROVE Goal
  <2>1. t = Task(t.match, "destroy")
    BY <1>2, <1>8 DEF FindContainer
  <2>2. CASE t.match = m
    BY <1>8, <2>2 DEF FindContainer, Becomes
  <2>3. CASE t.match # m
    BY <1>1, <1>8, <2>1, <2>3, TasksDiffer DEF FindContainer, Becomes
  <2>. QED
    BY <2>2, <2>3
<1>9. ASSUME NEW t \in tasks, RemoveContainer(t) PROVE Goal
  <2>1. t = Task(t.match, "remove") /\ t.match \in Matches
    BY <1>2, <1>9 DEF RemoveContainer
  <2>2. CASE t.match = m
    BY <1>1, <1>9, <2>2 DEF RemoveContainer, TypeOK
  <2>3. CASE t.match # m
    BY <1>1, <1>9, <2>1, <2>3, TasksDiffer DEF RemoveContainer, Becomes, TypeOK
  <2>. QED
    BY <2>2, <2>3
<1>10. ASSUME NEW n \in Matches, GameStarts(n) PROVE Goal
  BY <1>1, <1>10 DEF GameStarts, TypeOK
<1>11. ASSUME NEW n \in Matches, GameEnds(n) PROVE Goal
  BY <1>1, <1>11 DEF GameEnds, TypeOK
<1>12. CASE AgentRestart
  BY <1>12 DEF AgentRestart
<1>. QED
  BY <1>1, <1>3, <1>4, <1>5, <1>6, <1>7, <1>8, <1>9, <1>10, <1>11, <1>12 DEF TaskKind

(* A match that has ended is torn down, whether or not its report was       *)
(* queued, unless Docker or a restart of the agent cuts the teardown short: *)
(* a container is created once for each match and not again after its game. *)
THEOREM EndedIsTornDown == Spec => []EndedMatchIsTornDown
<1>1. Init => CreatedOnce /\ EndedMatchIsTornDown
  BY DEF Init, CreatedOnce, EndedMatchIsTornDown
<1>. QED
  BY <1>1, TypeCorrect, CreatedStep, TornDownStep, PTL DEF Spec

-----------------------------------------------------------------------------
(* What the rows say of the games.                                          *)

\* What r says of its match has happened, when the games are g.
Happened(r, g) == /\ r.match \in Matches /\ g[r.match] # "idle"
                  /\ r.is = "end" => g[r.match] = "over"

ReportsOK == \A i \in 1..Len(telemetry) : Happened(telemetry[i], game)

\* A game goes on and never back.
LEMMA GameGoesOn ==
  ASSUME TypeOK, [Next]_vars, NEW m \in Matches
  PROVE  \/ game'[m] = game[m]
         \/ game[m] = "idle" /\ game'[m] = "playing"
         \/ game[m] = "playing" /\ game'[m] = "over"
<1>1. TaskKind
  BY TaskKinds
<1>2. CASE \E n \in Matches : GameStarts(n) \/ GameEnds(n)
  BY <1>2 DEF GameStarts, GameEnds, TypeOK
<1>3. CASE UNCHANGED game
  BY <1>3
<1>4. ASSUME NEW t \in tasks,
             \/ CreateContainer(t) \/ StartContainer(t) \/ FindContainer(t)
             \/ RemoveContainer(t) \/ PublishStatus(t)
      PROVE  UNCHANGED game
  BY <1>4 DEF CreateContainer, StartContainer, FindContainer, RemoveContainer, PublishStatus
<1>5. ASSUME NEW n \in Matches, PublishCreate(n) PROVE UNCHANGED game
  BY <1>5 DEF PublishCreate
<1>6. CASE AgentRestart
  BY <1>6 DEF AgentRestart
<1>7. CASE UNCHANGED <<tasks, container, game, cut>> \/ UNCHANGED <<container, game, cut>>
  BY <1>7
<1>. QED
  BY <1>1, <1>2, <1>3, <1>4, <1>5, <1>6, <1>7, Zenon DEF TaskKind

\* What a step may do to the reports.
ReportKind ==
  \/ UNCHANGED telemetry
  \/ telemetry' = <<>>
  \/ telemetry # <<>> /\ telemetry' = Tail(telemetry)
  \/ \E m \in Matches : GameStarts(m) \/ GameEnds(m)

LEMMA ReportKinds ==
  ASSUME TypeOK, [Next]_vars PROVE ReportKind
<1>1. CASE UNCHANGED vars
  BY <1>1 DEF vars, ReportKind
<1>2. ASSUME NEW t \in tasks,
             \/ CreateContainer(t) \/ StartContainer(t) \/ FindContainer(t)
             \/ RemoveContainer(t) \/ PublishStatus(t)
      PROVE  ReportKind
  BY <1>2 DEF CreateContainer, StartContainer, FindContainer, RemoveContainer,
              PublishStatus, ReportKind
<1>3. ASSUME NEW m \in Matches,
             \/ Pick(m) \/ PublishCreate(m) \/ Insert(m) \/ StopRead(m)
             \/ StopPublish(m) \/ StopClose(m) \/ Age(m) \/ SweepPublish(m)
      PROVE  ReportKind
  BY <1>3 DEF Pick, PublishCreate, Insert, StopRead, StopPublish, StopClose, Age,
              SweepPublish, ReportKind
<1>4. CASE \/ SweepRead \/ SweepClose \/ OnStatus \/ AgentRestart \/ BackendRestart
           \/ HandleStart \/ HandleEnd
  BY <1>4 DEF SweepRead, SweepClose, OnStatus, AgentRestart, BackendRestart,
              HandleStart, HandleEnd, ReportKind
<1>5. ASSUME NEW m \in Matches, GameStarts(m) \/ GameEnds(m) PROVE ReportKind
  BY <1>5 DEF ReportKind
<1>. QED
  BY <1>1, <1>2, <1>3, <1>4, <1>5 DEF Next, Sweep

LEMMA ReportsStep == TypeOK /\ ReportsOK /\ [Next]_vars => ReportsOK'
<1> SUFFICES ASSUME TypeOK, ReportsOK, [Next]_vars PROVE ReportsOK'
  OBVIOUS
<1>0. telemetry \in Seq(Reports)
  BY DEF TypeOK, Reports
<1>1. ASSUME NEW r \in Reports, Happened(r, game)
      PROVE  Happened(r, game')
  BY <1>1, GameGoesOn DEF Happened
<1>2. \A i \in 1..Len(telemetry) : Happened(telemetry[i], game')
  BY <1>0, <1>1 DEF ReportsOK
<1>3. CASE UNCHANGED telemetry
  BY <1>2, <1>3 DEF ReportsOK
<1>4. CASE telemetry' = <<>>
  BY <1>4 DEF ReportsOK
<1>5. CASE telemetry # <<>> /\ telemetry' = Tail(telemetry)
  <2>1. \A i \in 1..Len(telemetry') :
          i + 1 \in 1..Len(telemetry) /\ telemetry'[i] = telemetry[i + 1]
    BY <1>0, <1>5, HeadAndTail
  <2>. QED
    BY <1>2, <2>1 DEF ReportsOK
<1>6. ASSUME NEW m \in Matches, GameStarts(m) \/ GameEnds(m)
      PROVE  ReportsOK'
  <2>1. PICK what \in {"start", "end"} :
          /\ Queue(Report(m, what))
          /\ game'[m] # "idle" /\ (what = "end" => game'[m] = "over")
    BY <1>6 DEF GameStarts, GameEnds, TypeOK
  <2>2. Report(m, what) \in Reports /\ Happened(Report(m, what), game')
    BY <2>1 DEF Report, Reports, Happened
  <2>3. CASE UNCHANGED telemetry
    BY <1>2, <2>3 DEF ReportsOK
  <2>4. CASE telemetry' = Append(telemetry, Report(m, what))
    <3>1. \A i \in 1..Len(telemetry') :
            telemetry'[i] = IF i \in 1..Len(telemetry) THEN telemetry[i] ELSE Report(m, what)
      BY <1>0, <2>2, <2>4, Appended
    <3>. QED
      BY <1>2, <2>2, <3>1 DEF ReportsOK
  <2>. QED
    BY <2>1, <2>3, <2>4 DEF Queue
<1>. QED
  BY <1>3, <1>4, <1>5, <1>6, ReportKinds DEF ReportKind

LEMMA RowsStep ==
  TypeOK /\ ReportsOK /\ RowsFollowTheGame /\ [Next]_vars => RowsFollowTheGame'
<1> SUFFICES ASSUME TypeOK, ReportsOK, RowsFollowTheGame, [Next]_vars, NEW m \in Matches
             PROVE  /\ row'[m] = "playing" => game'[m] # "idle"
                    /\ row'[m] = "finished" => game'[m] = "over"
  BY DEF RowsFollowTheGame
<1>1. RowKind
  BY RowKinds
<1>2. /\ game[m] # "idle" => game'[m] # "idle"
      /\ game[m] = "over" => game'[m] = "over"
  BY GameGoesOn
<1>3. CASE row'[m] = row[m]
  BY <1>2, <1>3 DEF RowsFollowTheGame
<1>4. CASE row'[m] \notin {"playing", "finished"}
  BY <1>4
<1>5. ASSUME NEW n \in Matches, telemetry # <<>>, n = Head(telemetry).match
      PROVE  Happened(Head(telemetry), game)
  <2>1. telemetry \in Seq(Reports)
    BY DEF TypeOK, Reports
  <2>2. Head(telemetry) = telemetry[1] /\ 1 \in 1..Len(telemetry)
    BY <1>5, <2>1
  <2>. QED
    BY <2>2 DEF ReportsOK
<1>6. ASSUME NEW n \in Matches, Update(n, "finished"), HandleEnd, n = Head(telemetry).match
      PROVE  row'[m] = row[m] \/ game[m] = "over"
  <2>1. Happened(Head(telemetry), game) /\ Head(telemetry).is = "end"
    BY <1>5, <1>6 DEF HandleEnd
  <2>. QED
    BY <1>6, <2>1 DEF Update, Happened, TypeOK
<1>7. ASSUME NEW n \in Matches, Update(n, "playing"), HandleStart, n = Head(telemetry).match
      PROVE  row'[m] = row[m] \/ (row'[m] = "playing" /\ game[m] # "idle")
  <2>1. Happened(Head(telemetry), game)
    BY <1>5, <1>7 DEF HandleStart
  <2>. QED
    BY <1>7, <2>1 DEF Update, Happened, TypeOK
<1>8. ASSUME NEW n \in Matches, NEW s \in {"terminated", "timeout", "error", "waiting"},
             Update(n, s)
      PROVE  row'[m] = row[m] \/ row'[m] \notin {"playing", "finished"}
  BY <1>8 DEF Update, TypeOK
<1>9. ASSUME NEW n \in Matches, row' = [row EXCEPT ![n] = "creating"]
      PROVE  row'[m] = row[m] \/ row'[m] \notin {"playing", "finished"}
  BY <1>9 DEF TypeOK
<1>10. \/ row'[m] = row[m] \/ row'[m] \notin {"playing", "finished"} \/ game[m] = "over"
       \/ row'[m] = "playing" /\ game[m] # "idle"
  BY <1>1, <1>6, <1>7, <1>8, <1>9 DEF RowKind
<1>. QED
  BY <1>2, <1>3, <1>4, <1>10

(* No row says more than the game did: however late, early or often the     *)
(* status reports of the agent come between those of the game, a match that *)
(* is played has started and one that is finished is over.                  *)
THEOREM RowsFollow == Spec => []RowsFollowTheGame
<1>1. Init => ReportsOK /\ RowsFollowTheGame
  BY DEF Init, ReportsOK, RowsFollowTheGame
<1>. QED
  BY <1>1, TypeCorrect, ReportsStep, RowsStep, PTL DEF Spec

=============================================================================
