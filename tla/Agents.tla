------------------------------- MODULE Agents -------------------------------
(***************************************************************************)
(* The game hosts as the manager knows them: their rows in manager_agents, *)
(* the heartbeats that make and refresh them (consumer.go), the page on    *)
(* which administrators set their limits (AgentsPage.tsx, with             *)
(* handleUpdateAgent), and who may be given a match (pickAgentPort).       *)
(*                                                                         *)
(* What can go wrong between them:                                         *)
(*   - a row is written by heartbeats and by several administrators;       *)
(*   - a dialog shows what the row was when it was opened, and the answer  *)
(*     of a save may come when another dialog is open;                     *)
(*   - the page and the backend tell separately which version is the       *)
(*     latest, from different agents.                                      *)
(***************************************************************************)
EXTENDS Integers, Sequences, FiniteSets

CONSTANTS
  Hosts,      (* the agents                                                *)
  NoHost,     (* no dialog is open                                         *)
  Tabs,       (* browser tabs with the page open                           *)
  MaxPatches, (* bound: saves under way at a time                          *)
  Cores,      (* number of cores, the first rehlds_run_max of an agent     *)
  Versions,   (* what an agent may report as its version, "" (Blank) aside *)
  Blank,
  Segments,   (* the parts of a version: numbers, or Word                  *)
  Word,       (* a part that is not a number                               *)
  Text,       (* place of a version among all of them compared as text     *)
  Drafts      (* bound: what is typed in the dialog                        *)

Ids == 1..MaxPatches

\* The ports a list may hold.
PortNumbers == 1..65535

\* What the fields of the dialog may hold; a port field that is empty is 0, a
\* limit that is empty is Cleared.
Modes   == {"range", "list"}
Statuses == {"enabled", "disabled"}
Cleared == -1
Draft   == [status : Statuses, runMax : Nat \cup {Cleared}, mode : Modes,
            start : Nat, end : Nat, ports : SUBSET Nat]

\* rehlds_port_range, the text: empty, "start-end", or a list of ports.
NoPorts == [mode |-> "none"]
PortTexts == {NoPorts} \cup [mode : {"range"}, start : Nat, end : Nat]
                       \cup [mode : {"list"}, ports : SUBSET Nat]

\* What a save sends.
Settings == [status : Statuses, runMax : Nat \cup {Cleared}, ports : PortTexts]

ASSUME AgentsAssumption ==
  /\ NoHost \notin Hosts /\ MaxPatches \in Nat /\ Cores \in Nat
  /\ Blank \notin Versions /\ Drafts \subseteq Draft /\ Drafts # {}
  /\ Word \notin Nat
  /\ \A v \in Versions : Segments[v] \in Seq(Nat \cup {Word}) /\ Segments[v] # <<>>
  /\ \A v, w \in Versions : Text[v] \in Nat /\ (Text[v] = Text[w] => v = w)

VARIABLES
  known,   \* the agents that have a row
  status,  \* manager_agents.status
  runMax,  \* rehlds_run_max
  ports,   \* rehlds_port_range
  version, \* version
  fresh,   \* heartbeat_at is less than 30 seconds ago
  target,  \* editTarget of each tab
  draft,   \* the fields of its dialog
  patch    \* saves under way

rows == <<known, status, runMax, ports, version, fresh>>
vars == <<known, status, runMax, ports, version, fresh, target, draft, patch>>

-----------------------------------------------------------------------------
(* The port range                                                            *)

\* parsePortRange
Parse(t) ==
  IF t.mode = "range" THEN [mode |-> "range", start |-> t.start, end |-> t.end, ports |-> {}]
  ELSE IF t.mode = "list" THEN [mode |-> "list", start |-> 0, end |-> 0, ports |-> t.ports]
  ELSE [mode |-> "range", start |-> 0, end |-> 0, ports |-> {}]

\* serializePortRange
Serialize(d) ==
  IF d.mode = "list"
  THEN IF d.ports = {} THEN NoPorts ELSE [mode |-> "list", ports |-> d.ports]
  ELSE IF d.start = 0 \/ d.end = 0 THEN NoPorts
       ELSE [mode |-> "range", start |-> d.start, end |-> d.end]

\* portCount
PortCount(d) ==
  IF d.mode = "list" THEN Cardinality(d.ports)
  ELSE IF d.start = 0 \/ d.end = 0 \/ d.end < d.start THEN 0
       ELSE d.end - d.start + 1

\* Seeded: the ports are not counted against the limit.
ValidAnyCount(d) ==
  /\ d.mode = "range" => d.start # 0 /\ d.end # 0 /\ d.end > d.start
  /\ d.mode # "range" => d.ports # {} /\ d.ports \subseteq PortNumbers

\* The tests of handleSave.  It takes an empty limit for 0, for which any
\* ports suffice.
Valid(d) ==
  /\ d.runMax # Cleared => PortCount(d) >= d.runMax
  /\ d.mode = "range" => d.start # 0 /\ d.end # 0 /\ d.end > d.start
  /\ d.mode # "range" => d.ports # {} /\ d.ports \subseteq PortNumbers

-----------------------------------------------------------------------------
(* Versions                                                                 *)

Part(v, i) == IF i <= Len(Segments[v]) THEN Segments[v][i] ELSE 0

\* Where the comparison of two versions is decided: at a part that is no
\* number, or at one that differs.
Decisive(v, w) ==
  {i \in 1..Len(Segments[v]) \cup 1..Len(Segments[w]) :
     Word \in {Part(v, i), Part(w, i)} \/ Part(v, i) # Part(w, i)}

\* compareVersions(v, w) > 0, the same in backend.go and AgentsPage.tsx.
Higher(v, w) ==
  \E i \in Decisive(v, w) :
    /\ \A j \in Decisive(v, w) : i <= j
    /\ IF Word \in {Part(v, i), Part(w, i)} THEN Text[v] > Text[w]
       ELSE Part(v, i) > Part(w, i)

\* The comparison with the empty text both programs begin with: "" is the
\* number 0 in JavaScript, and no number in Go.
HigherThanBlankJS == {v \in Versions : \E i \in 1..Len(Segments[v]) : Part(v, i) # 0}

(* Neither program compares by an order of all texts: with a part that is   *)
(* no number 1.9 < 1.10 < 1.10a < 1.9.  The versions in use are assumed to  *)
(* have a highest one among any of them, and not to be all zeros, which     *)
(* JavaScript would take for no version at all.                             *)
ASSUME VersionsAreOrdered ==
  /\ \A V \in SUBSET Versions : V # {} => \E v \in V : \A w \in V : ~Higher(w, v)
  /\ \A v, w \in Versions : v # w => Higher(v, w) \/ Higher(w, v)
  /\ Versions = HigherThanBlankJS

\* The loops keep the highest version of those they are given, in any order.
Highest(V) == IF V = {} THEN Blank ELSE CHOOSE v \in V : \A w \in V : ~Higher(w, v)

\* Seeded: the page compares the versions as text.
PageLatestAsText ==
  LET V == {version[h] : h \in known} \cap HigherThanBlankJS
  IN IF V = {} THEN Blank ELSE CHOOSE v \in V : \A w \in V : Text[w] <= Text[v]

\* latestVersion of the page: of all agents it lists.
PageLatest == Highest({version[h] : h \in known} \cap HigherThanBlankJS)

\* The red mark of a version in the table.
Marked(h) == version[h] # Blank /\ PageLatest # Blank /\ version[h] # PageLatest

\* The WHERE clause of pickAgentPort.
Fit == {h \in known : status[h] = "enabled" /\ fresh[h] /\ runMax[h] > 0 /\ ports[h] # NoPorts}

\* Seeded: the latest version is that of any agent, as on the page.
BackendLatestOfAll == Highest({version[h] : h \in known} \ {Blank})

BackendLatest == Highest({version[h] : h \in Fit} \ {Blank})

\* The agents pickAgentPort goes on with.
Candidates == {h \in Fit : BackendLatest # Blank => version[h] = BackendLatest}

-----------------------------------------------------------------------------
(* The heartbeats                                                            *)

\* rehlds_run_max after a heartbeat.
Lifted(h) == IF runMax[h] = 0 THEN Cores ELSE runMax[h]

\* upsertAgent
Heartbeat(h, v) ==
  /\ known' = known \cup {h}
  /\ status' = [status EXCEPT ![h] = IF h \in known THEN @ ELSE "enabled"]
  /\ runMax' = [runMax EXCEPT ![h] = IF h \in known THEN Lifted(h) ELSE Cores]
  /\ version' = [version EXCEPT ![h] = v]
  /\ fresh' = [fresh EXCEPT ![h] = TRUE]
  /\ UNCHANGED <<ports, target, draft, patch>>

\* Thirty seconds without a heartbeat (STALE_SECONDS, AgentStaleSeconds).
Expire(h) ==
  /\ fresh[h]
  /\ fresh' = [fresh EXCEPT ![h] = FALSE]
  /\ UNCHANGED <<known, status, runMax, ports, version, target, draft, patch>>

-----------------------------------------------------------------------------
(* The page.  Its table may be ten seconds old, or older when answers       *)
(* overtake each other; a dialog is as old as it likes to be anyway.        *)

\* openEdit
OpenEdit(b, h) ==
  /\ target[b] = NoHost /\ h \in known
  /\ target' = [target EXCEPT ![b] = h]
  /\ LET p == Parse(ports[h])
     IN draft' = [draft EXCEPT ![b] =
                    [status |-> status[h], runMax |-> runMax[h], mode |-> p.mode,
                     start |-> p.start, end |-> p.end, ports |-> p.ports]]
  /\ UNCHANGED <<rows, patch>>

\* The fields of the dialog are filled in.
Edit(b, d) ==
  /\ target[b] # NoHost
  /\ draft' = [draft EXCEPT ![b] = d]
  /\ UNCHANGED <<rows, target, patch>>

\* The dialog is left alone in the state it is opened with next.
Closed(b) ==
  /\ target' = [target EXCEPT ![b] = NoHost]
  /\ draft' = [draft EXCEPT ![b] = CHOOSE d \in Drafts : TRUE]

CloseEdit(b) ==
  /\ target[b] # NoHost
  /\ Closed(b)
  /\ UNCHANGED <<rows, patch>>

\* A save: none, or one for an agent of K.
NoPatch == [phase |-> "free"]
Patches(K) == [phase : {"sent", "ok", "failed"}, tab : Tabs, host : K, set : Settings]

\* handleSave up to its await.  The dialog stays open until the answer, and
\* may be saved again.
HandleSave(b) ==
  /\ target[b] # NoHost /\ Valid(draft[b])
  /\ \E i \in Ids :
       /\ patch[i] = NoPatch /\ \A j \in Ids : patch[j] = NoPatch => i <= j
       /\ patch' = [patch EXCEPT ![i] =
            [phase |-> "sent", tab |-> b, host |-> target[b],
             set |-> [status |-> draft[b].status, runMax |-> draft[b].runMax,
                      ports |-> Serialize(draft[b])]]]
  /\ UNCHANGED <<rows, target, draft>>

\* Seeded: a limit of null is written as it is.
NewLimitNull(h, s) == s.runMax

\* An empty limit is sent as null, which is taken for a field that is not there.
NewLimit(h, s) == IF s.runMax = Cleared THEN runMax[h] ELSE s.runMax

\* handleUpdateAgent: one UPDATE of the fields that are there.
HandleUpdateAgent(i) ==
  /\ patch[i].phase = "sent"
  /\ LET h == patch[i].host  s == patch[i].set
     IN  /\ status' = [status EXCEPT ![h] = s.status]
         /\ runMax' = [runMax EXCEPT ![h] = NewLimit(h, s)]
         /\ ports' = [ports EXCEPT ![h] = s.ports]
  /\ \E ph \in {"ok", "failed"} : patch' = [patch EXCEPT ![i].phase = ph]
  /\ UNCHANGED <<known, version, fresh, target, draft>>

\* The save is lost, or the database refuses it.
FailUpdate(i) ==
  /\ patch[i].phase = "sent"
  /\ patch' = [patch EXCEPT ![i].phase = "failed"]
  /\ UNCHANGED <<rows, target, draft>>

\* The rest of handleSave: whatever dialog the tab has open is closed.
Saved(i) ==
  /\ patch[i].phase = "ok"
  /\ Closed(patch[i].tab)
  /\ patch' = [patch EXCEPT ![i] = NoPatch]
  /\ UNCHANGED rows

\* An error leaves the dialog open.
SaveFailed(i) ==
  /\ patch[i].phase = "failed"
  /\ patch' = [patch EXCEPT ![i] = NoPatch]
  /\ UNCHANGED <<rows, target, draft>>

-----------------------------------------------------------------------------

Init ==
  /\ known = {} /\ status = [h \in Hosts |-> "enabled"] /\ runMax = [h \in Hosts |-> 0]
  /\ ports = [h \in Hosts |-> NoPorts] /\ version = [h \in Hosts |-> Blank]
  /\ fresh = [h \in Hosts |-> FALSE]
  /\ target = [b \in Tabs |-> NoHost]
  /\ draft = [b \in Tabs |-> CHOOSE d \in Drafts : TRUE]
  /\ patch = [i \in Ids |-> NoPatch]

Next ==
  \/ \E h \in Hosts : Expire(h) \/ \E v \in Versions \cup {Blank} : Heartbeat(h, v)
  \/ \E b \in Tabs : \/ CloseEdit(b) \/ HandleSave(b)
                     \/ \E h \in Hosts : OpenEdit(b, h)
                     \/ \E d \in Drafts : Edit(b, d)
  \/ \E i \in Ids : HandleUpdateAgent(i) \/ FailUpdate(i) \/ Saved(i) \/ SaveFailed(i)

Spec == Init /\ [][Next]_vars

-----------------------------------------------------------------------------
(* Properties                                                               *)

TypeOK ==
  /\ known \subseteq Hosts /\ status \in [Hosts -> Statuses]
  /\ runMax \in [Hosts -> Nat]
  /\ ports \in [Hosts -> PortTexts]
  /\ version \in [Hosts -> Versions \cup {Blank}] /\ fresh \in [Hosts -> BOOLEAN]
  /\ target \in [Tabs -> known \cup {NoHost}]
  /\ draft \in [Tabs -> Draft]
  /\ patch \in [Ids -> {NoPatch} \cup Patches(known)]

Suffice(h) == PortCount(Parse(ports[h])) >= runMax[h]

(* The ports of an agent suffice for its limit as long as they are set: a   *)
(* heartbeat that replaces a limit of 0, or a save without a limit, are all *)
(* that may take that away, whatever is saved from two tabs at once or from *)
(* a dialog that was opened long ago (handleSave, handleUpdateAgent,        *)
(* upsertAgent).                                                            *)
PortsSufficeUnlessLifted ==
  [][\A h \in Hosts :
       (ports[h] # NoPorts /\ Suffice(h)) =>
         \/ Suffice(h)'
         \/ runMax[h] = 0 /\ runMax'[h] = Cores
         \/ \E i \in Ids : /\ patch[i].phase = "sent" /\ patch[i].host = h
                          /\ patch[i].set.runMax = Cleared]_vars

(* An agent that is enabled, alive and set up, and whose version the page   *)
(* does not mark as out of date, is one the backend gives matches to,       *)
(* although the page compares it with other agents than the backend does    *)
(* (latestVersion of AgentsPage.tsx, pickAgentPort).                        *)
UnmarkedAgentsAreCandidates ==
  \A h \in Fit : version[h] # Blank /\ ~Marked(h) => h \in Candidates

(* The test of the versions never leaves pickAgentPort without agents: the  *)
(* latest version is that of an agent that fits.  (Its ports may be a list, *)
(* which pickAgentPort then passes over.)                                   *)
LatestLeavesSomebody == Fit # {} => Candidates # {}

=============================================================================
