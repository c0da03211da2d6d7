---------------------------- MODULE AgentsProofs ----------------------------
(***************************************************************************)
(* Theorems about the agents, their limits and their versions.             *)
(***************************************************************************)
EXTENDS Agents, TLAPS

-----------------------------------------------------------------------------
(* Types                                                                    *)

LEMMA ParseType == \A t \in PortTexts :
  /\ Parse(t).mode \in Modes /\ Parse(t).start \in Nat
  /\ Parse(t).end \in Nat /\ Parse(t).ports \in SUBSET Nat
BY DEF Parse, PortTexts, NoPorts, Modes

LEMMA SerializeType == \A d \in Draft : Serialize(d) \in PortTexts
BY DEF Serialize, PortTexts, Draft, NoPorts, Modes

\* The fields a dialog is left with.
LEMMA LeftDraft == (CHOOSE d \in Drafts : TRUE) \in Draft
BY AgentsAssumption

LEMMA TypeInit == Init => TypeOK
<1> SUFFICES ASSUME Init PROVE TypeOK
  OBVIOUS
<1>1. "enabled" \in Statuses /\ NoPorts \in PortTexts /\ 0 \in Nat
  BY DEF Statuses, PortTexts
<1>2. draft \in [Tabs -> Draft]
  BY LeftDraft DEF Init
<1>. QED
  BY <1>1, <1>2 DEF Init, TypeOK

LEMMA TypeStep == TypeOK /\ [Next]_vars => TypeOK'
<1> SUFFICES ASSUME TypeOK, [Next]_vars PROVE TypeOK'
  OBVIOUS
<1> USE AgentsAssumption DEF TypeOK
<1>1. ASSUME NEW h \in Hosts, Expire(h) PROVE TypeOK'
  BY <1>1 DEF Expire
<1>2. ASSUME NEW h \in Hosts, NEW v \in Versions \cup {Blank}, Heartbeat(h, v) PROVE TypeOK'
  <2>1. known \subseteq known' /\ known' \subseteq Hosts
    BY <1>2 DEF Heartbeat
  <2>2. status' \in [Hosts -> Statuses] /\ version' \in [Hosts -> Versions \cup {Blank}]
        /\ fresh' \in [Hosts -> BOOLEAN]
    BY <1>2 DEF Heartbeat, Statuses
  <2>3. runMax' \in [Hosts -> Nat]
    BY <1>2 DEF Heartbeat, Lifted
  <2>4. target' \in [Tabs -> known' \cup {NoHost}]
    BY <1>2, <2>1 DEF Heartbeat
  <2>5. Patches(known) \subseteq Patches(known')
    BY <2>1 DEF Patches
  <2>6. UNCHANGED <<ports, draft, patch>>
    BY <1>2 DEF Heartbeat
  <2>. QED
    BY <2>1, <2>2, <2>3, <2>4, <2>5, <2>6
<1>3. ASSUME NEW b \in Tabs, CloseEdit(b) PROVE TypeOK'
  BY <1>3, LeftDraft DEF CloseEdit, Closed, rows
<1>4. ASSUME NEW b \in Tabs, NEW h \in Hosts, OpenEdit(b, h) PROVE TypeOK'
  <2> DEFINE p == Parse(ports[h])
             d == [status |-> status[h], runMax |-> runMax[h], mode |-> p.mode,
                   start |-> p.start, end |-> p.end, ports |-> p.ports]
  <2>1. d \in Draft
    BY ParseType DEF Draft
  <2>. HIDE DEF d
  <2>2. draft' = [draft EXCEPT ![b] = d] /\ target' = [target EXCEPT ![b] = h]
        /\ h \in known /\ UNCHANGED <<rows, patch>>
    BY <1>4 DEF OpenEdit, d
  <2>. QED
    BY <2>1, <2>2 DEF rows
<1>5. ASSUME NEW b \in Tabs, NEW d \in Drafts, Edit(b, d) PROVE TypeOK'
  BY <1>5 DEF Edit, rows
<1>6. ASSUME NEW b \in Tabs, HandleSave(b) PROVE TypeOK'
  <2> DEFINE s == [status |-> draft[b].status, runMax |-> draft[b].runMax,
                   ports |-> Serialize(draft[b])]
             q == [phase |-> "sent", tab |-> b, host |-> target[b], set |-> s]
  <2>1. s \in Settings
    BY SerializeType DEF Settings, Draft
  <2>2. q \in Patches(known)
    BY <1>6, <2>1 DEF HandleSave, Patches
  <2>. HIDE DEF q
  <2>3. PICK i \in Ids : patch' = [patch EXCEPT ![i] = q]
    BY <1>6 DEF HandleSave, q
  <2>4. UNCHANGED <<rows, target, draft>>
    BY <1>6 DEF HandleSave
  <2>. QED
    BY <2>2, <2>3, <2>4 DEF rows
<1>7. ASSUME NEW i \in Ids, NEW ph \in {"sent", "ok", "failed"}, patch[i].phase = "sent",
             patch' = [patch EXCEPT ![i].phase = ph]
      PROVE  patch[i] \in Patches(known) /\ patch' \in [Ids -> {NoPatch} \cup Patches(known)]
  <2>1. patch[i] \in Patches(known)
    BY <1>7 DEF NoPatch
  <2>2. [patch[i] EXCEPT !.phase = ph] \in Patches(known)
    BY <2>1 DEF Patches
  <2>. QED
    BY <1>7, <2>1, <2>2
<1>8. ASSUME NEW i \in Ids, HandleUpdateAgent(i) PROVE TypeOK'
  <2>1. patch[i] \in Patches(known) /\ patch' \in [Ids -> {NoPatch} \cup Patches(known)]
    BY <1>7, <1>8 DEF HandleUpdateAgent
  <2>2. patch[i].host \in Hosts /\ patch[i].set \in Settings
    BY <2>1 DEF Patches
  <2>3. NewLimit(patch[i].host, patch[i].set) \in Nat
    BY <2>2 DEF NewLimit, Settings
  <2>4. /\ status' \in [Hosts -> Statuses] /\ runMax' \in [Hosts -> Nat]
        /\ ports' \in [Hosts -> PortTexts]
    BY <1>8, <2>2, <2>3 DEF HandleUpdateAgent, Settings
  <2>. QED
    BY <1>8, <2>1, <2>4 DEF HandleUpdateAgent
<1>9. ASSUME NEW i \in Ids, FailUpdate(i) PROVE TypeOK'
  BY <1>7, <1>9 DEF FailUpdate, rows
<1>10. ASSUME NEW i \in Ids, Saved(i) PROVE TypeOK'
  <2>1. patch[i].tab \in Tabs
    BY <1>10 DEF Saved, NoPatch, Patches
  <2>. QED
    BY <1>10, <2>1, LeftDraft DEF Saved, Closed, rows
<1>11. ASSUME NEW i \in Ids, SaveFailed(i) PROVE TypeOK'
  BY <1>11 DEF SaveFailed, rows
<1>12. CASE UNCHANGED vars
  BY <1>12 DEF vars
<1>. QED
  BY <1>1, <1>2, <1>3, <1>4, <1>5, <1>6, <1>8, <1>9, <1>10, <1>11, <1>12 DEF Next

(* The rows of the agents, the dialogs and the saves under way have their   *)
(* types: no limit is negative, though an empty one may be typed and sent,  *)
(* and no save is for an agent that has no row.                             *)
THEOREM TypeCorrect == Spec => []TypeOK
BY TypeInit, TypeStep, PTL DEF Spec

-----------------------------------------------------------------------------
(* Versions                                                                 *)

\* The highest of some versions is one of them, and no other is as high.
LEMMA HighestIsHigh ==
  ASSUME NEW V \in SUBSET Versions, V # {}
  PROVE  /\ Highest(V) \in V /\ Highest(V) # Blank
         /\ \A w \in V : ~Higher(w, Highest(V))
         /\ \A v \in V : (\A w \in V : ~Higher(w, v)) => v = Highest(V)
<1>1. Highest(V) = CHOOSE v \in V : \A w \in V : ~Higher(w, v)
  BY DEF Highest
<1>2. \E v \in V : \A w \in V : ~Higher(w, v)
  BY VersionsAreOrdered
<1>3. Highest(V) \in V /\ \A w \in V : ~Higher(w, Highest(V))
  BY <1>1, <1>2
<1>. QED
  BY <1>3, VersionsAreOrdered, AgentsAssumption

LEMMA LatestIsSomebodys == TypeOK => LatestLeavesSomebody
<1> SUFFICES ASSUME TypeOK, Fit # {} PROVE Candidates # {}
  BY DEF LatestLeavesSomebody
<1> DEFINE V == {version[h] : h \in Fit} \ {Blank}
<1>1. V \in SUBSET Versions
  BY DEF TypeOK, Fit
<1>2. CASE V = {}
  BY <1>2 DEF Candidates, BackendLatest, Highest
<1>3. CASE V # {}
  BY <1>1, <1>3, HighestIsHigh DEF Candidates, BackendLatest
<1>. QED
  BY <1>2, <1>3

LEMMA UnmarkedFit == TypeOK => UnmarkedAgentsAreCandidates
<1> SUFFICES ASSUME TypeOK, NEW h \in Fit, version[h] # Blank, ~Marked(h)
             PROVE  h \in Candidates
  BY DEF UnmarkedAgentsAreCandidates
<1> DEFINE P == {version[g] : g \in known} \cap HigherThanBlankJS
           B == {version[g] : g \in Fit} \ {Blank}
<1>1. P \in SUBSET Versions /\ B \in SUBSET Versions /\ B \subseteq P /\ version[h] \in B
  BY VersionsAreOrdered DEF TypeOK, Fit
<1>2. PageLatest = Highest(P) /\ BackendLatest = Highest(B)
  BY DEF PageLatest, BackendLatest
<1>. HIDE DEF P, B
<1>3. version[h] = Highest(P)
  BY <1>1, <1>2, HighestIsHigh DEF Marked
<1>4. \A w \in B : ~Higher(w, version[h])
  BY <1>1, <1>3, HighestIsHigh
<1>5. version[h] = Highest(B)
  BY <1>1, <1>4, HighestIsHigh
<1>. QED
  BY <1>2, <1>5 DEF Candidates

(* The test of the versions leaves pickAgentPort an agent when there was    *)
(* one, for any versions compareVersions puts in an order.                  *)
THEOREM SomebodyIsLeft == Spec => []LatestLeavesSomebody
BY TypeCorrect, LatestIsSomebodys, PTL

(* The mark of the page never misses an agent that the backend passes over  *)
(* for its version, although the two compare with different agents: for any *)
(* number of agents and any versions compareVersions puts in an order.      *)
THEOREM UnmarkedAreCandidates == Spec => []UnmarkedAgentsAreCandidates
BY TypeCorrect, UnmarkedFit, PTL

-----------------------------------------------------------------------------
(* Ports and limits                                                         *)

\* What is read back of a draft that is saved has as many ports.
LEMMA RoundTrip ==
  ASSUME NEW d \in Draft, Valid(d)
  PROVE  PortCount(Parse(Serialize(d))) = PortCount(d)
<1>1. CASE d.mode = "list"
  <2>1. d.ports # {}
    BY <1>1 DEF Valid
  <2>2. Serialize(d) = [mode |-> "list", ports |-> d.ports]
    BY <1>1, <2>1 DEF Serialize
  <2>3. Parse(Serialize(d)) = [mode |-> "list", start |-> 0, end |-> 0, ports |-> d.ports]
    BY <2>2 DEF Parse
  <2>. QED
    BY <1>1, <2>3 DEF PortCount
<1>2. CASE d.mode = "range"
  <2>1. d.start # 0 /\ d.end # 0
    BY <1>2 DEF Valid
  <2>2. Serialize(d) = [mode |-> "range", start |-> d.start, end |-> d.end]
    BY <1>2, <2>1 DEF Serialize
  <2>3. Parse(Serialize(d)) = [mode |-> "range", start |-> d.start, end |-> d.end, ports |-> {}]
    BY <2>2 DEF Parse
  <2>. QED
    BY <1>2, <2>3 DEF PortCount
<1>. QED
  BY <1>1, <1>2 DEF Draft, Modes

\* An agent without a row has no ports, and every save under way has the
\* ports for its limit, or no limit.
SavesOK ==
  /\ \A h \in Hosts \ known : ports[h] = NoPorts
  /\ \A i \in Ids : patch[i] # NoPatch =>
       \/ patch[i].set.runMax = Cleared
       \/ PortCount(Parse(patch[i].set.ports)) >= patch[i].set.runMax

LEMMA SavesStep == TypeOK /\ SavesOK /\ [Next]_vars => SavesOK'
<1> SUFFICES ASSUME TypeOK, SavesOK, [Next]_vars PROVE SavesOK'
  OBVIOUS
<1> USE DEF SavesOK
<1>1. ASSUME NEW h \in Hosts, NEW v \in Versions \cup {Blank}, Heartbeat(h, v)
      PROVE  SavesOK'
  BY <1>1 DEF Heartbeat
<1>2. ASSUME NEW h \in Hosts, Expire(h) PROVE SavesOK'
  BY <1>2 DEF Expire
<1>3. ASSUME NEW b \in Tabs,
             \/ CloseEdit(b) \/ \E h \in Hosts : OpenEdit(b, h)
             \/ \E d \in Drafts : Edit(b, d)
      PROVE  SavesOK'
  BY <1>3 DEF CloseEdit, OpenEdit, Edit, rows
<1>4. ASSUME NEW b \in Tabs, HandleSave(b) PROVE SavesOK'
  <2>1. draft[b] \in Draft /\ Valid(draft[b])
    BY <1>4 DEF HandleSave, TypeOK
  <2>2. \/ draft[b].runMax = Cleared
        \/ PortCount(Parse(Serialize(draft[b]))) >= draft[b].runMax
    <3>1. draft[b].runMax # Cleared => PortCount(draft[b]) >= draft[b].runMax
      BY <2>1 DEF Valid
    <3>. QED
      BY <2>1, <3>1, RoundTrip
  <2> DEFINE q == [phase |-> "sent", tab |-> b, host |-> target[b],
                   set |-> [status |-> draft[b].status, runMax |-> draft[b].runMax,
                            ports |-> Serialize(draft[b])]]
  <2>3. q.set.runMax = draft[b].runMax /\ q.set.ports = Serialize(draft[b])
    OBVIOUS
  <2>. HIDE DEF q
  <2>4. PICK i \in Ids : patch' = [patch EXCEPT ![i] = q]
    BY <1>4 DEF HandleSave, q
  <2>5. UNCHANGED <<known, ports>>
    BY <1>4 DEF HandleSave, rows
  <2>. QED
    <3>1. \A j \in Ids : patch'[j] = IF j = i THEN q ELSE patch[j]
      BY <2>4 DEF TypeOK
    <3>. QED
      BY <2>2, <2>3, <2>5, <3>1
<1>5. ASSUME NEW i \in Ids, NEW ph, patch' = [patch EXCEPT ![i].phase = ph],
             patch[i].phase = "sent", NEW j \in Ids, patch'[j] # NoPatch
      PROVE  patch[j] # NoPatch /\ patch'[j].set = patch[j].set
  BY <1>5 DEF TypeOK, Patches, NoPatch
<1>6. ASSUME NEW i \in Ids, HandleUpdateAgent(i) PROVE SavesOK'
  <2>1. patch[i].host \in known
    BY <1>6 DEF HandleUpdateAgent, TypeOK, Patches, NoPatch
  <2>2. \A h \in Hosts \ known' : ports'[h] = NoPorts
    BY <1>6, <2>1 DEF HandleUpdateAgent, TypeOK
  <2>3. PICK ph \in {"ok", "failed"} : patch' = [patch EXCEPT ![i].phase = ph]
    BY <1>6 DEF HandleUpdateAgent
  <2>4. \A j \in Ids : patch'[j] # NoPatch => patch[j] # NoPatch /\ patch'[j].set = patch[j].set
    BY <1>5, <1>6, <2>3 DEF HandleUpdateAgent
  <2>. QED
    BY <2>2, <2>4
<1>7. ASSUME NEW i \in Ids, FailUpdate(i) PROVE SavesOK'
  BY <1>5, <1>7 DEF FailUpdate, rows
<1>8. ASSUME NEW i \in Ids, Saved(i) \/ SaveFailed(i) PROVE SavesOK'
  BY <1>8 DEF Saved, SaveFailed, rows, TypeOK
<1>9. CASE UNCHANGED vars
  BY <1>9 DEF vars
<1>. QED
  BY <1>1, <1>2, <1>3, <1>4, <1>6, <1>7, <1>8, <1>9 DEF Next

\* The action of PortsSufficeUnlessLifted.
LEMMA SufficeStep ==
  ASSUME TypeOK, SavesOK, [Next]_vars, NEW h \in Hosts, ports[h] # NoPorts, Suffice(h)
  PROVE  \/ Suffice(h)'
         \/ runMax[h] = 0 /\ runMax'[h] = Cores
         \/ \E i \in Ids : /\ patch[i].phase = "sent" /\ patch[i].host = h
                           /\ patch[i].set.runMax = Cleared
<1>0. h \in known
  BY DEF SavesOK
<1>1. CASE ports'[h] = ports[h] /\ runMax'[h] = runMax[h]
  BY <1>1 DEF Suffice
<1>2. ASSUME NEW g \in Hosts, NEW v \in Versions \cup {Blank}, Heartbeat(g, v)
      PROVE  \/ ports'[h] = ports[h] /\ runMax'[h] = runMax[h]
             \/ runMax[h] = 0 /\ runMax'[h] = Cores
  BY <1>0, <1>2 DEF Heartbeat, Lifted, TypeOK
<1>3. ASSUME NEW i \in Ids, HandleUpdateAgent(i)
      PROVE  \/ ports'[h] = ports[h] /\ runMax'[h] = runMax[h]
             \/ patch[i].host = h /\ patch[i].set.runMax = Cleared
             \/ Suffice(h)'
  <2>1. CASE patch[i].host # h
    BY <1>3, <2>1 DEF HandleUpdateAgent, TypeOK
  <2>2. CASE patch[i].host = h /\ patch[i].set.runMax # Cleared
    <3>1. runMax'[h] = patch[i].set.runMax /\ ports'[h] = patch[i].set.ports
      BY <1>3, <2>2 DEF HandleUpdateAgent, NewLimit, TypeOK
    <3>2. PortCount(Parse(patch[i].set.ports)) >= patch[i].set.runMax
      BY <1>3, <2>2 DEF SavesOK, HandleUpdateAgent, NoPatch
    <3>. QED
      BY <3>1, <3>2 DEF Suffice
  <2>. QED
    BY <2>1, <2>2
<1>4. ASSUME NEW b \in Tabs, NEW g \in Hosts, NEW d \in Drafts,
             CloseEdit(b) \/ OpenEdit(b, g) \/ Edit(b, d) \/ HandleSave(b)
      PROVE  UNCHANGED <<ports, runMax>>
  BY <1>4 DEF CloseEdit, OpenEdit, Edit, HandleSave, rows
<1>5. ASSUME NEW i \in Ids, FailUpdate(i) \/ Saved(i) \/ SaveFailed(i)
      PROVE  UNCHANGED <<ports, runMax>>
  BY <1>5 DEF FailUpdate, Saved, SaveFailed, rows
<1>6. ASSUME NEW g \in Hosts, Expire(g) PROVE UNCHANGED <<ports, runMax>>
  BY <1>6 DEF Expire
<1>7. CASE UNCHANGED vars
  BY <1>1, <1>7 DEF vars
<1>8. ASSUME NEW i \in Ids, HandleUpdateAgent(i) PROVE patch[i].phase = "sent"
  BY <1>8 DEF HandleUpdateAgent
<1>. QED
  BY <1>1, <1>2, <1>3, <1>4, <1>5, <1>6, <1>7, <1>8, AgentsAssumption DEF Next

(* Ports that suffice for the limit of an agent go on to suffice, whatever  *)
(* dialogs are opened, filled in and saved in whatever tabs, unless a       *)
(* heartbeat replaces a limit of 0 or a save has no limit.                  *)
THEOREM PortsSuffice == Spec => PortsSufficeUnlessLifted
<1> DEFINE A == \A h \in Hosts :
                  (ports[h] # NoPorts /\ Suffice(h)) =>
                     \/ Suffice(h)'
                     \/ runMax[h] = 0 /\ runMax'[h] = Cores
                     \/ \E i \in Ids : /\ patch[i].phase = "sent" /\ patch[i].host = h
                                      /\ patch[i].set.runMax = Cleared
<1>1. Init => SavesOK
  BY DEF Init, SavesOK
<1>2. TypeOK /\ SavesOK /\ [Next]_vars => [A]_vars
  BY SufficeStep
<1>. HIDE DEF A
<1>3. Spec => [][A]_vars
  BY <1>1, <1>2, TypeCorrect, SavesStep, PTL DEF Spec
<1>. QED
  BY <1>3 DEF PortsSufficeUnlessLifted, A

=============================================================================
