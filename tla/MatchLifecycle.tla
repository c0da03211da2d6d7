--------------------------- MODULE MatchLifecycle ---------------------------
(***************************************************************************)
(* What the match plugin promises about one server, without players,       *)
(* timers or reports: a match is warmed up, played round by round until it *)
(* is decided, and only then announced, unless it is cancelled first.      *)
(***************************************************************************)
EXTENDS Integers

CONSTANTS TotalRounds, WinThreshold

VARIABLES
  phase,   \* "idle", "warmup", "live", or "over": decided, not yet announced
  played,  \* rounds that ended in the match
  score    \* rounds won by each slot

vars == <<phase, played, score>>

NoScore == [s \in {0, 1} |-> 0]
Decided(n, sc) ==
  n = TotalRounds \/ \E s \in {0, 1} : sc[s] = WinThreshold

Init == phase = "idle" /\ played = 0 /\ score = NoScore

WarmUp ==
  /\ phase = "idle" /\ phase' = "warmup"
  /\ UNCHANGED <<played, score>>

KickOff ==
  /\ phase = "warmup" /\ phase' = "live"
  /\ UNCHANGED <<played, score>>

\* A round goes to slot w, or to nobody (w = 2).
Play(w) ==
  /\ phase = "live"
  /\ played' = played + 1
  /\ score' = [s \in {0, 1} |-> score[s] + (IF s = w THEN 1 ELSE 0)]
  /\ phase' = IF Decided(played', score') THEN "over" ELSE "live"

\* Announced when it is over, or cancelled before that.
Finish ==
  /\ phase # "idle" /\ phase' = "idle"
  /\ played' = 0 /\ score' = NoScore

Next == WarmUp \/ KickOff \/ (\E w \in 0..2 : Play(w)) \/ Finish

Spec == Init /\ [][Next]_vars

=============================================================================
