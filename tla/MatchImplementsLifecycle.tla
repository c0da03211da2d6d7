---------------------- MODULE MatchImplementsLifecycle ----------------------
(***************************************************************************)
(* The refinement mappings from the match plugin to MatchLifecycle, and    *)
(* from the plugin of a match container to MatchGame.                      *)
(***************************************************************************)
EXTENDS Match

\* The round in progress is not played; it is from its end on, although
\* roundNum is only incremented by the task that swaps the sides.
RoundsPlayed ==
  IF ~Live THEN 0
  ELSE IF roundTasks \cap {"swap", "announce"} = {} THEN roundNum - 1
  ELSE roundNum

Phase ==
  IF ~matchActive THEN "idle"
  ELSE IF warmupActive THEN "warmup"
  ELSE IF "announce" \in roundTasks THEN "over" ELSE "live"

Lifecycle == INSTANCE MatchLifecycle
               WITH phase <- Phase, played <- RoundsPlayed, score <- wins

\* A server where matches are started by players or by the container (no bot
\* practice) warms up, plays, decides and ends every match in this order:
\* no round is scored after the deciding one, none is scored in the warm-up,
\* and a decided match can only be announced or cancelled.
LifecycleSpec == Lifecycle!Spec

\* The match of a container has the id 1.
Game == INSTANCE MatchGame
          WITH starts <- starts[1], ends <- ends[1], rounds <- rounds[1]

\* What a match container reports is what the programs around it expect of a
\* game: its start once, then its rounds, then its end, with drops, stops and
\* tasks that are left over in any order.
GameSpec == Game!Spec

=============================================================================
