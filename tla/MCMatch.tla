------------------------------ MODULE MCMatch ------------------------------
(***************************************************************************)
(* Instances of Match for TLC: the players of the small servers the runs   *)
(* check.                                                                   *)
(***************************************************************************)
EXTENDS MatchImplementsLifecycle, TLC

CONSTANTS a, b, d, bot1, bot2

\* The owners of the two slots in match mode.
MCSteamId == [s \in Slots |-> IF s = 0 THEN a ELSE b]

\* Without match mode nothing tells the players apart, and nothing ever tells
\* the bots apart.
MCSymmetry == Permutations(Users) \cup Permutations(Bots)
MCBotSymmetry == Permutations(Bots)

=============================================================================
