--------------------------- MODULE MCMatchControl ---------------------------
(***************************************************************************)
(* The instance of MatchControl for TLC.                                    *)
(***************************************************************************)
EXTENDS MatchControl, TLC

\* Nothing tells the matches apart, and nothing the ports.
MCSymmetry == Permutations(Matches) \cup Permutations(Ports)

=============================================================================
