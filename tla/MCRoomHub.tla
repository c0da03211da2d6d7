----------------------------- MODULE MCRoomHub -----------------------------
(***************************************************************************)
(* The instances of RoomHub for TLC.                                        *)
(***************************************************************************)
EXTENDS RoomHub, TLC

\* Nothing tells the joiners apart, or the connections.
MCSymmetry == Permutations(Joiners) \cup Permutations(Conns)

=============================================================================
