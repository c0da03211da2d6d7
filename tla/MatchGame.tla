------------------------------ MODULE MatchGame ------------------------------
(***************************************************************************)
(* What the programs around a match container rely on: what its plugin     *)
(* reports of the match.  It is reported to start once, its rounds         *)
(* afterwards, and none after its end.  The end may be reported again.     *)
(* Nothing says that the match starts, or that it ends.                    *)
(***************************************************************************)
EXTENDS Naturals

VARIABLES
  starts,  \* reports of the start
  ends,    \* reports of the end, 2 for more than one
  rounds   \* the rounds reported

vars == <<starts, ends, rounds>>

Init == starts = 0 /\ ends = 0 /\ rounds = {}

Start ==
  /\ starts = 0 /\ ends = 0
  /\ starts' = 1
  /\ UNCHANGED <<ends, rounds>>

Round ==
  /\ starts = 1 /\ ends = 0
  /\ rounds \subseteq rounds'
  /\ UNCHANGED <<starts, ends>>

End ==
  /\ starts = 1
  /\ ends' = IF ends = 0 THEN 1 ELSE 2
  /\ UNCHANGED <<starts, rounds>>

Next == Start \/ Round \/ End

Spec == Init /\ [][Next]_vars

=============================================================================
