------------------------------ MODULE MCAgents ------------------------------
(***************************************************************************)
(* The instance of Agents for TLC.                                          *)
(***************************************************************************)
EXTENDS Agents, TLC

CONSTANTS V8, V10, Dev

MCVersions == {V8, V10, Dev}

\* "0.1.8", "0.1.10" and "dev"; compared as text, "0.1.10" is the smallest.
MCSegments == V8 :> <<0, 1, 8>> @@ V10 :> <<0, 1, 10>> @@ Dev :> <<Word>>
MCText     == V10 :> 1 @@ V8 :> 2 @@ Dev :> 3

Typed(s, n, m, a, z, P) ==
  [status |-> s, runMax |-> n, mode |-> m, start |-> a, end |-> z, ports |-> P]

\* Every test of handleSave has a draft that fails it.
MCDrafts ==
  {Typed("enabled", 2, "range", 1, 2, {}),     Typed("enabled", 0, "list", 0, 0, {1}),
   Typed("disabled", 1, "list", 0, 0, {1}),    Typed("enabled", Cleared, "list", 0, 0, {1}),
   Typed("enabled", 2, "list", 0, 0, {1}),     Typed("enabled", 1, "range", 2, 2, {}),
   Typed("enabled", 0, "range", 1, 0, {})}

\* Nothing tells the agents apart.
MCSymmetry == Permutations(Hosts)

=============================================================================
