----------------------------- MODULE MCConsole -----------------------------
(***************************************************************************)
(* A small console: two agents, one of which a search finds, two models    *)
(* and a key, four commands of which three are offered at a time, and      *)
(* events of two conversations. The requests' slots are interchangeable.   *)
(***************************************************************************)
EXTENDS Console

CONSTANTS auto, direct, run, s1, s2

MCSlots == {s1, s2}
MCSymmetry == Permutations(MCSlots)

MCRunsOf == (auto :> {run}) @@ (direct :> {})

MCThings == <<"agent", "talk">>
MCStaticCommands == <<"dashboard", "new">>
MCSourceOf == [agent |-> "agents", talk |-> "conversations"]
MCMatch == [
  k |-> [dashboard |-> "keyword", new |-> "none", agent |-> "inside", talk |-> "title"],
  x |-> [dashboard |-> "none", new |-> "none", agent |-> "none", talk |-> "start"]]
=============================================================================
