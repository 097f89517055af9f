----------------------------- MODULE MCWorkspace -----------------------------
(***************************************************************************)
(* An instance of Workspace for TLC: one saved conversation and one to be  *)
(* started, two requests on their way at a time. The requests' slots are   *)
(* interchangeable.                                                        *)
(***************************************************************************)
EXTENDS Workspace

MCConversations == {"c1", "c2"}
MCSaved == {"c1"}
CONSTANTS s1, s2
MCSlots == {s1, s2}
MCSymmetry == Permutations(MCSlots)
=============================================================================
