------------------------------ MODULE MCRunTrace ------------------------------
(***************************************************************************)
(* An instance of RunTrace for TLC. An auto Run whose Host delegates t1,   *)
(* t2 or both in one round: the agent of t1 makes a batch of two writes    *)
(* (approval a1, then a2), the agent of t2 one call that needs an approval *)
(* (c1), so that two approvals of one round may be open. A direct Run has  *)
(* a batch of two writes at its root (b1, then b2).                        *)
(***************************************************************************)
EXTENDS RunTrace

MCTasks == {"root", "t1", "t2"}
MCTools == {"w1", "w2", "x1", "d1", "d2"}
MCToolTask == [x \in Tools |->
  CASE x \in {"d1", "d2"} -> "root" [] x = "x1" -> "t2" [] OTHER -> "t1"]
MCApprovals == {"a1", "a2", "c1", "b1", "b2"}
MCApprovalTool == [a \in Approvals |->
  CASE a = "a1" -> "w1" [] a = "a2" -> "w2" [] a = "c1" -> "x1"
    [] a = "b1" -> "d1" [] OTHER -> "d2"]
MCRounds == {1, 2}
MCDecisions == {<<"t1">>, <<"t2">>, <<"t1", "t2">>}
=============================================================================
