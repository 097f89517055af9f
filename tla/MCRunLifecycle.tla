--------------------------- MODULE MCRunLifecycle ---------------------------
(***************************************************************************)
(* Instances of RunLifecycle for TLC: an auto Run whose Host may delegate  *)
(* tasks 2 and 3, and a direct Run with task 4. Tasks 2 and 3 run on one   *)
(* agent, so that a resume has to tell their approvals apart by the agent  *)
(* alone. The approvals a run of TLC adds decide which half it explores:   *)
(*   AutoApprovals    one approval of each child of the auto Run;          *)
(*   BatchApprovals   a batch of two on one child, one approval of another; *)
(*   DirectApprovals  two approvals of the direct Run.                     *)
(* The other Run then only supersedes, or is cancelled, or is interrupted. *)
(***************************************************************************)
EXTENDS RunLifecycle

MCRuns == {"auto1", "direct1"}
MCTasks == {1, 2, 3, 4}
MCAgents == {"host", "k8s", "solo"}
MCMode == [r \in Runs |-> IF r = "auto1" THEN "auto" ELSE "direct"]
MCRunOf == [t \in Tasks |-> IF t = 4 THEN "direct1" ELSE "auto1"]
MCAgentOf == [t \in Tasks |->
  IF t = 1 THEN "host" ELSE IF t = 4 THEN "solo" ELSE "k8s"]
MCRoot == [r \in Runs |-> IF r = "auto1" THEN 1 ELSE 4]
MCMutations == {2}

\* The auto Run alone.
SoloRuns == {"auto1"}
SoloTasks == {1, 2, 3}
\* ... with a task left for a later round.
ThreeChildren == {1, 2, 3, 5}

AutoApprovals == {"a1", "a2"}
AutoTaskOf == [a \in AutoApprovals |-> IF a = "a1" THEN 2 ELSE 3]

\* An agent for each child, two approvals that follow each other on task 3, and
\* one of task 2.
BatchAgents == {"host", "k8s", "security"}
BatchAgentOf == [t \in Tasks |->
  IF t = 1 THEN "host" ELSE IF t = 2 THEN "security" ELSE "k8s"]
BatchApprovals == {"a1", "b1", "b2"}
BatchTaskOf == [a \in BatchApprovals |-> IF a = "a1" THEN 2 ELSE 3]

DirectApprovals == {"d1", "d2"}
DirectTaskOf == [a \in DirectApprovals |-> 4]
=============================================================================
