----------------------------- MODULE RunLifecycle -----------------------------
(***************************************************************************)
(* The life of a Run in the backend: the producer task that drives a Run   *)
(* (RunService.stream), the delegated executions it starts, the approvals  *)
(* those executions raise, the user's cancel and decide requests, the      *)
(* background job that continues a Run after a decision, a new message     *)
(* that supersedes paused writes, and a restart of the backend.            *)
(*                                                                         *)
(* The backend is one asyncio process: the code between two awaits is one  *)
(* step here, and every await is a place where another action may run.     *)
(* All Runs of an instance belong to one conversation.                     *)
(***************************************************************************)
EXTENDS Naturals, Sequences, FiniteSets

CONSTANTS
  Runs,        \* Run ids
  Tasks,       \* task ids; naturals, in the order in which ids sort
  Approvals,   \* approval ids
  Agents,      \* agent ids, the Host included
  Mode,        \* Mode[r]: "auto" or "direct"
  RunOf,       \* RunOf[t]: the Run a task belongs to
  AgentOf,     \* AgentOf[t]: the agent a task is assigned to
  TaskOf,      \* TaskOf[a]: the task whose write call approval a gates
  Root,        \* Root[r]: the root task of a Run
  Mutations,   \* the tasks whose workflow_role is "mutation"
  NoTask,      \* stands for "no task picked"
  MaxCrashes   \* bound: how often the backend restarts

\* What may be delegated to an agent: the root itself in a direct Run, the
\* children of the root in an auto Run.
Delegable(r) ==
  IF Mode[r] = "direct" THEN {Root[r]}
  ELSE {t \in Tasks : RunOf[t] = r} \ {Root[r]}

ASSUME ConstantsOK ==
  /\ Tasks \subseteq Nat
  /\ Mode \in [Runs -> {"auto", "direct"}]
  /\ RunOf \in [Tasks -> Runs]
  /\ AgentOf \in [Tasks -> Agents]
  /\ TaskOf \in [Approvals -> Tasks]
  /\ Root \in [Runs -> Tasks]
  /\ Runs \cap Approvals = {}
  /\ NoTask \notin Tasks
  /\ \A r \in Runs : RunOf[Root[r]] = r
  /\ \A a \in Approvals : TaskOf[a] \in Delegable(RunOf[TaskOf[a]])
  /\ \A r \in Runs : Mode[r] = "auto" =>
       \A t \in Delegable(r) : AgentOf[t] # AgentOf[Root[r]]
  /\ MaxCrashes \in Nat

(***************************************************************************)
(* status, task, approval, evaluated and outcome are rows of the database; *)
(* driver, round, failed, result and paused live in the process and are    *)
(* lost by a restart; exec is what the remote agents do; executed and      *)
(* verdicts count deliveries and decisions and guide no step.              *)
(***************************************************************************)
VARIABLES
  status,     \* status[r]: the Run's status column
  task,       \* task[t]: the status in the task's stored data
  approval,   \* approval[a]: the approval's status
  evaluated,  \* the tasks with a task.evaluated event in the Run's log
  outcome,    \* outcome[r]: the terminal events of the Run's log, in order
  driver,     \* driver[d]: where the producer of Run d, or the job of approval d, is
  round,      \* round[d]: the tasks driver d delegated and waits for
  failed,     \* the drivers that have seen a task fail
  result,     \* result[a]: what the agent answered to the decision on a
  paused,     \* paused[a]: the task the resume of a picked as its own
  exec,       \* exec[t]: the delegated execution of t on its agent
  executed,   \* executed[a]: how often a decision on a reached the agent
  verdicts,   \* verdicts[a]: the approval.decided events of a in the log
  crashes     \* restarts so far

vars == <<status, task, approval, evaluated, outcome, driver, round, failed,
          result, paused, exec, executed, verdicts, crashes>>

Terminal == {"completed", "partial", "evidence_insufficient", "failed",
             "cancelled", "interrupted"}
RunStatus == {"none", "running", "approval_required"} \cup Terminal
TaskStatus == {"none", "working", "approval_required", "completed", "failed",
               "blocked", "cancelled", "interrupted"}
ApprovalStatus == {"unused", "pending", "approved", "rejected"}
ExecStatus == {"none", "running", "approval", "sufficient", "insufficient",
               "failed", "lost"}
Results == {"none", "completed", "failed", "other", "followup"}

Drivers == Runs \cup Approvals
ResumeStates == {"evaluating", "deciding", "delegating"}
DriverStates == {"idle", "claimed", "executing", "returned", "ended"} \cup ResumeStates

ApRun(a) == RunOf[TaskOf[a]]
DriverRun(d) == IF d \in Runs THEN d ELSE ApRun(d)
Children(r) == {t \in Tasks : RunOf[t] = r}

-----------------------------------------------------------------------------
(***************************************************************************)
(* Helpers on the rows.                                                    *)
(***************************************************************************)
WithTasks(S, v) == [t \in Tasks |-> IF t \in S THEN v ELSE task[t]]

HasPending(r) == \E a \in Approvals : approval[a] = "pending" /\ ApRun(a) = r

\* _TERMINAL_RUN_STATUSES is also what cancel and recovery compare a task's
\* status with, so a blocked task counts as unfinished.
OpenTasks(r) == {t \in Children(r) : task[t] \notin Terminal \cup {"none"}}

\* Mutant of MayWrite: the producer does not look at the Run between events.
MayWriteAlways(d) == TRUE

\* A producer drops its candidate event and returns when its Run is cancelled.
\* The loop that resumes a Run after an approval makes no such check.
MayWrite(d) == d \in Runs => status[d] # "cancelled"

\* Mutant of FinalStatus: the stream's own word goes into the status column.
FinalStatusRaw(d, how, evals, hasFailed) == how

\* The status a driver writes when its host stream ends in the way `how`:
\* "complete", "stop", "error" or "awaiting" (an approval was requested).
\* The producer lets a failed task win over a requested approval; the resume
\* of a Run lets the approval win.
FinalStatus(d, how, evals, hasFailed) ==
  LET graded(v) == \E t \in evals : RunOf[t] = DriverRun(d) /\ exec[t] = v
  IN IF how = "awaiting" /\ (d \in Approvals \/ ~hasFailed) THEN "approval_required"
     ELSE IF how = "stop" /\ graded("insufficient") /\ ~graded("failed")
     THEN "evidence_insufficient"
     ELSE IF how \in {"stop", "error"} \/ hasFailed THEN "failed"
     ELSE IF graded("insufficient") THEN "partial" ELSE "completed"

\* The status left on the root task. The resume of a Run persists its terminal
\* event through _apply_task_event, which maps every event that is not about a
\* task to "working" and so overwrites the root's own terminal status.
RootStatus(d, final) ==
  IF final = "approval_required" THEN "approval_required"
  ELSE IF d \in Approvals THEN "working"
  ELSE IF final \in {"completed", "partial"} THEN "completed" ELSE "failed"

\* Mutant of Finish: the resume of a Run writes its status but no terminal event.
FinishUnlogged(d, how, tasks, evals, hasFailed) ==
  LET r == DriverRun(d)
      final == FinalStatus(d, how, evals, hasFailed)
  IN /\ status' = [status EXCEPT ![r] = final]
     /\ task' = [tasks EXCEPT ![Root[r]] = RootStatus(d, final)]
     /\ outcome' = IF final = "approval_required" \/ d \in Approvals THEN outcome
                   ELSE [outcome EXCEPT ![r] = Append(@, final)]
     /\ driver' = [driver EXCEPT ![d] = "ended"]

\* The last step of a driver: status, root task and terminal event together.
Finish(d, how, tasks, evals, hasFailed) ==
  LET r == DriverRun(d)
      final == FinalStatus(d, how, evals, hasFailed)
  IN /\ status' = [status EXCEPT ![r] = final]
     /\ task' = [tasks EXCEPT ![Root[r]] = RootStatus(d, final)]
     /\ outcome' = IF final = "approval_required" THEN outcome
                   ELSE [outcome EXCEPT ![r] = Append(@, final)]
     /\ driver' = [driver EXCEPT ![d] = "ended"]

Active(d) == driver[d] \notin {"idle", "ended"}

\* Mutants of LockFree: no lock, and a lock that a job asks for before its
\* agent has answered, so that two jobs of a Run wait for each other.
LockIgnored(a) == TRUE
LockOfEveryJob(a) ==
  \A b \in Approvals \ {a} : ApRun(b) = ApRun(a) => ~Active(b)

\* The condition lock of a Run that resume_after_approval holds from its first
\* to its last line.
LockFree(a) ==
  \A b \in Approvals : ApRun(b) = ApRun(a) => driver[b] \notin ResumeStates

-----------------------------------------------------------------------------
Init ==
  /\ status = [r \in Runs |-> "none"]
  /\ task = [t \in Tasks |-> "none"]
  /\ approval = [a \in Approvals |-> "unused"]
  /\ evaluated = {}
  /\ outcome = [r \in Runs |-> <<>>]
  /\ driver = [d \in Drivers |-> "idle"]
  /\ round = [d \in Drivers |-> {}]
  /\ failed = {}
  /\ result = [a \in Approvals |-> "none"]
  /\ paused = [a \in Approvals |-> NoTask]
  /\ exec = [t \in Tasks |-> "none"]
  /\ executed = [a \in Approvals |-> 0]
  /\ verdicts = [a \in Approvals |-> 0]
  /\ crashes = 0

(***************************************************************************)
(* The producer.                                                           *)
(***************************************************************************)

\* Mutant of Superseded: the UPDATE that rejects approvals lacks its status filter.
SupersededAnyStatus(a) == HasPending(ApRun(a))

\* The approvals that supersede_pending_approvals rejects.
Superseded(a) == approval[a] = "pending"

\* A new message. Before its Run is created, every Run of the conversation
\* that waits for a decision is cancelled and its approvals are rejected; the
\* update of the tasks touches a column that list_tasks does not read.
StartRun(r) ==
  /\ driver[r] = "idle"
  /\ approval' = [a \in Approvals |->
       IF Superseded(a) THEN "rejected" ELSE approval[a]]
  /\ status' = [q \in Runs |-> IF q = r THEN "running"
                                ELSE IF HasPending(q) THEN "cancelled"
                                ELSE status[q]]
  /\ task' = [task EXCEPT ![Root[r]] = "working"]
  /\ IF Mode[r] = "auto"
     THEN /\ driver' = [driver EXCEPT ![r] = "deciding"]
          /\ UNCHANGED <<round, exec>>
     ELSE /\ driver' = [driver EXCEPT ![r] = "delegating"]
          /\ round' = [round EXCEPT ![r] = {Root[r]}]
          /\ exec' = [exec EXCEPT ![Root[r]] = "running"]
  /\ UNCHANGED <<evaluated, outcome, failed, result, paused, executed, verdicts,
                 crashes>>

\* The Host decides to delegate: task rows, then one execution per task. The
\* same loop serves the producer and the resume of a Run.
HostDelegates(d, S) ==
  /\ driver[d] = "deciding"
  /\ MayWrite(d)
  /\ S # {}
  /\ \A t \in S : exec[t] = "none"
  /\ exec' = [t \in Tasks |-> IF t \in S THEN "running" ELSE exec[t]]
  /\ task' = WithTasks(S \cup {Root[DriverRun(d)]}, "working")
  /\ round' = [round EXCEPT ![d] = S]
  /\ driver' = [driver EXCEPT ![d] = "delegating"]
  /\ UNCHANGED <<status, approval, evaluated, outcome, failed, result, paused,
                 executed, verdicts, crashes>>

\* The Host answers, stops without an answer, or its decision cannot be used.
HostStops(d, how) ==
  /\ driver[d] = "deciding"
  /\ MayWrite(d)
  /\ Finish(d, how, task, evaluated, d \in failed)
  /\ UNCHANGED <<approval, evaluated, round, failed, result, paused, exec,
                 executed, verdicts, crashes>>

\* Mutant of Gathered: an execution that waits for an approval never counts as
\* finished.
GatheredWithAnswer(d) ==
  \A t \in round[d] : exec[t] \notin {"running", "approval"}

\* gather() is done when no execution of the round is still going on.
Gathered(d) == \A t \in round[d] : exec[t] # "running"

\* gather() returned: the results of the whole round are persisted in one go,
\* and when one of them asks for an approval the loop ends in the same step.
RoundEnds(d) ==
  LET S == round[d]
      observed == [t \in Tasks |->
        IF t \notin S THEN task[t]
        ELSE IF exec[t] = "approval" THEN "approval_required"
        ELSE IF exec[t] = "failed" THEN "failed" ELSE "completed"]
      hasFailed == d \in failed \/ \E t \in S : exec[t] = "failed"
  IN /\ driver[d] = "delegating"
     /\ Mode[DriverRun(d)] = "auto"
     /\ MayWrite(d)
     /\ Gathered(d)
     /\ evaluated' = evaluated \cup S
     /\ failed' = IF hasFailed THEN failed \cup {d} ELSE failed
     /\ round' = [round EXCEPT ![d] = {}]
     /\ IF \E t \in S : exec[t] = "approval"
        THEN Finish(d, "awaiting", observed, evaluated \cup S, hasFailed)
        ELSE /\ task' = [observed EXCEPT ![Root[DriverRun(d)]] = "working"]
             /\ driver' = [driver EXCEPT ![d] = "deciding"]
             /\ UNCHANGED <<status, outcome>>
     /\ UNCHANGED <<approval, result, paused, exec, executed, verdicts, crashes>>

\* The producer finds its Run cancelled and returns.
ProducerNoticesCancel(r) ==
  /\ Active(r)
  /\ ~MayWrite(r)
  /\ driver' = [driver EXCEPT ![r] = "ended"]
  /\ UNCHANGED <<status, task, approval, evaluated, outcome, round, failed, result,
                 paused, exec, executed, verdicts, crashes>>

\* The agent of a direct Run asks for an approval. Its stream is read by the
\* producer itself.
DirectAsks(r, a) ==
  /\ Mode[r] = "direct"
  /\ driver[r] = "delegating"
  /\ MayWrite(r)
  /\ exec[Root[r]] = "running"
  /\ approval[a] = "unused"
  /\ TaskOf[a] = Root[r]
  /\ approval' = [approval EXCEPT ![a] = "pending"]
  /\ status' = [status EXCEPT ![r] = "approval_required"]
  /\ task' = [task EXCEPT ![Root[r]] = "approval_required"]
  /\ exec' = [exec EXCEPT ![Root[r]] = "approval"]
  /\ UNCHANGED <<evaluated, outcome, driver, round, failed, result, paused,
                 executed, verdicts, crashes>>

\* The stream of a direct Run ends, with an answer or in an error.
DirectEnds(r, how) ==
  LET asked == exec[Root[r]] = "approval" /\ how = "complete"
      grade == IF how = "complete" THEN "sufficient" ELSE "failed"
  IN /\ Mode[r] = "direct"
     /\ driver[r] = "delegating"
     /\ MayWrite(r)
     /\ Finish(r, IF asked THEN "awaiting" ELSE how, task, evaluated, FALSE)
     /\ round' = [round EXCEPT ![r] = {}]
     /\ exec' = IF asked THEN exec ELSE [exec EXCEPT ![Root[r]] = grade]
     /\ UNCHANGED <<approval, evaluated, failed, result, paused, executed, verdicts,
                    crashes>>

(***************************************************************************)
(* The executions of an auto Run. They run beside the loop that started    *)
(* them and go on when that loop is cancelled.                             *)
(***************************************************************************)
RemoteReturns(t, v) ==
  /\ Mode[RunOf[t]] = "auto"
  /\ exec[t] = "running"
  /\ exec' = [exec EXCEPT ![t] = v]
  /\ UNCHANGED <<status, task, approval, evaluated, outcome, driver, round, failed,
                 result, paused, executed, verdicts, crashes>>

\* The gateway records the approval and pauses the Run while the other
\* executions of the round are still going on.
RemoteAsksApproval(t, a) ==
  /\ Mode[RunOf[t]] = "auto"
  /\ exec[t] = "running"
  /\ approval[a] = "unused"
  /\ TaskOf[a] = t
  /\ approval' = [approval EXCEPT ![a] = "pending"]
  /\ status' = [status EXCEPT ![RunOf[t]] = "approval_required"]
  /\ exec' = [exec EXCEPT ![t] = "approval"]
  /\ UNCHANGED <<task, evaluated, outcome, driver, round, failed, result, paused,
                 executed, verdicts, crashes>>

(***************************************************************************)
(* Cancel, and the end of a producer by an exception.                      *)
(***************************************************************************)

\* What cancel writes. It ends the producer of the Run, never a resume, and
\* leaves the approvals of the Run as they are.
CancelRows(r) ==
  /\ status' = [status EXCEPT ![r] = "cancelled"]
  /\ task' = WithTasks(OpenTasks(r), "cancelled")
  /\ outcome' = [outcome EXCEPT ![r] = Append(@, "cancelled")]

\* The stream of a direct Run dies with its producer; the executions of an
\* auto Run do not.
EndProducer(r) ==
  /\ driver' = [driver EXCEPT ![r] = "ended"]
  /\ exec' = IF Mode[r] = "direct" /\ exec[Root[r]] = "running"
             THEN [exec EXCEPT ![Root[r]] = "lost"] ELSE exec

\* Mutant of Cancellable: the early return for a finished Run is missing.
CancellableAnytime(r) == status[r] # "none"

\* cancel returns early when the Run has ended.
Cancellable(r) == status[r] \notin Terminal \cup {"none"}

Cancel(r) ==
  /\ Cancellable(r)
  /\ CancelRows(r)
  /\ EndProducer(r)
  /\ UNCHANGED <<approval, evaluated, round, failed, result, paused, executed,
                 verdicts, crashes>>

\* The producer's task is cancelled at shutdown or a database call raises: the
\* finally block of stream() cancels a Run that is still running.
ProducerAborts(r) ==
  /\ Active(r)
  /\ EndProducer(r)
  /\ IF status[r] = "running" THEN CancelRows(r)
     ELSE UNCHANGED <<status, task, outcome>>
  /\ UNCHANGED <<approval, evaluated, round, failed, result, paused, executed,
                 verdicts, crashes>>

(***************************************************************************)
(* Decisions on approvals.                                                 *)
(***************************************************************************)

\* Mutant of Claimable: the claim accepts a repeated decision, as decide_approval
\* does.
ClaimableAgain(a, decision) == approval[a] \in {"pending", decision}

\* The WHERE clause of the UPDATE that claims a decision.
Claimable(a, decision) == approval[a] = "pending"

\* POST /api/approvals/decide: the claim is one conditional UPDATE. An auto
\* Run is put back to running and a background job takes over; a direct one
\* is served by the request itself.
Decide(a, decision) ==
  /\ Claimable(a, decision)
  /\ approval' = [approval EXCEPT ![a] = decision]
  /\ status' = IF Mode[ApRun(a)] = "auto"
               THEN [status EXCEPT ![ApRun(a)] = "running"] ELSE status
  /\ driver' = [driver EXCEPT ![a] = "claimed"]
  /\ UNCHANGED <<task, evaluated, outcome, round, failed, result, paused, exec,
                 executed, verdicts, crashes>>

\* The agent receives the decision and, when it approves, runs the write.
Deliver(a) ==
  /\ driver[a] = "claimed"
  /\ driver' = [driver EXCEPT ![a] = "executing"]
  /\ executed' = [executed EXCEPT ![a] = @ + 1]
  /\ UNCHANGED <<status, task, approval, evaluated, outcome, round, failed, result,
                 paused, exec, verdicts, crashes>>

(***************************************************************************)
(* The resume of an auto Run. stat is the status left by the step that     *)
(* leads here.                                                             *)
(***************************************************************************)

\* Mutant of IsPaused: any task of the Run that waits for an approval will do.
IsPausedOnAnyAgent(a, t) ==
  LET waiting == {u \in Children(ApRun(a)) : task[u] = "approval_required"}
  IN t \in waiting /\ \A u \in waiting : t <= u

\* The first task in id order that waits for an approval on this agent.
IsPaused(a, t) ==
  LET waiting == {u \in Children(ApRun(a)) : /\ task[u] = "approval_required"
                                             /\ AgentOf[u] = AgentOf[TaskOf[a]]}
  IN t \in waiting /\ \A u \in waiting : t <= u

\* Nothing to resume: both early returns leave the status as it is.
NothingToResume(a, stat, res) ==
  /\ (\A t \in Tasks : ~IsPaused(a, t)) \/ res = "other"
  /\ status' = stat
  /\ driver' = [driver EXCEPT ![a] = "ended"]
  /\ UNCHANGED <<task, outcome, verdicts, paused>>

\* The agent stopped at the next call of the same batch.
RecordFollowup(a, t, stat) ==
  /\ task' = [task EXCEPT ![t] = "approval_required"]
  /\ status' = [stat EXCEPT ![ApRun(a)] = "approval_required"]
  /\ verdicts' = [verdicts EXCEPT ![a] = @ + 1]
  /\ driver' = [driver EXCEPT ![a] = "ended"]
  /\ UNCHANGED <<outcome, paused>>

\* The paused task gets its result. A failed write ends the Run, anything else
\* gives the Host loop back its turn.
Settle(a, t, stat, settled) ==
  LET r == ApRun(a)
  IN /\ verdicts' = [verdicts EXCEPT ![a] = @ + 1]
     /\ task' = [task EXCEPT ![t] = settled, ![Root[r]] = "working"]
     /\ IF settled = "failed"
        THEN /\ status' = [stat EXCEPT ![r] = "failed"]
             /\ outcome' = [outcome EXCEPT ![r] = Append(@, "failed")]
             /\ driver' = [driver EXCEPT ![a] = "ended"]
        ELSE /\ status' = [stat EXCEPT ![r] = "running"]
             /\ driver' = [driver EXCEPT ![a] = "deciding"]
             /\ UNCHANGED outcome
     /\ paused' = [paused EXCEPT ![a] = NoTask]

\* The result of a write of another role than mutation is graded by the model
\* first, an await that holds the lock.
Evaluate(a, t, stat) ==
  /\ paused' = [paused EXCEPT ![a] = t]
  /\ status' = stat
  /\ driver' = [driver EXCEPT ![a] = "evaluating"]
  /\ UNCHANGED <<task, outcome, verdicts>>

Resume(a, stat, res) ==
  \/ NothingToResume(a, stat, res)
  \/ \E t \in Tasks :
       /\ IsPaused(a, t)
       /\ \/ res = "followup" /\ RecordFollowup(a, t, stat)
          \/ /\ res \in {"completed", "failed"}
             /\ approval[a] = "rejected"
             /\ Settle(a, t, stat, "blocked")
          \/ /\ res = "failed"
             /\ approval[a] = "approved"
             /\ Settle(a, t, stat, "failed")
          \/ /\ res = "completed"
             /\ approval[a] = "approved"
             /\ IF t \in Mutations THEN Settle(a, t, stat, "completed")
                ELSE Evaluate(a, t, stat)

\* The job of an auto Run goes on into the resume, or waits for its lock.
ResumeOrWait(a, stat, res) ==
  IF LockFree(a)
  THEN Resume(a, stat, res) /\ UNCHANGED result
  ELSE /\ status' = stat
       /\ driver' = [driver EXCEPT ![a] = "returned"]
       /\ result' = [result EXCEPT ![a] = res]
       /\ UNCHANGED <<task, outcome, verdicts, paused>>

\* The agent answers the decision, and execute_claimed writes a status for it.
AutoReturn(a, res) ==
  /\ Mode[ApRun(a)] = "auto"
  /\ driver[a] = "executing"
  /\ ResumeOrWait(a, [status EXCEPT ![ApRun(a)] =
                        IF res = "failed" THEN "failed" ELSE "running"], res)
  /\ UNCHANGED <<approval, evaluated, round, failed, exec, executed, crashes>>

\* The approved write is followed by another one that needs approval b.
AutoFollowup(a, b) ==
  /\ Mode[ApRun(a)] = "auto"
  /\ driver[a] = "executing"
  /\ approval[a] = "approved"
  /\ approval[b] = "unused"
  /\ TaskOf[b] = TaskOf[a]
  /\ approval' = [approval EXCEPT ![b] = "pending"]
  /\ ResumeOrWait(a, [status EXCEPT ![ApRun(a)] = "approval_required"], "followup")
  /\ UNCHANGED <<evaluated, round, failed, exec, executed, crashes>>

\* The agent is gone or the gateway raised: the job resumes with a failed
\* result, before or after the agent got the decision.
AutoRaises(a) ==
  /\ Mode[ApRun(a)] = "auto"
  /\ driver[a] \in {"claimed", "executing"}
  /\ ResumeOrWait(a, status, "failed")
  /\ UNCHANGED <<approval, evaluated, round, failed, exec, executed, crashes>>

ResumeBegin(a) ==
  /\ driver[a] = "returned"
  /\ LockFree(a)
  /\ Resume(a, status, result[a])
  /\ result' = [result EXCEPT ![a] = "none"]
  /\ UNCHANGED <<approval, evaluated, round, failed, exec, executed, crashes>>

Evaluated(a, settled) ==
  /\ driver[a] = "evaluating"
  /\ Settle(a, paused[a], status, settled)
  /\ UNCHANGED <<approval, evaluated, round, failed, result, exec, executed, crashes>>

\* The grading call raises; the job that awaits the resume does not catch it.
EvaluationRaises(a) ==
  /\ driver[a] = "evaluating"
  /\ driver' = [driver EXCEPT ![a] = "ended"]
  /\ UNCHANGED <<status, task, approval, evaluated, outcome, round, failed, result,
                 paused, exec, executed, verdicts, crashes>>

\* Mutant of TrailingStatus: a failed execution is taken for a finished one.
TrailingStatusLax(res) == "completed"

\* What execute_claimed writes last for a direct Run that asks for nothing more.
TrailingStatus(res) == IF res = "failed" THEN "failed" ELSE "completed"

(***************************************************************************)
(* The same for a direct Run, without a resume: _finalize_direct_run       *)
(* writes the task, the terminal event and the status, then                *)
(* execute_claimed writes the status once more.                            *)
(***************************************************************************)
DirectReturn(a, res) ==
  LET r == ApRun(a)
      ran == approval[a] = "approved"
      settled == IF ~ran THEN "blocked"
                 ELSE IF res = "failed" THEN "failed" ELSE "completed"
  IN /\ Mode[r] = "direct"
     /\ driver[a] = "executing"
     /\ task' = [task EXCEPT ![Root[r]] = settled]
     /\ outcome' = [outcome EXCEPT ![r] =
          Append(@, IF settled = "failed" THEN "failed" ELSE "completed")]
     /\ status' = [status EXCEPT ![r] = TrailingStatus(res)]
     /\ verdicts' = [verdicts EXCEPT ![a] = @ + 1]
     /\ driver' = [driver EXCEPT ![a] = "ended"]
     /\ UNCHANGED <<approval, evaluated, round, failed, result, paused, exec,
                    executed, crashes>>

DirectFollowup(a, b) ==
  LET r == ApRun(a)
  IN /\ Mode[r] = "direct"
     /\ driver[a] = "executing"
     /\ approval[a] = "approved"
     /\ approval[b] = "unused"
     /\ TaskOf[b] = TaskOf[a]
     /\ approval' = [approval EXCEPT ![b] = "pending"]
     /\ task' = [task EXCEPT ![Root[r]] = "working"]
     /\ status' = [status EXCEPT ![r] = "approval_required"]
     /\ verdicts' = [verdicts EXCEPT ![a] = @ + 1]
     /\ driver' = [driver EXCEPT ![a] = "ended"]
     /\ UNCHANGED <<evaluated, outcome, round, failed, result, paused, exec, executed,
                    crashes>>

\* The request answers with an error and writes nothing.
DirectRaises(a) ==
  /\ Mode[ApRun(a)] = "direct"
  /\ driver[a] \in {"claimed", "executing"}
  /\ driver' = [driver EXCEPT ![a] = "ended"]
  /\ UNCHANGED <<status, task, approval, evaluated, outcome, round, failed, result,
                 paused, exec, executed, verdicts, crashes>>

(***************************************************************************)
(* The backend restarts: what lived in the process is gone, and every Run  *)
(* found running is marked interrupted with a run.failed event.            *)
(***************************************************************************)
Crash ==
  LET dead == {r \in Runs : status[r] = "running"}
  IN /\ crashes < MaxCrashes
     /\ crashes' = crashes + 1
     /\ driver' = [d \in Drivers |-> IF Active(d) THEN "ended" ELSE driver[d]]
     /\ exec' = [t \in Tasks |-> IF exec[t] = "running" THEN "lost" ELSE exec[t]]
     /\ status' = [r \in Runs |-> IF r \in dead THEN "interrupted" ELSE status[r]]
     /\ task' = [t \in Tasks |->
          IF /\ RunOf[t] \in dead
             /\ t \in OpenTasks(RunOf[t])
             /\ task[t] # "approval_required"
          THEN "interrupted" ELSE task[t]]
     /\ outcome' = [r \in Runs |->
          IF r \in dead THEN Append(outcome[r], "failed") ELSE outcome[r]]
     /\ round' = [d \in Drivers |-> {}]
     /\ failed' = {}
     /\ result' = [a \in Approvals |-> "none"]
     /\ paused' = [a \in Approvals |-> NoTask]
     /\ UNCHANGED <<approval, evaluated, executed, verdicts>>
-----------------------------------------------------------------------------
HostLoop(d) ==
  \/ \E S \in SUBSET Delegable(DriverRun(d)) : HostDelegates(d, S)
  \/ \E how \in {"complete", "stop", "error"} : HostStops(d, how)
  \/ RoundEnds(d)

Producer(r) ==
  \/ HostLoop(r)
  \/ ProducerNoticesCancel(r)
  \/ \E a \in Approvals : DirectAsks(r, a)
  \/ \E how \in {"complete", "error"} : DirectEnds(r, how)

Job(a) ==
  \/ Deliver(a)
  \/ \E res \in {"completed", "failed", "other"} : AutoReturn(a, res) \/ DirectReturn(a, res)
  \/ \E b \in Approvals : AutoFollowup(a, b) \/ DirectFollowup(a, b)
  \/ AutoRaises(a)
  \/ DirectRaises(a)
  \/ ResumeBegin(a)
  \/ \E settled \in {"completed", "working"} : Evaluated(a, settled)
  \/ EvaluationRaises(a)
  \/ HostLoop(a)

Execution(t) ==
  \/ \E v \in {"sufficient", "insufficient", "failed"} : RemoteReturns(t, v)
  \/ \E a \in Approvals : RemoteAsksApproval(t, a)

Request ==
  \/ \E r \in Runs : StartRun(r) \/ Cancel(r)
  \/ \E a \in Approvals, decision \in {"approved", "rejected"} : Decide(a, decision)

Next ==
  \/ Request
  \/ \E r \in Runs : Producer(r) \/ ProducerAborts(r)
  \/ \E a \in Approvals : Job(a)
  \/ \E t \in Tasks : Execution(t)
  \/ Crash

Spec == Init /\ [][Next]_vars

\* The event loop runs every task that is ready; the calls it waits for (model,
\* agent, gateway) all have timeouts. Users and restarts owe nothing.
Fairness ==
  /\ \A r \in Runs : WF_vars(Producer(r))
  /\ \A a \in Approvals : WF_vars(Job(a))
  /\ \A t \in Tasks : WF_vars(Execution(t))

FairSpec == Spec /\ Fairness

-----------------------------------------------------------------------------
TypeOK ==
  /\ status \in [Runs -> RunStatus]
  /\ task \in [Tasks -> TaskStatus]
  /\ approval \in [Approvals -> ApprovalStatus]
  /\ evaluated \subseteq Tasks
  /\ outcome \in [Runs -> Seq(Terminal)]
  /\ driver \in [Drivers -> DriverStates]
  /\ round \in [Drivers -> SUBSET Tasks]
  /\ failed \subseteq Drivers
  /\ result \in [Approvals -> Results]
  /\ paused \in [Approvals -> Tasks \cup {NoTask}]
  /\ exec \in [Tasks -> ExecStatus]
  /\ executed \in [Approvals -> Nat]
  /\ verdicts \in [Approvals -> Nat]
  /\ crashes \in 0..MaxCrashes

\* An approved write reaches its agent at most once, and one decision is
\* recorded for it, whatever requests are repeated, superseded, cancelled or
\* interrupted; nothing is delivered for an approval nobody decided.
AtMostOneExecution ==
  \A a \in Approvals :
    /\ executed[a] <= 1
    /\ verdicts[a] <= 1
    /\ approval[a] \in {"unused", "pending"} => executed[a] = 0 /\ verdicts[a] = 0

\* A decision is never revised, and one that a new message made (a rejection
\* nobody is waiting for) is never picked up by a request.
DecisionIsFinal ==
  [][\A a \in Approvals :
       /\ approval[a] \in {"approved", "rejected"} => approval'[a] = approval[a]
       /\ (approval[a] = "rejected" /\ driver[a] = "idle") => driver'[a] = "idle"]_vars

\* The Host loop of a Run is driven by one task at a time: the producer, or the
\* resume of one decision, although decisions may arrive while the producer is
\* still waiting for the other tasks of the round.
LoopDrivers(r) == {d \in Drivers : DriverRun(d) = r /\ driver[d] \in ResumeStates}
OneLoop ==
  \A r \in Runs : \A c, d \in LoopDrivers(r) : c = d

\* A Run that never asked for an approval is running exactly while its producer
\* is, and ends with exactly one terminal event, the one its status names.
Plain(r) == \A a \in Approvals : ApRun(a) = r => approval[a] = "unused"
PlainRunEndsOnce ==
  \A r \in Runs : Plain(r) =>
    /\ (status[r] = "running") <=> Active(r)
    /\ status[r] \in {"none", "running"} => outcome[r] = <<>>
    /\ status[r] \in Terminal =>
         outcome[r] = <<IF status[r] = "interrupted" THEN "failed" ELSE status[r]>>

\* A Run that is shown as completed or partial has that very event as the last
\* terminal event of its log, so that a client that replays the log and one that
\* reads the row agree on a success, although four different code paths (the
\* producer, the resume, the request that finalises a direct Run and the status
\* written after it) produce the two.
SuccessIsLogged ==
  \A r \in Runs : status[r] \in {"completed", "partial"} =>
    outcome[r] # <<>> /\ outcome[r][Len(outcome[r])] = status[r]

\* "Only after exactly the matching call has really succeeded may an approved write
\* task become successful": a task that asked for approvals is completed only when
\* each of them was approved and delivered. The answer to one decision never
\* completes the task of another, provided no two tasks of the Run share an agent:
\* the resume looks for its task by agent alone.
CompletedWritesWereRun ==
  \A a \in Approvals :
    approval[a] # "unused" /\ task[TaskOf[a]] = "completed"
      => approval[a] = "approved" /\ executed[a] = 1

\* A producer whose Run was cancelled under it (a new message superseded the
\* approval its round had raised) writes nothing more: its only step is to end.
CancelledProducerIsInert ==
  [][\A r \in Runs :
       (status[r] = "cancelled" /\ Active(r) /\ driver'[r] # driver[r])
         => /\ driver'[r] = "ended"
            /\ UNCHANGED <<outcome, evaluated, round, exec>> \/ crashes' # crashes]_vars

\* Every claimed decision is worked off: its job ends, however many jobs of the
\* Run wait for the same lock.
EveryDecisionSettles ==
  \A a \in Approvals : driver[a] = "claimed" ~> driver[a] = "ended"

\* Every producer comes to an end.
EveryProducerEnds ==
  \A r \in Runs : driver[r] # "idle" ~> driver[r] = "ended"

(***************************************************************************)
(* What the documentation says of the program and the code does not do.    *)
(***************************************************************************)

\* "Cancellation marks unfinished child tasks cancelled and prevents new tasks
\* from starting."
NoTaskStartsAfterCancel ==
  [][\A t \in Tasks :
       exec[t] = "none" /\ exec'[t] = "running" =>
         \A i \in DOMAIN outcome[RunOf[t]] : outcome[RunOf[t]][i] # "cancelled"]_vars
=============================================================================
