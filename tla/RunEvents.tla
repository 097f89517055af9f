------------------------------ MODULE RunEvents ------------------------------
(***************************************************************************)
(* What the browser makes of the events of one Run: the reducer behind the *)
(* workspace and the task explorer, the one-line stage, and the event      *)
(* feed's own reading of the same log. The three are pure functions of the *)
(* events; each is kept here as a step from one view to the next.          *)
(*                                                                         *)
(* An event is [type, task, data]. Texts, times and agent names are left   *)
(* out. Events reach the reducer once and in order: RunStream is about the *)
(* delivery, and event ids are remembered against duplicates.              *)
(***************************************************************************)
EXTENDS Arrays, SequencesExt

CONSTANTS
  Tasks,         \* task ids, the root included
  Root,          \* the root task
  Tools,         \* tool-call ids
  ToolTask,      \* ToolTask[x]: the task whose agent makes call x
  Approvals,     \* approval ids
  ApprovalTool,  \* ApprovalTool[a]: the call that approval a gates
  Rounds         \* round numbers of the Host

ASSUME EventConstantsOK ==
  /\ Root \in Tasks
  /\ ToolTask \in [Tools -> Tasks]
  /\ ApprovalTool \in [Approvals -> Tools]

NoData == "none"
Ev(type, task, data) == [type |-> type, task |-> task, data |-> data]

TerminalStatus ==
  {"completed", "partial", "evidence_insufficient", "failed", "cancelled"}
TerminalType == {"run.completed", "run.partial", "run.evidence_insufficient",
                 "run.failed", "run.cancelled"}

\* event.type.slice(4)
StatusOf(type) ==
  CASE type = "run.completed" -> "completed"
    [] type = "run.partial" -> "partial"
    [] type = "run.evidence_insufficient" -> "evidence_insufficient"
    [] type = "run.failed" -> "failed"
    [] type = "run.cancelled" -> "cancelled"

-----------------------------------------------------------------------------
(***************************************************************************)
(* The reducer. "none" is a task, call, approval or round not yet listed.  *)
(***************************************************************************)
EmptyView ==
  [run |-> "none", mode |-> "auto",
   task |-> [t \in Tasks |-> "none"], order |-> <<>>,
   tool |-> [x \in Tools |-> "none"],
   round |-> [n \in Rounds |-> [status |-> "none", tasks |-> <<>>]],
   rounds |-> <<>>,
   message |-> [t \in Tasks |-> "none"],   \* "draft" or "report"
   progress |-> {},                        \* tasks with a kept draft record
   thinking |-> {},                        \* tasks with live reasoning text
   approval |-> [a \in Approvals |-> "none"],
   summary |-> FALSE]

InSeq(s, x) == \E i \in DOMAIN s : s[i] = x
Listed(s, x) == IF InSeq(s, x) THEN s ELSE Append(s, x)

\* A task that no event has named yet is listed as queued.
WithTask(v, t, st) ==
  [v EXCEPT !.task[t] = st, !.order = Listed(@, t)]
Touched(v, t) == WithTask(v, t, IF v.task[t] = "none" THEN "queued" ELSE v.task[t])

InProgress == {"working", "delegated", "retrying"}

\* Mutant of OnTerminal: the Run's own status changes and nothing else.
OnTerminalRunOnly(v, e) == [v EXCEPT !.run = StatusOf(e.type)]

\* A terminal event closes the rounds and the tasks that are in progress. Tool
\* calls, and tasks that are queued or wait for an approval, stay as they are.
OnTerminal(v, e) ==
  LET st == StatusOf(e.type)
  IN [v EXCEPT !.run = st,
        !.round = [n \in Rounds |-> IF @[n].status = "working"
                                    THEN [@[n] EXCEPT !.status = st] ELSE @[n]],
        !.task = [t \in Tasks |-> IF @[t] \in InProgress THEN st ELSE @[t]]]

OnRoundStarted(v, e) ==
  [v EXCEPT !.round[e.data].status = "working", !.rounds = Listed(@, e.data)]

\* The decision of a round lists its tasks and replaces the round's task list.
OnDecision(v, e) ==
  [v EXCEPT
     !.task = [t \in Tasks |-> IF @[t] = "none" /\ InSeq(e.data.tasks, t)
                               THEN "queued" ELSE @[t]],
     !.order = FoldLeft(Listed, @, e.data.tasks),
     !.round[e.data.round] =
        [status |-> IF e.data.action = "delegate" THEN "working" ELSE e.data.action,
         tasks |-> e.data.tasks],
     !.rounds = Listed(@, e.data.round)]

OnRoundCompleted(v, e) == [v EXCEPT !.round[e.data].status = "completed"]

Closed == {"completed", "failed"}

\* Mutant of OnTaskEnd: the calls of a finished task are left as they are.
OnTaskEndOpen(v, e) ==
  [WithTask(v, e.task, IF e.type = "task.completed" THEN "completed" ELSE "failed")
     EXCEPT !.thinking = @ \ {e.task}]

\* The end of a task closes its calls and clears its reasoning. The fallback to
\* the parent's calls is for children the reducer has never heard of.
OnTaskEnd(v, e) ==
  LET st == IF e.type = "task.completed" THEN "completed" ELSE "failed"
  IN [WithTask(v, e.task, st) EXCEPT
        !.tool = [x \in Tools |-> IF /\ ToolTask[x] = e.task
                                     /\ @[x] \notin Closed \cup {"none"}
                                  THEN st ELSE @[x]],
        !.thinking = @ \ {e.task}]

OnToolCalled(v, e) ==
  [Touched(v, e.task) EXCEPT !.tool[e.data] = "working", !.thinking = @ \ {e.task}]

OnToolCompleted(v, e) ==
  [Touched(v, e.task) EXCEPT !.tool[e.data.tool] = IF e.data.error THEN "failed"
                                                   ELSE "completed"]

OnThinking(v, e) == [Touched(v, e.task) EXCEPT !.thinking = @ \cup {e.task}]

\* The draft of an abandoned attempt becomes a progress record.
OnReset(v, e) ==
  IF v.message[e.task] = "draft"
  THEN [v EXCEPT !.message[e.task] = "none", !.progress = @ \cup {e.task}]
  ELSE v

\* Draft and report of a task share one message id, so a delta that came after
\* the report would turn it into a draft again.
OnMessage(v, e) ==
  LET done == e.type = "message.completed"
  IN [Touched(v, e.task) EXCEPT
        !.message[e.task] = IF done THEN "report" ELSE "draft",
        !.thinking = IF done THEN @ ELSE @ \ {e.task},
        !.summary = @ \/ (done /\ e.task = Root /\ v.mode # "direct")]

\* The gated call waits for its approval, the task's other running calls wait.
\* The task itself keeps its status.
OnApprovalRequired(v, e) ==
  LET gated == ApprovalTool[e.data]
      waits(x) == ToolTask[x] = e.task /\ v.task[e.task] # "none"
  IN [v EXCEPT
        !.tool = [x \in Tools |->
           IF ~waits(x) THEN @[x]
           ELSE IF x = gated /\ @[x] \notin Closed \cup {"none"} THEN "approval_required"
           ELSE IF @[x] = "working" THEN "waiting" ELSE @[x]],
        !.approval[e.data] = "pending",
        !.run = "approval_required"]

OnApprovalDecided(v, e) ==
  IF v.approval[e.data.approval] = "none" THEN v
  ELSE [v EXCEPT !.approval[e.data.approval] = e.data.decision]

Reduce(v, e) ==
  CASE e.type = "run.started" -> [v EXCEPT !.run = "running", !.mode = e.data]
    [] e.type \in TerminalType -> OnTerminal(v, e)
    [] e.type = "host.planning" -> [v EXCEPT !.run = "planning"]
    [] e.type = "host.round_started" -> OnRoundStarted(v, e)
    [] e.type = "host.decision_created" -> OnDecision(v, e)
    [] e.type = "host.round_completed" -> OnRoundCompleted(v, e)
    [] e.type = "task.delegated" -> WithTask(v, e.task, "delegated")
    [] e.type = "task.started" -> WithTask(v, e.task, "working")
    [] e.type = "task.status_changed" -> WithTask(v, e.task, e.data)
    [] e.type = "task.retry_scheduled" -> WithTask(v, e.task, "retrying")
    [] e.type \in {"task.context_prepared", "task.evaluated", "host.plan_revised"} -> Touched(v, e.task)
    [] e.type = "task.blocked" -> WithTask(v, e.task, "blocked")
    [] e.type \in {"task.completed", "task.failed"} -> OnTaskEnd(v, e)
    [] e.type = "tool.called" -> OnToolCalled(v, e)
    [] e.type = "tool.completed" -> OnToolCompleted(v, e)
    [] e.type = "agent.thinking_delta" -> OnThinking(v, e)
    [] e.type = "message.reset" -> OnReset(v, e)
    [] e.type \in {"message.delta", "message.completed"} -> OnMessage(v, e)
    [] e.type = "approval.required" -> OnApprovalRequired(v, e)
    [] e.type = "approval.decided" -> OnApprovalDecided(v, e)
    [] OTHER -> v

\* A reload: the replayed events, then the task rows over the replayed tasks
\* and the Run's row over the replayed Run.
Restored(v, runRow, taskRow) ==
  [v EXCEPT !.run = runRow,
     !.task = [t \in Tasks |-> IF taskRow[t] = "none" THEN @[t] ELSE taskRow[t]]]

-----------------------------------------------------------------------------
(***************************************************************************)
(* The stage: the latest event decides it, and it carries the tasks that   *)
(* were delegated, started or sent again and have not ended.               *)
(***************************************************************************)
EmptyStage == [latest |-> NoData, host |-> FALSE, active |-> {}]

\* Mutant of ReduceStage: a blocked task goes on being shown as active.
ReduceStageBlocked(s, e) ==
  [latest |-> e.type, host |-> e.task = Root,
   active |-> IF e.type \in {"task.delegated", "task.started", "task.retry_scheduled"}
              THEN s.active \cup {e.task}
              ELSE IF e.type \in {"task.completed", "task.failed"}
              THEN s.active \ {e.task} ELSE s.active]

ReduceStage(s, e) ==
  [latest |-> e.type, host |-> e.task = Root,
   active |-> IF e.type \in {"task.delegated", "task.started", "task.retry_scheduled"}
              THEN s.active \cup {e.task}
              ELSE IF e.type \in {"task.completed", "task.failed", "task.blocked"}
              THEN s.active \ {e.task} ELSE s.active]

\* deriveRunStage's state, and the tasks it names as active.
StageState(s, mode) ==
  CASE s.latest = NoData -> "idle"
    [] s.latest \in TerminalType -> StatusOf(s.latest)
    [] s.latest = "host.planning" -> "planning"
    [] s.latest = "host.synthesis_started" -> "synthesizing"
    [] s.latest = "message.delta" /\ s.host /\ mode = "auto" -> "responding"
    [] s.latest \in {"agent.thinking_delta", "tool.completed"} -> "analyzing"
    [] s.latest = "task.retry_scheduled" -> "retrying"
    [] OTHER -> IF s.latest \notin {"message.delta", "tool.called"}
                     /\ Cardinality(s.active) > 1
                THEN "parallel" ELSE "working"

StageActive(s) == IF s.latest \in TerminalType THEN {} ELSE s.active

-----------------------------------------------------------------------------
(***************************************************************************)
(* The event feed: the backend gives every event a state of its own, and   *)
(* the page takes a Run's and a task's status from its latest event.       *)
(***************************************************************************)
FeedState(type) ==
  CASE type \in {"task.failed", "run.failed"} -> "failed"
    [] type = "run.cancelled" -> "canceled"
    [] type \in {"run.partial", "run.evidence_insufficient"} -> StatusOf(type)
    [] type \in {"run.completed", "task.completed", "message.completed",
                 "tool.completed"} -> "completed"
    [] type \in {"approval.required", "approval.decided"} -> "input-required"
    [] type \in {"run.started", "task.started", "host.planning",
                 "host.synthesis_started", "message.delta"} -> "working"
    [] OTHER -> "submitted"

EmptyFeed == [run |-> "none", task |-> [t \in Tasks |-> "none"],
              tool |-> [x \in Tools |-> "none"]]

ReduceFeed(f, e) ==
  [run |-> FeedState(e.type),
   task |-> IF e.task \in Tasks THEN [f.task EXCEPT ![e.task] = FeedState(e.type)]
            ELSE f.task,
   tool |-> CASE e.type = "tool.called" -> [f.tool EXCEPT ![e.data] = "working"]
              [] e.type = "tool.completed" ->
                   [f.tool EXCEPT ![e.data.tool] =
                      IF e.data.error THEN "failed" ELSE "completed"]
              [] OTHER -> f.tool]

-----------------------------------------------------------------------------
(***************************************************************************)
(* Lists made from a view.                                                 *)
(***************************************************************************)

\* The tasks of the rounds, in the order of the rounds.
Placed(v) ==
  FlattenSeq([i \in DOMAIN v.rounds |-> v.round[v.rounds[i]].tasks])

\* Mutant of Timeline: the tasks that no round lists are not added.
TimelineOfRounds(v) == Placed(v)

\* The task entries of the round timeline: the tasks of each round, as often as
\* rounds list them, then the tasks that no round lists.
Timeline(v) == Placed(v) \o Kept(v.order, Tasks \ Range(Placed(v)))

\* The task nodes of the task page: what the rounds and then the list of tasks
\* name, each task where it is named first.
TaskFlow(v) ==
  LET named == IF v.mode = "direct" THEN v.order ELSE Placed(v) \o v.order
      new(i) == \A j \in 1..(i - 1) : named[j] # named[i]
  IN Arranged(named, {i \in DOMAIN named : new(i)}, Along(named))

\* The groups of a task's calls: what is neither completed nor failed counts
\* as running.
RunningCalls(v, t) ==
  {x \in Tools : ToolTask[x] = t /\ v.tool[x] \notin Closed \cup {"none"}}

\* The messages of the conversation that are shown: finished ones. Drafts and
\* progress records are left to the trace.
VisibleMessages(v) == {t \in Tasks : v.message[t] = "report"}
=============================================================================
