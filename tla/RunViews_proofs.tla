--------------------------- MODULE RunViews_proofs ---------------------------
(***************************************************************************)
(* What the views of RunEvents, and the rows of RunTrace, make of an event *)
(* and of a stretch of events, for any tasks, calls, approvals and rounds. *)
(***************************************************************************)
EXTENDS RunTrace, TLAPS

-----------------------------------------------------------------------------
(***************************************************************************)
(* Events, and what they can carry.                                        *)
(***************************************************************************)
HostTypes == {"host.planning", "host.synthesis_started", "host.round_started",
              "host.decision_created", "host.round_completed"}
Endings == {"task.completed", "task.failed"}
Touches == {"task.context_prepared", "task.evaluated", "host.plan_revised"}
Types ==
  TerminalType \cup HostTypes \cup Endings \cup Touches
  \cup {"run.started", "task.delegated", "task.started", "task.status_changed",
        "task.retry_scheduled", "task.blocked", "tool.called", "tool.completed",
        "agent.thinking_delta", "message.reset", "message.delta", "message.completed",
        "approval.required", "approval.decided"}

HostChoices == [round : Rounds, action : {"delegate", "respond", "complete", "stop"},
            tasks : Decisions \cup {<<>>}]
Outcomes == [tool : Tools, error : BOOLEAN]
Verdicts == [approval : Approvals, decision : {"approved", "rejected"}]
Data == {NoData, "auto", "direct", "working", "approval_required"}
          \cup Rounds \cup HostChoices \cup Tools \cup Outcomes \cup Approvals \cup Verdicts

\* What goes with the type of an event.
Proper(e) ==
  /\ e.type # "run.started" => e.task \in Tasks
  /\ e.type \in TerminalType \cup HostTypes => e.task = Root
  /\ e.type \in {"host.round_started", "host.round_completed"} => e.data \in Rounds
  /\ e.type = "host.decision_created" => e.data \in HostChoices
  /\ e.type = "task.status_changed" => e.data \in {"working", "approval_required"}
  /\ e.type = "tool.called" => e.data \in Tools /\ e.task = ToolTask[e.data]
  /\ e.type = "tool.completed" => e.data \in Outcomes /\ e.task = ToolTask[e.data.tool]
  /\ e.type = "approval.required" => e.data \in Approvals
  /\ e.type = "approval.decided" => e.data \in Verdicts

Events == {e \in [type : Types, task : Tasks \cup {NoData}, data : Data] : Proper(e)}

LEMMA EventsAre ==
  ASSUME NEW ty \in Types, NEW t \in Tasks \cup {NoData}, NEW d \in Data, Proper(Ev(ty, t, d))
  PROVE  Ev(ty, t, d) \in Events
BY DEF Ev, Events

-----------------------------------------------------------------------------
(***************************************************************************)
(* What the reducer does with an event, by its type.                       *)
(***************************************************************************)
TaskStates == {"none", "queued", "delegated", "working", "retrying", "blocked",
               "approval_required"} \cup TerminalStatus
ToolStates == {"none", "working", "waiting", "approval_required", "completed", "failed"}
MessageStates == {"none", "draft", "report"}
CardStates == {"none", "pending", "executing", "approved", "rejected"}
RoundStates == [status : {"none", "working", "respond", "complete", "stop"} \cup TerminalStatus,
                tasks : Decisions \cup {<<>>}]
Fields == {"run", "mode", "task", "order", "tool", "round", "rounds", "message", "progress",
           "thinking", "approval", "summary"}

RecordOK(v) == v = [x \in Fields |-> v[x]]

ViewOK(v) ==
  /\ RecordOK(v)
  /\ v.task \in [Tasks -> TaskStates]
  /\ v.tool \in [Tools -> ToolStates]
  /\ v.round \in [Rounds -> RoundStates]
  /\ v.message \in [Tasks -> MessageStates]
  /\ v.approval \in [Approvals -> CardStates]

LEMMA EmptyViewOK == ViewOK(EmptyView)
BY DEF ViewOK, RecordOK, EmptyView, Fields, TaskStates, ToolStates, RoundStates, MessageStates, CardStates

\* One task of the list gets a status.
LEMMA WithTaskIs ==
  ASSUME NEW v, ViewOK(v), NEW t \in Tasks, NEW st \in TaskStates
  PROVE  LET w == WithTask(v, t, st)
         IN /\ ViewOK(w) /\ w.task = [v.task EXCEPT ![t] = st]
            /\ w.run = v.run /\ w.tool = v.tool /\ w.round = v.round /\ w.message = v.message
            /\ w.thinking = v.thinking /\ w.approval = v.approval /\ w.mode = v.mode
<1> DEFINE w == WithTask(v, t, st)
<1>1. RecordOK(w)
  BY DEF ViewOK, RecordOK, WithTask, Fields
<1>2. w.task = [v.task EXCEPT ![t] = st]
  BY DEF ViewOK, RecordOK, WithTask, Fields
<1>3. /\ w.run = v.run /\ w.tool = v.tool /\ w.round = v.round /\ w.message = v.message
      /\ w.thinking = v.thinking /\ w.approval = v.approval /\ w.mode = v.mode
  BY DEF ViewOK, RecordOK, WithTask, Fields
<1> HIDE DEF w
<1>4. ViewOK(w)
  BY <1>1, <1>2, <1>3 DEF ViewOK
<1> QED BY <1>2, <1>3, <1>4 DEF w

LEMMA TouchedIs ==
  ASSUME NEW v, ViewOK(v), NEW t \in Tasks
  PROVE  LET w == Touched(v, t)
         IN /\ ViewOK(w)
            /\ w.task = [v.task EXCEPT ![t] = IF @ = "none" THEN "queued" ELSE @]
            /\ w.run = v.run /\ w.tool = v.tool /\ w.round = v.round /\ w.message = v.message
            /\ w.thinking = v.thinking /\ w.approval = v.approval /\ w.mode = v.mode
<1> DEFINE st == IF v.task[t] = "none" THEN "queued" ELSE v.task[t]
<1>1. st \in TaskStates
  BY DEF ViewOK, TaskStates
<1>2. Touched(v, t) = WithTask(v, t, st)
  BY DEF Touched
<1>3. [v.task EXCEPT ![t] = st] = [v.task EXCEPT ![t] = IF @ = "none" THEN "queued" ELSE @]
  OBVIOUS
<1> HIDE DEF st
<1> QED BY <1>1, <1>2, <1>3, WithTaskIs

LEMMA TerminalIs ==
  ASSUME NEW v, ViewOK(v), NEW e \in Events, e.type \in TerminalType
  PROVE  LET w == Reduce(v, e)
         IN /\ ViewOK(w) /\ w.run = StatusOf(e.type) /\ w.run \in TerminalStatus
            /\ w.task = [t \in Tasks |-> IF v.task[t] \in InProgress THEN w.run ELSE v.task[t]]
            /\ \A n \in Rounds : w.round[n].status # "working"
            /\ w.tool = v.tool /\ w.message = v.message
            /\ w.thinking = v.thinking /\ w.approval = v.approval /\ w.mode = v.mode
<1> DEFINE w == OnTerminal(v, e)
           st == StatusOf(e.type)
<1>0. Reduce(v, e) = w
  BY DEF Reduce, TerminalType
<1>1. st \in TerminalStatus
  BY DEF StatusOf, TerminalType, TerminalStatus
<1> HIDE DEF st
<1>2. RecordOK(w)
  BY DEF ViewOK, RecordOK, OnTerminal, Fields
<1>3. w.run = st /\ w.task = [t \in Tasks |-> IF v.task[t] \in InProgress THEN st ELSE v.task[t]]
  BY DEF ViewOK, RecordOK, OnTerminal, Fields, st
<1>4. /\ w.tool = v.tool /\ w.message = v.message
      /\ w.thinking = v.thinking /\ w.approval = v.approval /\ w.mode = v.mode
  BY DEF ViewOK, RecordOK, OnTerminal, Fields
<1>5. w.round = [n \in Rounds |-> IF v.round[n].status = "working"
                                  THEN [v.round[n] EXCEPT !.status = st] ELSE v.round[n]]
  BY DEF ViewOK, RecordOK, OnTerminal, Fields, st
<1> HIDE DEF w
<1>6. ASSUME NEW n \in Rounds PROVE w.round[n] \in RoundStates /\ w.round[n].status # "working"
  <2> PICK q \in RoundStates : q = v.round[n]
    BY DEF ViewOK
  <2>1. CASE q.status = "working"
    <3>1. w.round[n] = [status |-> st, tasks |-> q.tasks]
      BY <1>5, <2>1 DEF RoundStates
    <3> QED BY <1>1, <3>1 DEF RoundStates, TerminalStatus
  <2>2. CASE q.status # "working"
    BY <1>5, <2>2
  <2> QED BY <2>1, <2>2
<1>7. w.task \in [Tasks -> TaskStates]
  BY <1>1, <1>3 DEF ViewOK, TaskStates
<1>8. w.round \in [Rounds -> RoundStates]
  BY <1>5, <1>6
<1>9. ViewOK(w)
  BY <1>2, <1>4, <1>7, <1>8 DEF ViewOK
<1> QED BY <1>0, <1>1, <1>3, <1>4, <1>6, <1>9 DEF st

\* The Run starts, or plans.
LEMMA RunIs ==
  ASSUME NEW v, ViewOK(v), NEW e \in Events, e.type \in {"run.started", "host.planning"}
  PROVE  LET w == Reduce(v, e)
         IN /\ ViewOK(w) /\ w.run \in {"running", "planning"}
            /\ w.task = v.task /\ w.tool = v.tool /\ w.round = v.round /\ w.message = v.message
            /\ w.thinking = v.thinking /\ w.approval = v.approval
            /\ e.type = "host.planning" => w.mode = v.mode
            /\ e.type = "run.started" => w.mode = e.data
<1> DEFINE w == Reduce(v, e)
<1>1. CASE e.type = "run.started"
  <2>1. w = [v EXCEPT !.run = "running", !.mode = e.data]
    BY <1>1 DEF Reduce, TerminalType
  <2> QED BY <1>1, <2>1 DEF ViewOK, RecordOK, Fields
<1>2. CASE e.type = "host.planning"
  <2>1. w = [v EXCEPT !.run = "planning"]
    BY <1>2 DEF Reduce, TerminalType
  <2> QED BY <1>2, <2>1 DEF ViewOK, RecordOK, Fields
<1> QED BY <1>1, <1>2

\* A round starts, ends, or is decided: its record changes, and a decision lists
\* the tasks that it names.
LEMMA RoundIs ==
  ASSUME NEW v, ViewOK(v), NEW e \in Events,
         e.type \in {"host.round_started", "host.round_completed", "host.decision_created"}
  PROVE  LET w == Reduce(v, e)
         IN /\ ViewOK(w) /\ w.run = v.run /\ w.tool = v.tool /\ w.message = v.message
            /\ w.thinking = v.thinking /\ w.approval = v.approval /\ w.mode = v.mode
            /\ \A t \in Tasks : w.task[t] = v.task[t] \/ (v.task[t] = "none" /\ w.task[t] = "queued")
<1> DEFINE w == Reduce(v, e)
<1>1. CASE e.type = "host.round_started"
  <2>1. w = OnRoundStarted(v, e) /\ e.data \in Rounds
    BY <1>1 DEF Reduce, TerminalType, Events, Proper
  <2>2. RecordOK(w)
    BY <2>1 DEF ViewOK, RecordOK, Fields, OnRoundStarted
  <2>3. /\ w.run = v.run /\ w.tool = v.tool /\ w.message = v.message /\ w.task = v.task
        /\ w.thinking = v.thinking /\ w.approval = v.approval /\ w.mode = v.mode
    BY <2>1 DEF ViewOK, RecordOK, Fields, OnRoundStarted
  <2>4. w.round = [v.round EXCEPT ![e.data].status = "working"]
    BY <2>1 DEF ViewOK, RecordOK, Fields, OnRoundStarted
  <2> HIDE DEF w
  <2>5. [v.round[e.data] EXCEPT !.status = "working"] \in RoundStates
    BY <2>1 DEF ViewOK, RoundStates
  <2>6. w.round \in [Rounds -> RoundStates]
    BY <2>1, <2>4, <2>5 DEF ViewOK
  <2>7. ViewOK(w)
    BY <2>2, <2>3, <2>6 DEF ViewOK
  <2> QED BY <2>3, <2>7 DEF w
<1>2. CASE e.type = "host.round_completed"
  <2>1. w = OnRoundCompleted(v, e) /\ e.data \in Rounds
    BY <1>2 DEF Reduce, TerminalType, Events, Proper
  <2>2. RecordOK(w)
    BY <2>1 DEF ViewOK, RecordOK, Fields, OnRoundCompleted
  <2>3. /\ w.run = v.run /\ w.tool = v.tool /\ w.message = v.message /\ w.task = v.task
        /\ w.thinking = v.thinking /\ w.approval = v.approval /\ w.mode = v.mode
    BY <2>1 DEF ViewOK, RecordOK, Fields, OnRoundCompleted
  <2>4. w.round = [v.round EXCEPT ![e.data].status = "completed"]
    BY <2>1 DEF ViewOK, RecordOK, Fields, OnRoundCompleted
  <2> HIDE DEF w
  <2>5. [v.round[e.data] EXCEPT !.status = "completed"] \in RoundStates
    BY <2>1 DEF ViewOK, RoundStates, TerminalStatus
  <2>6. w.round \in [Rounds -> RoundStates]
    BY <2>1, <2>4, <2>5 DEF ViewOK
  <2>7. ViewOK(w)
    BY <2>2, <2>3, <2>6 DEF ViewOK
  <2> QED BY <2>3, <2>7 DEF w
<1>3. CASE e.type = "host.decision_created"
  <2>1. w = OnDecision(v, e) /\ e.data \in HostChoices
    BY <1>3 DEF Reduce, TerminalType, Events, Proper
  <2>2. RecordOK(w)
    BY <2>1 DEF ViewOK, RecordOK, Fields, OnDecision
  <2>3. /\ w.run = v.run /\ w.tool = v.tool /\ w.message = v.message
        /\ w.thinking = v.thinking /\ w.approval = v.approval /\ w.mode = v.mode
    BY <2>1 DEF ViewOK, RecordOK, Fields, OnDecision
  <2>4. w.task = [t \in Tasks |-> IF v.task[t] = "none" /\ InSeq(e.data.tasks, t)
                                 THEN "queued" ELSE v.task[t]]
    BY <2>1 DEF ViewOK, RecordOK, Fields, OnDecision
  <2> DEFINE rec == [status |-> IF e.data.action = "delegate" THEN "working" ELSE e.data.action,
                     tasks |-> e.data.tasks]
  <2>5. w.round = [v.round EXCEPT ![e.data.round] = rec]
    BY <2>1 DEF ViewOK, RecordOK, Fields, OnDecision
  <2>6. rec \in RoundStates
    BY <2>1 DEF HostChoices, RoundStates
  <2> HIDE DEF w, rec
  <2>7. w.round \in [Rounds -> RoundStates]
    BY <2>5, <2>6 DEF ViewOK
  <2>8. w.task \in [Tasks -> TaskStates]
    BY <2>4 DEF ViewOK, TaskStates
  <2>9. ViewOK(w)
    BY <2>2, <2>3, <2>7, <2>8 DEF ViewOK
  <2> QED BY <2>3, <2>4, <2>9 DEF w
<1> QED BY <1>1, <1>2, <1>3

\* A task is said to have a status, or is only named.
LEMMA StatusIs ==
  ASSUME NEW v, ViewOK(v), NEW e \in Events,
         e.type \in {"task.delegated", "task.started", "task.status_changed",
                    "task.retry_scheduled", "task.blocked"} \cup Touches
  PROVE  LET w == Reduce(v, e)
         IN /\ ViewOK(w) /\ e.task \in Tasks
            /\ \A t \in Tasks \ {e.task} : w.task[t] = v.task[t]
            /\ e.type = "task.delegated" => w.task[e.task] = "delegated"
            /\ e.type = "task.started" => w.task[e.task] = "working"
            /\ e.type = "task.status_changed" =>
                 w.task[e.task] = e.data /\ e.data \in {"working", "approval_required"}
            /\ e.type = "task.retry_scheduled" => w.task[e.task] = "retrying"
            /\ e.type = "task.blocked" => w.task[e.task] = "blocked"
            /\ e.type \in Touches =>
                 w.task[e.task] = IF v.task[e.task] = "none" THEN "queued" ELSE v.task[e.task]
            /\ w.run = v.run /\ w.tool = v.tool /\ w.round = v.round /\ w.message = v.message
            /\ w.thinking = v.thinking /\ w.approval = v.approval /\ w.mode = v.mode
<1> DEFINE w == Reduce(v, e)
<1>1. e.task \in Tasks /\ (e.type = "task.status_changed" => e.data \in {"working", "approval_required"})
  BY DEF Events, Proper, Touches
<1>2. e.task \in DOMAIN v.task
  BY <1>1 DEF ViewOK
<1>3. CASE e.type \in Touches
  <2>1. w = Touched(v, e.task)
    BY <1>3 DEF Reduce, TerminalType, Touches
  <2> HIDE DEF w
  <2>2. /\ ViewOK(w) /\ w.task = [v.task EXCEPT ![e.task] = IF @ = "none" THEN "queued" ELSE @]
        /\ w.run = v.run /\ w.tool = v.tool /\ w.round = v.round /\ w.message = v.message
        /\ w.thinking = v.thinking /\ w.approval = v.approval /\ w.mode = v.mode
    BY <1>1, <2>1, TouchedIs
  <2> QED BY <1>1, <1>2, <1>3, <2>2 DEF Touches, w
<1>4. CASE e.type \notin Touches
  <2> DEFINE st == CASE e.type = "task.delegated" -> "delegated"
                     [] e.type = "task.started" -> "working"
                     [] e.type = "task.status_changed" -> e.data
                     [] e.type = "task.retry_scheduled" -> "retrying"
                     [] e.type = "task.blocked" -> "blocked"
  <2>1. w = WithTask(v, e.task, st) /\ st \in TaskStates
    BY <1>1, <1>4 DEF Reduce, TerminalType, TaskStates
  <2>2. /\ e.type = "task.delegated" => st = "delegated"
        /\ e.type = "task.started" => st = "working"
        /\ e.type = "task.status_changed" => st = e.data
        /\ e.type = "task.retry_scheduled" => st = "retrying"
        /\ e.type = "task.blocked" => st = "blocked"
    OBVIOUS
  <2> HIDE DEF w, st
  <2>3. /\ ViewOK(w) /\ w.task = [v.task EXCEPT ![e.task] = st]
        /\ w.run = v.run /\ w.tool = v.tool /\ w.round = v.round /\ w.message = v.message
        /\ w.thinking = v.thinking /\ w.approval = v.approval /\ w.mode = v.mode
    BY <1>1, <2>1, WithTaskIs
  <2> QED BY <1>1, <1>2, <1>4, <2>2, <2>3 DEF w
<1> QED BY <1>3, <1>4

\* A task ends, and closes its calls.
LEMMA EndIs ==
  ASSUME NEW v, ViewOK(v), NEW e \in Events, e.type \in Endings
  PROVE  LET w == Reduce(v, e)
         IN /\ ViewOK(w) /\ e.task \in Tasks
            /\ \A t \in Tasks \ {e.task} : w.task[t] = v.task[t]
            /\ e.type = "task.completed" => w.task[e.task] = "completed"
            /\ e.type = "task.failed" => w.task[e.task] = "failed"
            /\ \A x \in Tools : /\ ToolTask[x] = e.task => w.tool[x] \in Closed \cup {"none"}
                                /\ ToolTask[x] # e.task => w.tool[x] = v.tool[x]
            /\ e.task \notin w.thinking /\ w.thinking \subseteq v.thinking
            /\ w.run = v.run /\ w.round = v.round /\ w.message = v.message
            /\ w.approval = v.approval /\ w.mode = v.mode
<1> DEFINE w == Reduce(v, e)
           st == IF e.type = "task.completed" THEN "completed" ELSE "failed"
<1>1. e.task \in Tasks /\ st \in TaskStates /\ st \in Closed /\ st \in ToolStates
  BY DEF Events, Proper, Endings, TaskStates, TerminalStatus, Closed, ToolStates
<1>2. w = OnTaskEnd(v, e)
  BY DEF Reduce, TerminalType, Endings
<1> DEFINE u == WithTask(v, e.task, st)
<1>3. ViewOK(u) /\ u.task = [v.task EXCEPT ![e.task] = st]
      /\ u.run = v.run /\ u.tool = v.tool /\ u.round = v.round /\ u.message = v.message
      /\ u.thinking = v.thinking /\ u.approval = v.approval /\ u.mode = v.mode
  BY <1>1, WithTaskIs
<1>4. w = [u EXCEPT !.tool = [x \in Tools |-> IF /\ ToolTask[x] = e.task
                                                /\ @[x] \notin Closed \cup {"none"}
                                             THEN st ELSE @[x]],
                   !.thinking = @ \ {e.task}]
  BY <1>2 DEF OnTaskEnd
<1> HIDE DEF u, st, w
<1>5. RecordOK(w)
  BY <1>3, <1>4 DEF ViewOK, RecordOK, Fields
<1>6. /\ w.task = u.task /\ w.run = u.run /\ w.round = u.round /\ w.message = u.message
      /\ w.approval = u.approval /\ w.mode = u.mode /\ w.thinking = u.thinking \ {e.task}
  BY <1>3, <1>4 DEF ViewOK, RecordOK, Fields
<1>7. w.tool = [x \in Tools |-> IF /\ ToolTask[x] = e.task /\ u.tool[x] \notin Closed \cup {"none"}
                                THEN st ELSE u.tool[x]]
  BY <1>3, <1>4 DEF ViewOK, RecordOK, Fields
<1>8. w.tool \in [Tools -> ToolStates]
  BY <1>1, <1>3, <1>7 DEF ViewOK
<1>9. ViewOK(w)
  BY <1>3, <1>5, <1>6, <1>8 DEF ViewOK
<1>10. \A x \in Tools : /\ ToolTask[x] = e.task => w.tool[x] \in Closed \cup {"none"}
                        /\ ToolTask[x] # e.task => w.tool[x] = v.tool[x]
  BY <1>1, <1>3, <1>7 DEF Closed
<1>11. /\ \A t \in Tasks \ {e.task} : w.task[t] = v.task[t]
       /\ w.task[e.task] = st /\ e.task \notin w.thinking /\ w.thinking \subseteq v.thinking
  BY <1>1, <1>3, <1>6 DEF ViewOK
<1>12. w.run = v.run /\ w.round = v.round /\ w.message = v.message
       /\ w.approval = v.approval /\ w.mode = v.mode
  BY <1>3, <1>6
<1>13. (e.type = "task.completed" => st = "completed") /\ (e.type = "task.failed" => st = "failed")
  BY DEF st
<1>14. e.task \in Tasks
  BY <1>1
<1>15. /\ e.type = "task.completed" => w.task[e.task] = "completed"
       /\ e.type = "task.failed" => w.task[e.task] = "failed"
  BY <1>11, <1>13
<1> QED BY <1>9, <1>10, <1>11, <1>12, <1>14, <1>15 DEF w

\* A call starts or ends; the agent thinks.
LEMMA CallIs ==
  ASSUME NEW v, ViewOK(v), NEW e \in Events,
         e.type \in {"tool.called", "tool.completed", "agent.thinking_delta"}
  PROVE  LET w == Reduce(v, e)
         IN /\ ViewOK(w) /\ e.task \in Tasks
            /\ w.task = [v.task EXCEPT ![e.task] = IF @ = "none" THEN "queued" ELSE @]
            /\ \A x \in Tools : ToolTask[x] # e.task => w.tool[x] = v.tool[x]
            /\ w.thinking \subseteq v.thinking \cup {e.task}
            /\ w.run = v.run /\ w.round = v.round /\ w.message = v.message
            /\ w.approval = v.approval /\ w.mode = v.mode
<1> DEFINE w == Reduce(v, e)
           u == Touched(v, e.task)
<1>1. e.task \in Tasks
  BY DEF Events, Proper
<1>2. ViewOK(u) /\ u.task = [v.task EXCEPT ![e.task] = IF @ = "none" THEN "queued" ELSE @]
      /\ u.run = v.run /\ u.tool = v.tool /\ u.round = v.round /\ u.message = v.message
      /\ u.thinking = v.thinking /\ u.approval = v.approval /\ u.mode = v.mode
  BY <1>1, TouchedIs
<1>3. CASE e.type = "tool.called"
  <2>1. e.data \in Tools /\ e.task = ToolTask[e.data]
    BY <1>3 DEF Events, Proper
  <2>2. w = [u EXCEPT !.tool[e.data] = "working", !.thinking = @ \ {e.task}]
    BY <1>3 DEF Reduce, TerminalType, OnToolCalled
  <2> HIDE DEF u, w
  <2>3. /\ RecordOK(w) /\ w.task = u.task /\ w.thinking = u.thinking \ {e.task}
        /\ w.tool = [u.tool EXCEPT ![e.data] = "working"]
    BY <1>2, <2>2 DEF ViewOK, RecordOK, Fields
  <2>4. /\ w.run = u.run /\ w.round = u.round /\ w.message = u.message
        /\ w.approval = u.approval /\ w.mode = u.mode
    BY <1>2, <2>2 DEF ViewOK, RecordOK, Fields
  <2>5. w.tool \in [Tools -> ToolStates]
    BY <1>2, <2>1, <2>3 DEF ViewOK, ToolStates
  <2>6. ViewOK(w)
    BY <1>2, <2>3, <2>4, <2>5 DEF ViewOK
  <2>7. \A x \in Tools : ToolTask[x] # e.task => w.tool[x] = v.tool[x]
    BY <1>2, <2>1, <2>3 DEF ViewOK
  <2> QED BY <1>1, <1>2, <2>3, <2>4, <2>6, <2>7 DEF w
<1>4. CASE e.type = "tool.completed"
  <2> DEFINE st == IF e.data.error THEN "failed" ELSE "completed"
             at == e.data.tool
  <2>1. at \in Tools /\ e.task = ToolTask[at] /\ st \in ToolStates
    BY <1>4 DEF Events, Proper, Outcomes, ToolStates
  <2>2. w = [u EXCEPT !.tool[at] = st]
    BY <1>4 DEF Reduce, TerminalType, OnToolCompleted
  <2> HIDE DEF u, w, st, at
  <2>3. /\ RecordOK(w) /\ w.task = u.task /\ w.thinking = u.thinking
        /\ w.tool = [u.tool EXCEPT ![at] = st]
    BY <1>2, <2>2 DEF ViewOK, RecordOK, Fields
  <2>4. /\ w.run = u.run /\ w.round = u.round /\ w.message = u.message
        /\ w.approval = u.approval /\ w.mode = u.mode
    BY <1>2, <2>2 DEF ViewOK, RecordOK, Fields
  <2>5. w.tool \in [Tools -> ToolStates]
    BY <1>2, <2>1, <2>3 DEF ViewOK
  <2>6. ViewOK(w)
    BY <1>2, <2>3, <2>4, <2>5 DEF ViewOK
  <2>7. \A x \in Tools : ToolTask[x] # e.task => w.tool[x] = v.tool[x]
    BY <1>2, <2>1, <2>3 DEF ViewOK
  <2> QED BY <1>1, <1>2, <2>3, <2>4, <2>6, <2>7 DEF w
<1>5. CASE e.type = "agent.thinking_delta"
  <2>1. w = [u EXCEPT !.thinking = @ \cup {e.task}]
    BY <1>5 DEF Reduce, TerminalType, OnThinking
  <2> HIDE DEF u, w
  <2>2. /\ RecordOK(w) /\ w.task = u.task
        /\ w.thinking = u.thinking \cup {e.task} /\ w.tool = u.tool
    BY <1>2, <2>1 DEF ViewOK, RecordOK, Fields
  <2>3. /\ w.run = u.run /\ w.round = u.round /\ w.message = u.message
        /\ w.approval = u.approval /\ w.mode = u.mode
    BY <1>2, <2>1 DEF ViewOK, RecordOK, Fields
  <2>4. ViewOK(w)
    BY <1>2, <2>2, <2>3 DEF ViewOK
  <2> QED BY <1>1, <1>2, <2>2, <2>3, <2>4 DEF w
<1> QED BY <1>3, <1>4, <1>5

\* An agent, or the Host, says something, has said it, or takes it back.
LEMMA MessageIs ==
  ASSUME NEW v, ViewOK(v), NEW e \in Events,
         e.type \in {"message.delta", "message.completed", "message.reset"}
  PROVE  LET w == Reduce(v, e)
         IN /\ ViewOK(w) /\ e.task \in Tasks
            /\ \A t \in Tasks \ {e.task} : w.task[t] = v.task[t] /\ w.message[t] = v.message[t]
            /\ w.task[e.task] \in {v.task[e.task], "queued"}
            /\ v.task[e.task] # "none" => w.task[e.task] = v.task[e.task]
            /\ e.type = "message.completed" => w.message[e.task] = "report"
            /\ e.type = "message.delta" => w.message[e.task] = "draft"
            /\ e.type = "message.reset" =>
                 w.message[e.task] = v.message[e.task] \/ w.message[e.task] = "none"
            /\ e.type = "message.reset" /\ v.message[e.task] = "report" =>
                 w.message[e.task] = "report"
            /\ w.thinking \subseteq v.thinking
            /\ w.run = v.run /\ w.tool = v.tool /\ w.round = v.round
            /\ w.approval = v.approval /\ w.mode = v.mode
<1> DEFINE w == Reduce(v, e)
<1>1. e.task \in Tasks /\ e.task \in DOMAIN v.task /\ e.task \in DOMAIN v.message
  BY DEF Events, Proper, ViewOK
<1>2. CASE e.type = "message.reset"
  <2>1. w = OnReset(v, e)
    BY <1>2 DEF Reduce, TerminalType
  <2>2. CASE v.message[e.task] = "draft"
    <3>1. w = [v EXCEPT !.message[e.task] = "none", !.progress = @ \cup {e.task}]
      BY <2>1, <2>2 DEF OnReset
    <3> HIDE DEF w
    <3>2. /\ RecordOK(w) /\ w.message = [v.message EXCEPT ![e.task] = "none"]
          /\ w.task = v.task /\ w.thinking = v.thinking /\ w.tool = v.tool
      BY <3>1 DEF ViewOK, RecordOK, Fields
    <3>3. w.run = v.run /\ w.round = v.round /\ w.approval = v.approval /\ w.mode = v.mode
      BY <3>1 DEF ViewOK, RecordOK, Fields
    <3>4. w.message \in [Tasks -> MessageStates]
      BY <3>2 DEF ViewOK, MessageStates
    <3>5. ViewOK(w)
      BY <3>2, <3>3, <3>4 DEF ViewOK
    <3>6. /\ \A t \in Tasks \ {e.task} : w.message[t] = v.message[t]
          /\ w.message[e.task] = "none"
      BY <1>1, <3>2 DEF ViewOK
    <3> QED BY <1>1, <1>2, <2>2, <3>2, <3>3, <3>5, <3>6 DEF w
  <2>3. CASE v.message[e.task] # "draft"
    <3>1. w = v
      BY <2>1, <2>3 DEF OnReset
    <3> HIDE DEF w
    <3> QED BY <1>1, <1>2, <3>1 DEF w
  <2> QED BY <2>2, <2>3
<1>3. CASE e.type # "message.reset"
  <2> DEFINE u == Touched(v, e.task)
             done == e.type = "message.completed"
             said == IF done THEN "report" ELSE "draft"
  <2>1. ViewOK(u) /\ u.task = [v.task EXCEPT ![e.task] = IF @ = "none" THEN "queued" ELSE @]
        /\ u.run = v.run /\ u.tool = v.tool /\ u.round = v.round /\ u.message = v.message
        /\ u.thinking = v.thinking /\ u.approval = v.approval /\ u.mode = v.mode
    BY <1>1, TouchedIs
  <2>2. w = [u EXCEPT !.message[e.task] = said,
                      !.thinking = IF done THEN @ ELSE @ \ {e.task},
                      !.summary = @ \/ (done /\ e.task = Root /\ v.mode # "direct")]
    BY <1>3 DEF Reduce, TerminalType, OnMessage
  <2>3. said \in MessageStates
    BY DEF MessageStates
  <2>4. /\ e.type = "message.completed" => said = "report"
        /\ e.type = "message.delta" => said = "draft"
    OBVIOUS
  <2> HIDE DEF u, w, said, done
  <2>5. /\ RecordOK(w) /\ w.message = [u.message EXCEPT ![e.task] = said]
        /\ w.task = u.task /\ w.thinking \subseteq u.thinking /\ w.tool = u.tool
    BY <2>1, <2>2 DEF ViewOK, RecordOK, Fields
  <2>6. w.run = u.run /\ w.round = u.round /\ w.approval = u.approval /\ w.mode = u.mode
    BY <2>1, <2>2 DEF ViewOK, RecordOK, Fields
  <2>7. w.message \in [Tasks -> MessageStates]
    BY <2>1, <2>3, <2>5 DEF ViewOK
  <2>8. ViewOK(w)
    BY <2>1, <2>5, <2>6, <2>7 DEF ViewOK
  <2>9. w.message[e.task] = said /\ \A t \in Tasks \ {e.task} : w.message[t] = v.message[t]
    <3>1. u.message \in [Tasks -> MessageStates]
      BY <2>1 DEF ViewOK
    <3> QED BY <1>1, <2>1, <2>5, <3>1
  <2>10. /\ w.task[e.task] = IF v.task[e.task] = "none" THEN "queued" ELSE v.task[e.task]
         /\ \A t \in Tasks \ {e.task} : w.task[t] = v.task[t]
    <3>1. v.task \in [Tasks -> TaskStates]
      BY DEF ViewOK
    <3> QED BY <1>1, <2>1, <2>5, <3>1
  <2>11. w.task[e.task] \in {v.task[e.task], "queued"}
         /\ (v.task[e.task] # "none" => w.task[e.task] = v.task[e.task])
    BY <2>10
  <2>12. w.thinking \subseteq v.thinking /\ w.run = v.run /\ w.tool = v.tool /\ w.round = v.round
         /\ w.approval = v.approval /\ w.mode = v.mode
    BY <2>1, <2>5, <2>6
  <2> QED BY <1>1, <1>3, <2>4, <2>8, <2>9, <2>10, <2>11, <2>12 DEF w
<1> QED BY <1>2, <1>3

\* An approval that is asked for, or decided, is about the calls of its task.
LEMMA CardCalls ==
  ASSUME NEW v, ViewOK(v), NEW e \in Events, e.type \in {"approval.required", "approval.decided"},
         NEW x \in Tools, ToolTask[x] # e.task
  PROVE  Reduce(v, e).tool[x] = v.tool[x]
<1>1. CASE e.type = "approval.required"
  <2>1. Reduce(v, e) = OnApprovalRequired(v, e)
    BY <1>1 DEF Reduce, TerminalType
  <2>2. OnApprovalRequired(v, e).tool[x] = v.tool[x]
    BY DEF OnApprovalRequired, ViewOK, RecordOK, Fields
  <2> QED BY <2>1, <2>2
<1>2. CASE e.type = "approval.decided"
  <2>1. Reduce(v, e) = OnApprovalDecided(v, e)
    BY <1>2 DEF Reduce, TerminalType
  <2>2. OnApprovalDecided(v, e).tool = v.tool
    BY DEF OnApprovalDecided, ViewOK, RecordOK, Fields
  <2> QED BY <2>1, <2>2
<1> QED BY <1>1, <1>2

\* An approval is asked for, or decided.
LEMMA CardIs ==
  ASSUME NEW v, ViewOK(v), NEW e \in Events, e.type \in {"approval.required", "approval.decided"}
  PROVE  LET w == Reduce(v, e)
         IN /\ ViewOK(w)
            /\ e.type = "approval.required" =>
                 /\ e.data \in Approvals /\ w.run = "approval_required"
                 /\ w.approval = [v.approval EXCEPT ![e.data] = "pending"]
            /\ e.type = "approval.decided" =>
                 /\ e.data.approval \in Approvals /\ w.run = v.run
                 /\ \A a \in Approvals \ {e.data.approval} : w.approval[a] = v.approval[a]
            /\ w.task = v.task /\ w.round = v.round /\ w.message = v.message
            /\ w.thinking = v.thinking /\ w.mode = v.mode
<1> DEFINE w == Reduce(v, e)
<1>1. CASE e.type = "approval.required"
  <2> DEFINE waits(x) == ToolTask[x] = e.task /\ v.task[e.task] # "none"
             gated == ApprovalTool[e.data]
             tools == [x \in Tools |->
                        IF ~waits(x) THEN v.tool[x]
                        ELSE IF x = gated /\ v.tool[x] \notin Closed \cup {"none"}
                             THEN "approval_required"
                        ELSE IF v.tool[x] = "working" THEN "waiting" ELSE v.tool[x]]
  <2>1. w = [v EXCEPT !.tool = tools, !.approval[e.data] = "pending", !.run = "approval_required"]
    BY <1>1 DEF Reduce, TerminalType, OnApprovalRequired, ViewOK, RecordOK, Fields
  <2>2. e.data \in Approvals
    BY <1>1 DEF Events, Proper
  <2>3. tools \in [Tools -> ToolStates]
    BY DEF ViewOK, ToolStates, Closed
  <2> HIDE DEF tools, w
  <2>4. /\ RecordOK(w) /\ w.tool = tools /\ w.run = "approval_required"
        /\ w.approval = [v.approval EXCEPT ![e.data] = "pending"]
    BY <2>1 DEF ViewOK, RecordOK, Fields
  <2>5. /\ w.task = v.task /\ w.round = v.round /\ w.message = v.message
        /\ w.thinking = v.thinking /\ w.mode = v.mode
    BY <2>1 DEF ViewOK, RecordOK, Fields
  <2>6. w.approval \in [Approvals -> CardStates]
    BY <2>2, <2>4 DEF ViewOK, CardStates
  <2>7. ViewOK(w)
    BY <2>3, <2>4, <2>5, <2>6 DEF ViewOK
  <2> QED BY <1>1, <2>2, <2>3, <2>4, <2>5, <2>7 DEF w
<1>2. CASE e.type = "approval.decided"
  <2>1. e.data.approval \in Approvals /\ e.data.decision \in CardStates
    BY <1>2 DEF Events, Proper, Verdicts, CardStates
  <2>2. w = v \/ w = [v EXCEPT !.approval[e.data.approval] = e.data.decision]
    BY <1>2 DEF Reduce, TerminalType, OnApprovalDecided
  <2> HIDE DEF w
  <2>3. CASE w = v
    BY <1>2, <2>1, <2>3 DEF w
  <2>4. CASE w = [v EXCEPT !.approval[e.data.approval] = e.data.decision]
    <3>1. /\ RecordOK(w) /\ w.tool = v.tool /\ w.run = v.run
          /\ w.approval = [v.approval EXCEPT ![e.data.approval] = e.data.decision]
      BY <2>4 DEF ViewOK, RecordOK, Fields
    <3>2. /\ w.task = v.task /\ w.round = v.round /\ w.message = v.message
          /\ w.thinking = v.thinking /\ w.mode = v.mode
      BY <2>4 DEF ViewOK, RecordOK, Fields
    <3>3. w.approval \in [Approvals -> CardStates]
      BY <2>1, <3>1 DEF ViewOK
    <3>4. ViewOK(w)
      BY <3>1, <3>2, <3>3 DEF ViewOK
    <3>5. \A a \in Approvals \ {e.data.approval} : w.approval[a] = v.approval[a]
      BY <3>1 DEF ViewOK
    <3> QED BY <1>2, <2>1, <3>1, <3>2, <3>4, <3>5 DEF w
  <2> QED BY <2>2, <2>3, <2>4
<1> QED BY <1>1, <1>2

\* The start of a synthesis is for the stage only.
LEMMA SynthesisIs ==
  ASSUME NEW v, NEW e \in Events, e.type = "host.synthesis_started"
  PROVE  Reduce(v, e) = v
BY DEF Reduce, TerminalType

\* What any event leaves of the view, and what it may change.
RunSays == {"run.started", "host.planning"}

LEMMA ReduceIs ==
  ASSUME NEW v, ViewOK(v), NEW e \in Events
  PROVE  LET w == Reduce(v, e)
         IN /\ ViewOK(w)
            /\ e.type \notin TerminalType \cup RunSays \cup {"approval.required"} => w.run = v.run
            /\ \A t \in Tasks \ {e.task} :
                 /\ \/ w.task[t] = v.task[t]
                    \/ v.task[t] = "none" /\ w.task[t] = "queued"
                    \/ v.task[t] \in InProgress /\ w.task[t] \in TerminalStatus
                 /\ t \in w.thinking => t \in v.thinking
            /\ \A x \in Tools : ToolTask[x] # e.task => w.tool[x] = v.tool[x]
            /\ \A t \in Tasks :
                 /\ w.message[t] = "report" =>
                      v.message[t] = "report" \/ (e.type = "message.completed" /\ e.task = t)
                 /\ v.message[t] = "report" =>
                      w.message[t] = "report" \/ (e.type = "message.delta" /\ e.task = t)
            /\ \A a \in Approvals : v.approval[a] = "pending" =>
                 w.approval[a] = "pending" \/ (e.type = "approval.decided" /\ e.data.approval = a)
            /\ e.type = "approval.required" =>
                 w.run = "approval_required" /\ w.approval[e.data] = "pending"
<1> DEFINE w == Reduce(v, e)
<1>0. /\ e.type \in Types /\ v.task \in [Tasks -> TaskStates] /\ v.approval \in [Approvals -> CardStates]
      /\ e.type \in TerminalType => e.type \notin {"message.completed", "message.delta",
                                                   "approval.required", "approval.decided"}
  BY DEF Events, ViewOK, TerminalType
<1>1. CASE e.type \in TerminalType
  <2>1. /\ ViewOK(w) /\ w.tool = v.tool /\ w.message = v.message /\ w.thinking = v.thinking
        /\ w.approval = v.approval /\ w.run \in TerminalStatus
        /\ w.task = [t \in Tasks |-> IF v.task[t] \in InProgress THEN w.run ELSE v.task[t]]
    BY <1>1, TerminalIs
  <2> HIDE DEF w
  <2> QED BY <1>0, <1>1, <2>1 DEF w
<1>2. CASE e.type \in RunSays
  <2>1. /\ ViewOK(w) /\ w.tool = v.tool /\ w.message = v.message /\ w.thinking = v.thinking
        /\ w.approval = v.approval /\ w.task = v.task
    BY <1>2, RunIs DEF RunSays
  <2> HIDE DEF w
  <2> QED BY <1>0, <1>2, <2>1 DEF w, RunSays
<1>3. CASE e.type \in {"host.round_started", "host.round_completed", "host.decision_created"}
  <2>1. /\ ViewOK(w) /\ w.tool = v.tool /\ w.message = v.message /\ w.thinking = v.thinking
        /\ w.approval = v.approval /\ w.run = v.run
        /\ \A t \in Tasks : w.task[t] = v.task[t] \/ (v.task[t] = "none" /\ w.task[t] = "queued")
    BY <1>3, RoundIs
  <2> HIDE DEF w
  <2> QED BY <1>0, <1>3, <2>1 DEF w
<1>4. CASE e.type \in {"task.delegated", "task.started", "task.status_changed",
                       "task.retry_scheduled", "task.blocked"} \cup Touches
  <2>1. /\ ViewOK(w) /\ w.tool = v.tool /\ w.message = v.message /\ w.thinking = v.thinking
        /\ w.approval = v.approval /\ w.run = v.run
        /\ \A t \in Tasks \ {e.task} : w.task[t] = v.task[t]
    BY <1>4, StatusIs
  <2>2. e.type \notin {"approval.required", "approval.decided"}
    BY <1>4 DEF Touches
  <2> HIDE DEF w
  <2> QED BY <1>0, <2>1, <2>2 DEF w
<1>5. CASE e.type \in Endings
  <2>1. /\ ViewOK(w) /\ w.message = v.message /\ w.thinking \subseteq v.thinking
        /\ w.approval = v.approval /\ w.run = v.run
        /\ \A t \in Tasks \ {e.task} : w.task[t] = v.task[t]
        /\ \A x \in Tools : ToolTask[x] # e.task => w.tool[x] = v.tool[x]
    BY <1>5, EndIs
  <2>2. e.type \notin {"approval.required", "approval.decided"}
    BY <1>5 DEF Endings
  <2> HIDE DEF w
  <2> QED BY <1>0, <2>1, <2>2 DEF w
<1>6. CASE e.type \in {"tool.called", "tool.completed", "agent.thinking_delta"}
  <2>1. /\ ViewOK(w) /\ w.message = v.message /\ w.thinking \subseteq v.thinking \cup {e.task}
        /\ w.approval = v.approval /\ w.run = v.run
        /\ w.task = [v.task EXCEPT ![e.task] = IF @ = "none" THEN "queued" ELSE @]
        /\ \A x \in Tools : ToolTask[x] # e.task => w.tool[x] = v.tool[x]
    BY <1>6, CallIs
  <2> HIDE DEF w
  <2> QED BY <1>0, <1>6, <2>1 DEF w
<1>7. CASE e.type \in {"message.delta", "message.completed", "message.reset"}
  <2>1. /\ ViewOK(w) /\ e.task \in Tasks
        /\ \A t \in Tasks \ {e.task} : w.task[t] = v.task[t] /\ w.message[t] = v.message[t]
        /\ w.thinking \subseteq v.thinking
        /\ w.run = v.run /\ w.tool = v.tool /\ w.approval = v.approval
    BY <1>7, MessageIs
  <2>2. /\ e.type = "message.completed" => w.message[e.task] = "report"
        /\ e.type = "message.delta" => w.message[e.task] = "draft"
        /\ e.type = "message.reset" => w.message[e.task] = v.message[e.task] \/ w.message[e.task] = "none"
        /\ e.type = "message.reset" /\ v.message[e.task] = "report" => w.message[e.task] = "report"
    BY <1>7, MessageIs
  <2> HIDE DEF w
  <2>3. \A t \in Tasks :
          /\ w.message[t] = "report" =>
               v.message[t] = "report" \/ (e.type = "message.completed" /\ e.task = t)
          /\ v.message[t] = "report" =>
               w.message[t] = "report" \/ (e.type = "message.delta" /\ e.task = t)
    BY <1>7, <2>1, <2>2
  <2> QED BY <1>0, <1>7, <2>1, <2>3 DEF w
<1>8. CASE e.type \in {"approval.required", "approval.decided"}
  <2>1. /\ ViewOK(w) /\ w.message = v.message /\ w.thinking = v.thinking /\ w.task = v.task
    BY <1>8, CardIs
  <2>a. ASSUME NEW x \in Tools, ToolTask[x] # e.task PROVE w.tool[x] = v.tool[x]
    BY <1>8, <2>a, CardCalls
  <2>2. /\ e.type = "approval.required" =>
             /\ e.data \in Approvals /\ w.run = "approval_required"
             /\ w.approval = [v.approval EXCEPT ![e.data] = "pending"]
        /\ e.type = "approval.decided" =>
             /\ e.data.approval \in Approvals /\ w.run = v.run
             /\ \A a \in Approvals \ {e.data.approval} : w.approval[a] = v.approval[a]
    BY <1>8, CardIs
  <2> HIDE DEF w
  <2>3. /\ \A a \in Approvals : v.approval[a] = "pending" =>
             w.approval[a] = "pending" \/ (e.type = "approval.decided" /\ e.data.approval = a)
        /\ e.type = "approval.required" =>
             w.run = "approval_required" /\ w.approval[e.data] = "pending"
    BY <1>0, <1>8, <2>2
  <2>4. e.type \notin {"approval.required"} => w.run = v.run
    BY <1>8, <2>2
  <2> QED BY <1>0, <1>8, <2>1, <2>a, <2>3, <2>4 DEF w
<1>9. CASE e.type = "host.synthesis_started"
  <2>1. w = v
    BY <1>9, SynthesisIs
  <2> HIDE DEF w
  <2> QED BY <1>0, <1>9, <2>1 DEF w
<1> HIDE DEF w
<1> QED BY <1>0, <1>1, <1>2, <1>3, <1>4, <1>5, <1>6, <1>7, <1>8, <1>9 DEF Types, HostTypes, RunSays

\* What an event does to the task it names, when it is one the Host delegated.
LEMMA OwnEventIs ==
  ASSUME NEW v, ViewOK(v), NEW e \in Events, e.task \in Children
  PROVE  LET w == Reduce(v, e)
         IN /\ e.type \notin TerminalType \cup HostTypes
            /\ e.type \in Endings =>
                 /\ w.task[e.task] = IF e.type = "task.completed" THEN "completed" ELSE "failed"
                 /\ e.task \notin w.thinking
                 /\ \A x \in Tools : ToolTask[x] = e.task => w.tool[x] \in Closed \cup {"none"}
            /\ e.type \notin Endings \cup {"task.delegated", "task.started", "task.status_changed",
                                           "task.retry_scheduled"} =>
                 w.task[e.task] \in {v.task[e.task], "queued", "blocked"}
<1> DEFINE w == Reduce(v, e)
<1>0. e.type \in Types /\ e.type \notin TerminalType \cup HostTypes /\ e.task \in Tasks
  BY DEF Events, Proper, Children
<1>1. CASE e.type \in Endings
  <2>1. /\ e.type = "task.completed" => w.task[e.task] = "completed"
        /\ e.type = "task.failed" => w.task[e.task] = "failed"
        /\ e.task \notin w.thinking
    BY <1>1, EndIs
  <2>2. \A x \in Tools : ToolTask[x] = e.task => w.tool[x] \in Closed \cup {"none"}
    BY <1>1, EndIs
  <2> HIDE DEF w
  <2> QED BY <1>0, <1>1, <2>1, <2>2 DEF Endings, w
<1>2. CASE e.type \in {"task.delegated", "task.started", "task.status_changed", "task.retry_scheduled"}
  BY <1>0, <1>2 DEF Endings
<1>3. CASE e.type \in {"task.blocked"} \cup Touches
  BY <1>0, <1>3, StatusIs DEF Endings, Touches
<1>4. CASE e.type = "run.started"
  BY <1>0, <1>4, RunIs DEF Endings
<1>5. CASE e.type \in {"tool.called", "tool.completed", "agent.thinking_delta"}
  <2>1. w.task = [v.task EXCEPT ![e.task] = IF @ = "none" THEN "queued" ELSE @]
    BY <1>5, CallIs
  <2>2. v.task \in [Tasks -> TaskStates]
    BY DEF ViewOK
  <2> QED BY <1>0, <1>5, <2>1, <2>2 DEF Endings
<1>6. CASE e.type \in {"message.delta", "message.completed", "message.reset"}
  BY <1>0, <1>6, MessageIs DEF Endings
<1>7. CASE e.type \in {"approval.required", "approval.decided"}
  BY <1>0, <1>7, CardIs DEF Endings
<1> HIDE DEF w
<1> QED BY <1>0, <1>1, <1>2, <1>3, <1>4, <1>5, <1>6, <1>7 DEF Types

-----------------------------------------------------------------------------
(***************************************************************************)
(* The rows, the stage and the feed, event by event, and what they share   *)
(* with the view.                                                          *)
(***************************************************************************)
RowStates == RunTerminal \cup {"none", "pending", "working", "blocked", "approval_required"}
Rows == [Tasks -> RowStates]

FeedNames == {"none", "failed", "canceled", "partial", "evidence_insufficient", "completed",
              "input-required", "working", "submitted"}

FeedOK(f) ==
  /\ f = [run |-> f.run, task |-> f.task, tool |-> f.tool]
  /\ f.task \in [Tasks -> FeedNames] /\ f.tool \in [Tools -> FeedNames]

LEMMA FeedNamesAre ==
  ASSUME NEW ty
  PROVE  FeedState(ty) \in FeedNames
<1>1. CASE ty \in {"run.partial", "run.evidence_insufficient"}
  <2>1. FeedState(ty) = StatusOf(ty) /\ StatusOf(ty) \in {"partial", "evidence_insufficient"}
    BY <1>1 DEF FeedState, StatusOf
  <2> QED BY <2>1 DEF FeedNames
<1>2. CASE ty \notin {"run.partial", "run.evidence_insufficient"}
  BY <1>2 DEF FeedState, FeedNames
<1> QED BY <1>1, <1>2

LEMMA RowIs ==
  ASSUME NEW r \in Rows, NEW e \in Events
  PROVE  LET q == ApplyEvent(r, e)
         IN /\ q \in Rows
            /\ \A t \in Tasks \ {e.task} : q[t] = r[t] \/ (r[t] = "none" /\ q[t] = "pending")
            /\ e.task \in Tasks => q[e.task] = RowStatus(e)
            /\ e.type = "task.completed" => RowStatus(e) = "completed"
            /\ e.type = "task.failed" => RowStatus(e) = "failed"
            /\ e.type \notin Endings => RowStatus(e) \notin Closed \cup {"none", "pending"}
            /\ e.type \notin {"task.blocked"} => RowStatus(e) # "blocked"
            /\ e.type = "task.status_changed" => RowStatus(e) = e.data
<1> DEFINE created == [t \in Tasks |->
              IF e.type = "host.decision_created" /\ r[t] = "none" /\ InSeq(e.data.tasks, t)
              THEN "pending" ELSE r[t]]
<1>1. /\ e.type = "task.completed" => RowStatus(e) = "completed"
      /\ e.type = "task.failed" => RowStatus(e) = "failed"
      /\ e.type \notin Endings => RowStatus(e) \notin Closed \cup {"none", "pending"}
      /\ e.type \notin {"task.blocked"} => RowStatus(e) # "blocked"
      /\ e.type = "task.status_changed" => RowStatus(e) = e.data
      /\ RowStatus(e) \in RowStates
  BY DEF RowStatus, Events, Proper, Endings, Closed, RowStates, RunTerminal, TerminalStatus
<1>2. /\ created \in Rows
      /\ \A t \in Tasks : created[t] = r[t] \/ (r[t] = "none" /\ created[t] = "pending")
  BY DEF Rows, RowStates
<1>3. ApplyEvent(r, e) = IF e.task \in Tasks THEN [created EXCEPT ![e.task] = RowStatus(e)]
                         ELSE created
  BY DEF ApplyEvent
<1> HIDE DEF created
<1>4. CASE e.task \in Tasks
  <2>1. ApplyEvent(r, e) = [created EXCEPT ![e.task] = RowStatus(e)]
    BY <1>3, <1>4
  <2>2. ApplyEvent(r, e) \in Rows /\ ApplyEvent(r, e)[e.task] = RowStatus(e)
    BY <1>1, <1>2, <1>4, <2>1 DEF Rows
  <2>3. \A t \in Tasks \ {e.task} : ApplyEvent(r, e)[t] = created[t]
    BY <1>2, <2>1 DEF Rows
  <2> QED BY <1>1, <1>2, <2>2, <2>3
<1>5. CASE e.task \notin Tasks
  <2>1. ApplyEvent(r, e) = created
    BY <1>3, <1>5
  <2> QED BY <1>1, <1>2, <1>5, <2>1
<1> QED BY <1>4, <1>5

LEMMA FeedIs ==
  ASSUME NEW f, FeedOK(f), NEW e \in Events
  PROVE  LET g == ReduceFeed(f, e)
         IN /\ FeedOK(g)
            /\ \A t \in Tasks \ {e.task} : g.task[t] = f.task[t]
            /\ e.task \in Tasks => g.task[e.task] = FeedState(e.type)
<1> DEFINE g == ReduceFeed(f, e)
<1>0. FeedState(e.type) \in FeedNames
  BY FeedNamesAre
<1>1. g.task = IF e.task \in Tasks THEN [f.task EXCEPT ![e.task] = FeedState(e.type)] ELSE f.task
  BY DEF ReduceFeed
<1>2. g = [run |-> g.run, task |-> g.task, tool |-> g.tool]
  BY DEF ReduceFeed
<1>3. \/ g.tool = f.tool
      \/ \E x, st : st \in FeedNames /\ g.tool = [f.tool EXCEPT ![x] = st]
  <2>1. CASE e.type = "tool.called"
    <3>1. g.tool = [f.tool EXCEPT ![e.data] = "working"]
      BY <2>1 DEF ReduceFeed
    <3> QED BY <3>1 DEF FeedNames
  <2>2. CASE e.type = "tool.completed"
    <3> DEFINE st == IF e.data.error THEN "failed" ELSE "completed"
    <3>1. g.tool = [f.tool EXCEPT ![e.data.tool] = st] /\ st \in FeedNames
      BY <2>2 DEF ReduceFeed, FeedNames
    <3> HIDE DEF st, g
    <3> QED BY <3>1
  <2>3. CASE e.type \notin {"tool.called", "tool.completed"}
    BY <2>3 DEF ReduceFeed
  <2> QED BY <2>1, <2>2, <2>3
<1> HIDE DEF g
<1>5. g.tool \in [Tools -> FeedNames]
  BY <1>3 DEF FeedOK
<1>4. g.task \in [Tasks -> FeedNames] /\ (\A t \in Tasks \ {e.task} : g.task[t] = f.task[t])
      /\ (e.task \in Tasks => g.task[e.task] = FeedState(e.type))
  BY <1>0, <1>1 DEF FeedOK
<1> QED BY <1>2, <1>4, <1>5 DEF FeedOK, g

\* What they share about a task the Host delegated.
TaskAgrees(v, s, f, r, t) ==
  /\ r[t] \in Closed =>
       /\ v.task[t] \in {r[t]} \cup TerminalStatus
       /\ RunningCalls(v, t) = {} /\ t \notin v.thinking
       /\ f.task[t] = r[t]
  /\ v.task[t] \in InProgress \cup {"approval_required"} => t \in s.active
  /\ t \in s.active => r[t] \notin Closed \cup {"none", "pending", "blocked"}

\* An event of another task.
LEMMA OthersAgree ==
  ASSUME NEW v, ViewOK(v), NEW s, NEW f, FeedOK(f), NEW r \in Rows, NEW t \in Children,
         TaskAgrees(v, s, f, r, t), NEW e \in Events, e.task # t
  PROVE  TaskAgrees(Reduce(v, e), ReduceStage(s, e), ReduceFeed(f, e), ApplyEvent(r, e), t)
<1> DEFINE w == Reduce(v, e)
           x == ReduceStage(s, e)
           g == ReduceFeed(f, e)
           q == ApplyEvent(r, e)
<1>1. t \in Tasks \ {e.task} /\ t \in Tasks
  BY DEF Children
<1>2. /\ \/ w.task[t] = v.task[t]
         \/ v.task[t] = "none" /\ w.task[t] = "queued"
         \/ v.task[t] \in InProgress /\ w.task[t] \in TerminalStatus
      /\ t \in w.thinking => t \in v.thinking
  BY <1>1, ReduceIs
<1>3. \A c \in Tools : ToolTask[c] = t => w.tool[c] = v.tool[c]
  BY ReduceIs
<1>4. t \in x.active <=> t \in s.active
  BY DEF ReduceStage
<1>5. q[t] = r[t] \/ (r[t] = "none" /\ q[t] = "pending")
  BY <1>1, RowIs
<1>6. g.task[t] = f.task[t]
  BY <1>1, FeedIs
<1> HIDE DEF w, x, g, q
<1>7. q[t] \in Closed => r[t] = q[t]
  BY <1>5 DEF Closed
<1>8. RunningCalls(v, t) = {} => RunningCalls(w, t) = {}
  BY <1>3 DEF RunningCalls
<1>9. v.task[t] \in Closed \cup TerminalStatus => w.task[t] = v.task[t]
  BY <1>2 DEF InProgress, Closed, TerminalStatus
<1>10. q[t] \in Closed =>
         /\ w.task[t] \in {q[t]} \cup TerminalStatus
         /\ RunningCalls(w, t) = {} /\ t \notin w.thinking
         /\ g.task[t] = q[t]
  BY <1>2, <1>6, <1>7, <1>8, <1>9 DEF TaskAgrees
<1>11. w.task[t] \in InProgress \cup {"approval_required"} => t \in x.active
  BY <1>2, <1>4 DEF TaskAgrees, InProgress, TerminalStatus
<1>12. t \in x.active => q[t] \notin Closed \cup {"none", "pending", "blocked"}
  BY <1>4, <1>5 DEF TaskAgrees
<1> QED BY <1>10, <1>11, <1>12 DEF TaskAgrees, w, x, g, q

\* An event of its own. Only a change of status does not itself say that it is active.
LEMMA OwnAgrees ==
  ASSUME NEW v, ViewOK(v), NEW s, NEW f, FeedOK(f), NEW r \in Rows, NEW t \in Children,
         TaskAgrees(v, s, f, r, t), NEW e \in Events, e.task = t,
         e.type = "task.status_changed" => t \in s.active
  PROVE  TaskAgrees(Reduce(v, e), ReduceStage(s, e), ReduceFeed(f, e), ApplyEvent(r, e), t)
<1> DEFINE w == Reduce(v, e)
           x == ReduceStage(s, e)
           g == ReduceFeed(f, e)
           q == ApplyEvent(r, e)
<1>1. t \in Tasks /\ e.type \in Types
  BY DEF Children, Events
<1>2. /\ e.type \notin TerminalType \cup HostTypes
      /\ e.type \in Endings =>
           /\ w.task[t] = IF e.type = "task.completed" THEN "completed" ELSE "failed"
           /\ t \notin w.thinking
           /\ \A c \in Tools : ToolTask[c] = t => w.tool[c] \in Closed \cup {"none"}
      /\ e.type \notin Endings \cup {"task.delegated", "task.started", "task.status_changed",
                                     "task.retry_scheduled"} =>
           w.task[t] \in {v.task[t], "queued", "blocked"}
  BY OwnEventIs
<1>3. /\ q[t] = RowStatus(e)
      /\ e.type = "task.completed" => RowStatus(e) = "completed"
      /\ e.type = "task.failed" => RowStatus(e) = "failed"
      /\ e.type \notin Endings => RowStatus(e) \notin Closed \cup {"none", "pending"}
      /\ e.type \notin {"task.blocked"} => RowStatus(e) # "blocked"
  BY <1>1, RowIs
<1>4. g.task[t] = FeedState(e.type)
  BY <1>1, FeedIs
<1>5. /\ FeedState("task.completed") = "completed" /\ FeedState("task.failed") = "failed"
  BY DEF FeedState
<1>6. /\ e.type \in {"task.delegated", "task.started", "task.retry_scheduled"} => t \in x.active
      /\ e.type \in Endings \cup {"task.blocked"} => t \notin x.active
      /\ e.type \notin Endings \cup {"task.blocked", "task.delegated", "task.started",
                                     "task.retry_scheduled"} => x.active = s.active
  BY DEF ReduceStage, Endings
<1> HIDE DEF w, x, g, q
<1>7. CASE e.type \in Endings
  <2>1. q[t] \in Closed /\ w.task[t] = q[t] /\ g.task[t] = q[t]
    BY <1>2, <1>3, <1>4, <1>5, <1>7 DEF Endings, Closed
  <2>2. RunningCalls(w, t) = {} /\ t \notin w.thinking /\ t \notin x.active
    BY <1>2, <1>6, <1>7 DEF RunningCalls
  <2>3. w.task[t] \notin InProgress \cup {"approval_required"}
    BY <2>1 DEF Closed, InProgress
  <2> QED BY <2>1, <2>2, <2>3 DEF TaskAgrees, w, x, g, q
<1>8. CASE e.type \notin Endings
  <2>1. q[t] \notin Closed \cup {"none", "pending"}
    BY <1>3, <1>8
  <2>2. t \in x.active => q[t] # "blocked"
    BY <1>3, <1>6
  <2>3. w.task[t] \in InProgress \cup {"approval_required"} => t \in x.active
    <3>1. CASE e.type \in {"task.delegated", "task.started", "task.retry_scheduled"}
      BY <1>6, <3>1
    <3>2. CASE e.type = "task.status_changed"
      BY <1>6, <3>2 DEF Endings
    <3>3. CASE e.type = "task.blocked"
      <4>1. w.task[t] = "blocked"
        BY <1>1, <3>3, StatusIs DEF w
      <4> QED BY <4>1 DEF InProgress
    <3>4. CASE e.type \notin {"task.delegated", "task.started", "task.retry_scheduled",
                              "task.status_changed", "task.blocked"}
      <4>1. x.active = s.active /\ w.task[t] \in {v.task[t], "queued", "blocked"}
        BY <1>2, <1>6, <1>8, <3>4
      <4> QED BY <4>1 DEF TaskAgrees, InProgress
    <3> QED BY <3>1, <3>2, <3>3, <3>4
  <2> QED BY <2>1, <2>2, <2>3 DEF TaskAgrees, w, x, g, q
<1> QED BY <1>7, <1>8

-----------------------------------------------------------------------------
(***************************************************************************)
(* A stretch of events, one after the other, in the four folds at once.    *)
(***************************************************************************)
Viewing == INSTANCE SequenceLaws WITH Step <- Reduce
Staging == INSTANCE SequenceLaws WITH Step <- ReduceStage
Feeding == INSTANCE SequenceLaws WITH Step <- ReduceFeed
Setting == INSTANCE SequenceLaws WITH Step <- ApplyEvent

\* The view, the stage, the feed and the rows after each event of q.
Path(p, v, s, f, r, q) ==
  /\ p[0] = [view |-> v, stage |-> s, feed |-> f, row |-> r]
  /\ \A k \in Nat : k < Len(q) =>
       p[k + 1] = [view |-> Reduce(p[k].view, q[k + 1]),
                   stage |-> ReduceStage(p[k].stage, q[k + 1]),
                   feed |-> ReduceFeed(p[k].feed, q[k + 1]),
                   row |-> ApplyEvent(p[k].row, q[k + 1])]

\* It ends where the folds do.
ViewAfter(v, q) == FoldLeft(Reduce, v, q)
StageAfter(s, q) == FoldLeft(ReduceStage, s, q)
FeedAfter(f, q) == FoldLeft(ReduceFeed, f, q)
Ends(p, v, s, f, r, q) ==
  p[Len(q)] = [view |-> ViewAfter(v, q), stage |-> StageAfter(s, q),
               feed |-> FeedAfter(f, q), row |-> Applied(r, q)]

LEMMA AftersAre ==
  ASSUME NEW v, NEW s, NEW f, NEW r, NEW q
  PROVE  /\ Viewing!After(v, q) = ViewAfter(v, q)
         /\ Staging!After(s, q) = StageAfter(s, q)
         /\ Feeding!After(f, q) = FeedAfter(f, q)
         /\ Setting!After(r, q) = Applied(r, q)
<1>1. Viewing!After(v, q) = ViewAfter(v, q)
  BY DEF ViewAfter, Viewing!After, Viewing!FoldLeft, Viewing!MapThenFoldSet, Viewing!Max,
         FoldLeft, MapThenFoldSet, Max
<1>2. Staging!After(s, q) = StageAfter(s, q)
  BY DEF StageAfter, Staging!After, Staging!FoldLeft, Staging!MapThenFoldSet, Staging!Max,
         FoldLeft, MapThenFoldSet, Max
<1>3. Feeding!After(f, q) = FeedAfter(f, q)
  BY DEF FeedAfter, Feeding!After, Feeding!FoldLeft, Feeding!MapThenFoldSet, Feeding!Max,
         FoldLeft, MapThenFoldSet, Max
<1>4. Setting!After(r, q) = Applied(r, q)
  BY DEF Applied, Setting!After, Setting!FoldLeft, Setting!MapThenFoldSet, Setting!Max,
         FoldLeft, MapThenFoldSet, Max
<1> QED BY <1>1, <1>2, <1>3, <1>4

LEMMA PathExists ==
  ASSUME NEW v, NEW s, NEW f, NEW r, NEW q \in Seq(Events)
  PROVE  \E p : Path(p, v, s, f, r, q) /\ Ends(p, v, s, f, r, q)
<1> DEFINE n == Len(q)
<1>1. n \in Nat /\ DOMAIN q = 1..n
  OBVIOUS
<1> HIDE DEF n
<1>2. PICK vs : Viewing!Through(vs, v, q, n) /\ Viewing!After(v, q) = vs[1..n]
  BY <1>1, Viewing!FoldIs
<1>3. PICK ss : Staging!Through(ss, s, q, n) /\ Staging!After(s, q) = ss[1..n]
  BY <1>1, Staging!FoldIs
<1>4. PICK fs : Feeding!Through(fs, f, q, n) /\ Feeding!After(f, q) = fs[1..n]
  BY <1>1, Feeding!FoldIs
<1>5. PICK rs : Setting!Through(rs, r, q, n) /\ Setting!After(r, q) = rs[1..n]
  BY <1>1, Setting!FoldIs
<1> DEFINE p == [k \in Nat |-> [view |-> vs[1..k], stage |-> ss[1..k], feed |-> fs[1..k],
                               row |-> rs[1..k]]]
<1>6. p[0] = [view |-> v, stage |-> s, feed |-> f, row |-> r]
  BY <1>2, <1>3, <1>4, <1>5
     DEF Viewing!Through, Staging!Through, Feeding!Through, Setting!Through
<1>7. ASSUME NEW k \in Nat, k < n
      PROVE  p[k + 1] = [view |-> Reduce(p[k].view, q[k + 1]),
                         stage |-> ReduceStage(p[k].stage, q[k + 1]),
                         feed |-> ReduceFeed(p[k].feed, q[k + 1]),
                         row |-> ApplyEvent(p[k].row, q[k + 1])]
  <2>1. vs[1..(k + 1)] = Reduce(vs[1..k], q[k + 1])
    BY <1>2, <1>7 DEF Viewing!Through
  <2>2. ss[1..(k + 1)] = ReduceStage(ss[1..k], q[k + 1])
    BY <1>3, <1>7 DEF Staging!Through
  <2>3. fs[1..(k + 1)] = ReduceFeed(fs[1..k], q[k + 1])
    BY <1>4, <1>7 DEF Feeding!Through
  <2>4. rs[1..(k + 1)] = ApplyEvent(rs[1..k], q[k + 1])
    BY <1>5, <1>7 DEF Setting!Through
  <2> QED BY <2>1, <2>2, <2>3, <2>4
<1>8. p[n] = [view |-> ViewAfter(v, q), stage |-> StageAfter(s, q),
              feed |-> FeedAfter(f, q), row |-> Applied(r, q)]
  BY <1>1, <1>2, <1>3, <1>4, <1>5, AftersAre
<1> HIDE DEF p
<1> QED BY <1>6, <1>7, <1>8 DEF Path, Ends, n

LEMMA PathStep ==
  ASSUME NEW p, NEW v, NEW s, NEW f, NEW r, NEW q \in Seq(Events), Path(p, v, s, f, r, q),
         NEW k \in Nat, k < Len(q)
  PROVE  /\ p[k + 1].view = Reduce(p[k].view, q[k + 1])
         /\ p[k + 1].stage = ReduceStage(p[k].stage, q[k + 1])
         /\ p[k + 1].feed = ReduceFeed(p[k].feed, q[k + 1])
         /\ p[k + 1].row = ApplyEvent(p[k].row, q[k + 1])
         /\ q[k + 1] \in Events
<1> DEFINE a == p[k].view  b == p[k].stage  c == p[k].feed  d == p[k].row  e == q[k + 1]
<1>1. p[k + 1] = [view |-> Reduce(a, e), stage |-> ReduceStage(b, e),
                  feed |-> ReduceFeed(c, e), row |-> ApplyEvent(d, e)]
  BY DEF Path
<1> HIDE DEF a, b, c, d, e
<1>2. /\ p[k + 1].view = Reduce(a, e) /\ p[k + 1].stage = ReduceStage(b, e)
      /\ p[k + 1].feed = ReduceFeed(c, e) /\ p[k + 1].row = ApplyEvent(d, e)
  BY <1>1
<1>3. q[k + 1] \in Events
  OBVIOUS
<1> QED BY <1>2, <1>3 DEF a, b, c, d, e

\* What holds at the start of a path and is kept by each of its steps.
LEMMA PathKeeps ==
  ASSUME NEW n \in Nat, NEW G \in SUBSET (0..n), 0 \in G,
         \A k \in 0..n : k \in G /\ k < n => k + 1 \in G
  PROVE  G = 0..n
<1> DEFINE S == {k \in Nat : k <= n => k \in G}
<1>1. S \in SUBSET Nat /\ 0 \in S
  OBVIOUS
<1>3. ASSUME NEW k \in S PROVE k + 1 \in S
  <2>1. CASE k < n
    <3>1. k \in 0..n /\ k \in G
      BY <2>1
    <3> QED BY <2>1, <3>1
  <2>2. CASE ~(k < n)
    BY <2>2
  <2> QED BY <2>1, <2>2
<1> HIDE DEF S
<1>2. S = Nat
  BY <1>1, <1>3, Viewing!AllNumbers
<1>4. ASSUME NEW k \in 0..n PROVE k \in G
  BY <1>2 DEF S
<1> QED BY <1>4

\* Everything on a path has its type.
LEMMA PathTypes ==
  ASSUME NEW q \in Seq(Events), NEW v, ViewOK(v), NEW s, NEW f, FeedOK(f), NEW r \in Rows,
         NEW p, Path(p, v, s, f, r, q), NEW k \in 0..Len(q)
  PROVE  ViewOK(p[k].view) /\ FeedOK(p[k].feed) /\ p[k].row \in Rows
<1> DEFINE n == Len(q)
           G == {j \in 0..n : ViewOK(p[j].view) /\ FeedOK(p[j].feed) /\ p[j].row \in Rows}
<1>1. n \in Nat /\ \A j \in 0..n : j < n => q[j + 1] \in Events
  OBVIOUS
<1>2. 0 \in G
  BY <1>1 DEF Path
<1>3. ASSUME NEW j \in 0..n, j \in G, j < n
      PROVE  j + 1 \in G
  <2>1. ViewOK(p[j].view) /\ FeedOK(p[j].feed) /\ p[j].row \in Rows /\ q[j + 1] \in Events
    BY <1>1, <1>3
  <2>2. /\ p[j + 1].view = Reduce(p[j].view, q[j + 1])
        /\ p[j + 1].feed = ReduceFeed(p[j].feed, q[j + 1])
        /\ p[j + 1].row = ApplyEvent(p[j].row, q[j + 1])
    <3>1. j \in Nat /\ j < Len(q)
      BY <1>3
    <3> QED BY <3>1, PathStep
  <2>3. ViewOK(p[j + 1].view)
    BY <2>1, <2>2, ReduceIs
  <2>4. FeedOK(p[j + 1].feed)
    BY <2>1, <2>2, FeedIs
  <2>5. p[j + 1].row \in Rows
    BY <2>1, <2>2, RowIs
  <2> QED BY <1>1, <1>3, <2>3, <2>4, <2>5
<1> HIDE DEF G
<1>4. G = 0..n
  <2>1. G \in SUBSET (0..n)
    BY DEF G
  <2> HIDE DEF n
  <2> QED BY <1>1, <1>2, <1>3, <2>1, PathKeeps
<1> QED BY <1>4 DEF G

-----------------------------------------------------------------------------
(***************************************************************************)
(* What a stretch of events does, by the events that are in it.            *)
(***************************************************************************)
Told(q) == {q[i] : i \in DOMAIN q}
About(q, types, t) == \E e \in Told(q) : e.type \in types /\ e.task = t

Shuts == Endings \cup {"task.blocked"}
Waits == {"task.status_changed", "approval.required"}

\* A row that waits for an approval is one of an active task.
TaskOK(v, s, f, r, t) ==
  TaskAgrees(v, s, f, r, t) /\ (r[t] = "approval_required" => t \in s.active)

LEMMA StepAgrees ==
  ASSUME NEW v, ViewOK(v), NEW s, NEW f, FeedOK(f), NEW r \in Rows, NEW t \in Children,
         TaskOK(v, s, f, r, t), NEW e \in Events,
         e.task = t /\ e.type \in Waits => t \in s.active
  PROVE  TaskOK(Reduce(v, e), ReduceStage(s, e), ReduceFeed(f, e), ApplyEvent(r, e), t)
<1>0. TaskAgrees(v, s, f, r, t) /\ (r[t] = "approval_required" => t \in s.active) /\ t \in Tasks
  BY DEF TaskOK, Children
<1>1. TaskAgrees(Reduce(v, e), ReduceStage(s, e), ReduceFeed(f, e), ApplyEvent(r, e), t)
  <2>1. CASE e.task = t
    BY <1>0, <2>1, OwnAgrees DEF Waits
  <2>2. CASE e.task # t
    BY <1>0, <2>2, OthersAgree
  <2> QED BY <2>1, <2>2
<1>2. ApplyEvent(r, e)[t] = "approval_required" => t \in ReduceStage(s, e).active
  <2>1. CASE e.task = t
    <3>1. ApplyEvent(r, e)[t] = RowStatus(e)
      BY <1>0, <2>1, RowIs
    <3>2. RowStatus(e) = "approval_required" => e.type \in Waits
      BY DEF RowStatus, Waits
    <3>3. e.type \in Waits => ReduceStage(s, e).active = s.active
      BY DEF ReduceStage, Waits
    <3> QED BY <2>1, <3>1, <3>2, <3>3
  <2>2. CASE e.task # t
    <3>1. ApplyEvent(r, e)[t] \in {r[t], "pending"}
      BY <1>0, <2>2, RowIs
    <3>2. t \in ReduceStage(s, e).active <=> t \in s.active
      BY <2>2 DEF ReduceStage
    <3> QED BY <1>0, <3>1, <3>2
  <2> QED BY <2>1, <2>2
<1> QED BY <1>1, <1>2 DEF TaskOK

\* A stretch has the views and the rows well typed.
LEMMA AfterTypes ==
  ASSUME NEW q \in Seq(Events), NEW v, ViewOK(v), NEW s, NEW f, FeedOK(f), NEW r \in Rows
  PROVE  ViewOK(ViewAfter(v, q)) /\ FeedOK(FeedAfter(f, q)) /\ Applied(r, q) \in Rows
<1>1. PICK p : Path(p, v, s, f, r, q) /\ Ends(p, v, s, f, r, q)
  BY PathExists
<1>2. Len(q) \in 0..Len(q)
  OBVIOUS
<1>3. ViewOK(p[Len(q)].view) /\ FeedOK(p[Len(q)].feed) /\ p[Len(q)].row \in Rows
  BY <1>1, <1>2, PathTypes
<1> QED BY <1>1, <1>3 DEF Ends

\* The three views and the rows go on agreeing about a task that is active when it
\* is said to wait, and does not end in the same stretch.
LEMMA AfterAgrees ==
  ASSUME NEW q \in Seq(Events), NEW v, ViewOK(v), NEW s, NEW f, FeedOK(f), NEW r \in Rows,
         NEW t \in Children, TaskOK(v, s, f, r, t),
         About(q, Waits, t) => t \in s.active /\ ~About(q, Shuts, t)
  PROVE  TaskOK(ViewAfter(v, q), StageAfter(s, q), FeedAfter(f, q), Applied(r, q), t)
<1>1. PICK p : Path(p, v, s, f, r, q) /\ Ends(p, v, s, f, r, q)
  BY PathExists
<1> DEFINE n == Len(q)
           G == {k \in 0..n : /\ TaskOK(p[k].view, p[k].stage, p[k].feed, p[k].row, t)
                              /\ About(q, Waits, t) => t \in p[k].stage.active}
<1>2. n \in Nat /\ 0 \in 0..n /\ DOMAIN q = 1..n
  OBVIOUS
<1>3. 0 \in G
  <2>1. p[0] = [view |-> v, stage |-> s, feed |-> f, row |-> r]
    BY <1>1 DEF Path
  <2> QED BY <1>2, <2>1
<1>4. ASSUME NEW k \in 0..n, k \in G, k < n
      PROVE  k + 1 \in G
  <2> DEFINE e == q[k + 1]
             a == p[k].view  b == p[k].stage  c == p[k].feed  d == p[k].row
  <2>1. k \in Nat /\ k < Len(q) /\ k \in 0..Len(q) /\ k + 1 \in DOMAIN q /\ k + 1 \in 0..n
    BY <1>2, <1>4
  <2>2. /\ p[k + 1].view = Reduce(a, e) /\ p[k + 1].stage = ReduceStage(b, e)
        /\ p[k + 1].feed = ReduceFeed(c, e) /\ p[k + 1].row = ApplyEvent(d, e)
        /\ e \in Events
    BY <1>1, <2>1, PathStep
  <2>3. ViewOK(a) /\ FeedOK(c) /\ d \in Rows
    BY <1>1, <2>1, PathTypes
  <2>4. TaskOK(a, b, c, d, t) /\ (About(q, Waits, t) => t \in b.active)
    BY <1>4
  <2>5. e \in Told(q)
    BY <2>1 DEF Told
  <2> HIDE DEF a, b, c, d, e, n
  <2>6. e.task = t /\ e.type \in Waits => t \in b.active
    BY <2>4, <2>5 DEF About
  <2>7. TaskOK(Reduce(a, e), ReduceStage(b, e), ReduceFeed(c, e), ApplyEvent(d, e), t)
    BY <2>2, <2>3, <2>4, <2>6, StepAgrees
  <2>8. About(q, Waits, t) => t \in ReduceStage(b, e).active
    <3> SUFFICES ASSUME About(q, Waits, t) PROVE t \in ReduceStage(b, e).active
      OBVIOUS
    <3>1. ~(e.task = t /\ e.type \in Shuts) /\ t \in b.active
      BY <2>4, <2>5 DEF About
    <3> QED BY <3>1 DEF ReduceStage, Shuts, Endings
  <2> QED BY <2>1, <2>2, <2>7, <2>8
<1>5. n \in G
  <2>1. G \in SUBSET (0..n)
    OBVIOUS
  <2> HIDE DEF G, n
  <2>2. G = 0..n
    BY <1>2, <1>3, <1>4, <2>1, PathKeeps
  <2> QED BY <1>2, <2>2
<1> QED BY <1>1, <1>5 DEF Ends

\* A task is active after a stretch that delegates it, or finds it active, and
\* does not end it.
LEMMA AfterActive ==
  ASSUME NEW q \in Seq(Events), NEW s, NEW t \in Tasks, ~About(q, Shuts, t),
         t \in s.active \/ About(q, {"task.delegated"}, t)
  PROVE  t \in StageAfter(s, q).active
<1>1. PICK p : Path(p, EmptyView, s, EmptyFeed, <<>>, q) /\ Ends(p, EmptyView, s, EmptyFeed, <<>>, q)
  BY PathExists
<1> DEFINE n == Len(q)
           Did(k) == \E i \in 1..k : q[i].type = "task.delegated" /\ q[i].task = t
           G == {k \in 0..n : t \in s.active \/ Did(k) => t \in p[k].stage.active}
<1>2. n \in Nat /\ 0 \in 0..n /\ DOMAIN q = 1..n
  OBVIOUS
<1>3. 0 \in G
  <2>1. p[0] = [view |-> EmptyView, stage |-> s, feed |-> EmptyFeed, row |-> <<>>]
    BY <1>1 DEF Path
  <2>2. ~Did(0)
    OBVIOUS
  <2> QED BY <1>2, <2>1, <2>2
<1>4. ASSUME NEW k \in 0..n, k \in G, k < n
      PROVE  k + 1 \in G
  <2> DEFINE e == q[k + 1]
             b == p[k].stage
  <2>1. k \in Nat /\ k < Len(q) /\ k \in 0..Len(q) /\ k + 1 \in DOMAIN q /\ k + 1 \in 0..n
    BY <1>2, <1>4
  <2>2. p[k + 1].stage = ReduceStage(b, e)
    BY <1>1, <2>1, PathStep
  <2>3. e \in Told(q)
    BY <2>1 DEF Told
  <2>4. Did(k + 1) => Did(k) \/ (e.type = "task.delegated" /\ e.task = t)
    OBVIOUS
  <2>5. t \in s.active \/ Did(k) => t \in b.active
    BY <1>4
  <2> HIDE DEF b, e, n, Did
  <2>6. ~(e.task = t /\ e.type \in Shuts)
    BY <2>3 DEF About
  <2>7. t \in b.active => t \in ReduceStage(b, e).active
    BY <2>6 DEF ReduceStage, Shuts, Endings
  <2>8. e.type = "task.delegated" /\ e.task = t => t \in ReduceStage(b, e).active
    BY DEF ReduceStage
  <2> QED BY <2>1, <2>2, <2>4, <2>5, <2>7, <2>8
<1>5. n \in G
  <2>1. G \in SUBSET (0..n)
    OBVIOUS
  <2> HIDE DEF G, n
  <2>2. G = 0..n
    BY <1>2, <1>3, <1>4, <2>1, PathKeeps
  <2> QED BY <1>2, <2>2
<1>6. About(q, {"task.delegated"}, t) => Did(n)
  BY <1>2 DEF About, Told
<1>7. t \in p[n].stage.active
  BY <1>5, <1>6
<1> QED BY <1>1, <1>7 DEF Ends

\* An induction along what a stretch does to the view.
LEMMA AfterKeeps ==
  ASSUME NEW q \in Seq(Events), NEW v, ViewOK(v),
         NEW p, Path(p, v, EmptyStage, EmptyFeed, [t \in Tasks |-> "none"], q),
         NEW G \in SUBSET (0..Len(q)), 0 \in G,
         \A k \in 0..(Len(q) - 1) :
           /\ k \in G /\ ViewOK(p[k].view) /\ q[k + 1] \in Events /\ q[k + 1] \in Told(q)
           /\ p[k + 1].view = Reduce(p[k].view, q[k + 1])
           => k + 1 \in G
  PROVE  Len(q) \in G
<1> DEFINE n == Len(q)
           r == [t \in Tasks |-> "none"]
<1>1. n \in Nat /\ DOMAIN q = 1..n
  OBVIOUS
<1>2. FeedOK(EmptyFeed) /\ r \in Rows
  BY DEF FeedOK, EmptyFeed, FeedNames, Rows, RowStates
<1>3. ASSUME NEW k \in 0..n, k \in G, k < n
      PROVE  k + 1 \in G
  <2>1. k \in Nat /\ k < Len(q) /\ k \in 0..Len(q) /\ k \in 0..(Len(q) - 1) /\ k + 1 \in DOMAIN q
    BY <1>1, <1>3
  <2>2. p[k + 1].view = Reduce(p[k].view, q[k + 1]) /\ q[k + 1] \in Events
    BY <2>1, PathStep
  <2>3. ViewOK(p[k].view)
    BY <1>2, <2>1, PathTypes
  <2>4. q[k + 1] \in Told(q)
    BY <2>1 DEF Told
  <2> QED BY <1>3, <2>1, <2>2, <2>3, <2>4
<1> HIDE DEF n, r
<1>4. G = 0..n
  BY <1>1, <1>3, PathKeeps DEF n
<1> QED BY <1>1, <1>4 DEF n

LEMMA ViewPath ==
  ASSUME NEW q \in Seq(Events), NEW v
  PROVE  \E p : /\ Path(p, v, EmptyStage, EmptyFeed, [t \in Tasks |-> "none"], q)
                /\ p[0].view = v /\ p[Len(q)].view = ViewAfter(v, q)
<1> DEFINE r == [t \in Tasks |-> "none"]
<1>1. PICK p : Path(p, v, EmptyStage, EmptyFeed, r, q) /\ Ends(p, v, EmptyStage, EmptyFeed, r, q)
  BY PathExists
<1> HIDE DEF r
<1>2. p[0] = [view |-> v, stage |-> EmptyStage, feed |-> EmptyFeed, row |-> r]
  BY <1>1 DEF Path
<1>3. p[Len(q)].view = ViewAfter(v, q)
  BY <1>1 DEF Ends
<1> QED BY <1>1, <1>2, <1>3 DEF r

\* A report is the last of what was completed before, or in the stretch, and stays
\* if nothing more is said.
LEMMA AfterMessages ==
  ASSUME NEW q \in Seq(Events), NEW v, ViewOK(v), NEW t \in Tasks
  PROVE  LET w == ViewAfter(v, q)
         IN /\ w.message[t] = "report" =>
                 v.message[t] = "report" \/ About(q, {"message.completed"}, t)
            /\ v.message[t] = "report" =>
                 w.message[t] = "report" \/ About(q, {"message.delta"}, t)
<1>1. PICK p : /\ Path(p, v, EmptyStage, EmptyFeed, [u \in Tasks |-> "none"], q)
               /\ p[0].view = v /\ p[Len(q)].view = ViewAfter(v, q)
  BY ViewPath
<1> DEFINE C == About(q, {"message.completed"}, t)
           D == About(q, {"message.delta"}, t)
           G == {k \in 0..Len(q) :
                  /\ p[k].view.message[t] = "report" => v.message[t] = "report" \/ C
                  /\ v.message[t] = "report" => p[k].view.message[t] = "report" \/ D}
<1>2. Len(q) \in Nat /\ 0 \in G
  BY <1>1
<1>3. ASSUME NEW k \in 0..(Len(q) - 1), k \in G, ViewOK(p[k].view), q[k + 1] \in Events,
             q[k + 1] \in Told(q), p[k + 1].view = Reduce(p[k].view, q[k + 1])
      PROVE  k + 1 \in G
  <2> DEFINE e == q[k + 1]
             a == p[k].view
  <2>1. /\ Reduce(a, e).message[t] = "report" =>
             a.message[t] = "report" \/ (e.type = "message.completed" /\ e.task = t)
        /\ a.message[t] = "report" =>
             Reduce(a, e).message[t] = "report" \/ (e.type = "message.delta" /\ e.task = t)
    BY <1>3, ReduceIs
  <2>2. /\ e.type = "message.completed" /\ e.task = t => C
        /\ e.type = "message.delta" /\ e.task = t => D
    BY <1>3 DEF About
  <2>3. /\ a.message[t] = "report" => v.message[t] = "report" \/ C
        /\ v.message[t] = "report" => a.message[t] = "report" \/ D
    BY <1>3
  <2>4. k + 1 \in 0..Len(q) /\ p[k + 1].view = Reduce(a, e)
    BY <1>2, <1>3
  <2> HIDE DEF a, e, C, D
  <2> QED BY <2>1, <2>2, <2>3, <2>4
<1>4. G \in SUBSET (0..Len(q))
  OBVIOUS
<1> HIDE DEF G
<1>5. Len(q) \in G
  BY <1>1, <1>2, <1>3, <1>4, AfterKeeps
<1> QED BY <1>1, <1>5 DEF G

\* A call is left alone by a stretch that is about other tasks, or starts the Run.
LEMMA AfterCalls ==
  ASSUME NEW q \in Seq(Events), NEW v, ViewOK(v), NEW x \in Tools,
         \A e \in Told(q) : e.type = "run.started" \/ e.task # ToolTask[x]
  PROVE  ViewAfter(v, q).tool[x] = v.tool[x]
<1>1. PICK p : /\ Path(p, v, EmptyStage, EmptyFeed, [u \in Tasks |-> "none"], q)
               /\ p[0].view = v /\ p[Len(q)].view = ViewAfter(v, q)
  BY ViewPath
<1> DEFINE G == {k \in 0..Len(q) : p[k].view.tool[x] = v.tool[x]}
<1>2. Len(q) \in Nat /\ 0 \in G
  BY <1>1
<1>3. ASSUME NEW k \in 0..(Len(q) - 1), k \in G, ViewOK(p[k].view), q[k + 1] \in Events,
             q[k + 1] \in Told(q), p[k + 1].view = Reduce(p[k].view, q[k + 1])
      PROVE  k + 1 \in G
  <2> DEFINE e == q[k + 1]
             a == p[k].view
  <2>1. Reduce(a, e).tool[x] = a.tool[x]
    <3>1. CASE e.type = "run.started"
      BY <1>3, <3>1, RunIs
    <3>2. CASE e.task # ToolTask[x]
      BY <1>3, <3>2, ReduceIs
    <3> QED BY <1>3, <3>1, <3>2
  <2>2. k + 1 \in 0..Len(q) /\ p[k + 1].view = Reduce(a, e) /\ a.tool[x] = v.tool[x]
    BY <1>2, <1>3
  <2> HIDE DEF a, e
  <2> QED BY <2>1, <2>2
<1>4. G \in SUBSET (0..Len(q))
  OBVIOUS
<1> HIDE DEF G
<1>5. Len(q) \in G
  BY <1>1, <1>2, <1>3, <1>4, AfterKeeps
<1> QED BY <1>1, <1>5 DEF G

\* An approval shown, or asked for in the stretch, is shown as long as it is not decided.
Required(q, a) == \E e \in Told(q) : e.type = "approval.required" /\ e.data = a
Answered(q, a) == \E e \in Told(q) : e.type = "approval.decided" /\ e.data.approval = a

LEMMA AfterCards ==
  ASSUME NEW q \in Seq(Events), NEW v, ViewOK(v), NEW c \in Approvals, ~Answered(q, c),
         v.approval[c] = "pending" \/ Required(q, c)
  PROVE  ViewAfter(v, q).approval[c] = "pending"
<1>1. PICK p : /\ Path(p, v, EmptyStage, EmptyFeed, [u \in Tasks |-> "none"], q)
               /\ p[0].view = v /\ p[Len(q)].view = ViewAfter(v, q)
  BY ViewPath
<1> DEFINE Did(k) == \E i \in 1..k : q[i].type = "approval.required" /\ q[i].data = c
           G == {k \in 0..Len(q) : v.approval[c] = "pending" \/ Did(k)
                                   => p[k].view.approval[c] = "pending"}
<1>2. Len(q) \in Nat /\ 0 \in G
  <2>1. ~Did(0)
    OBVIOUS
  <2> QED BY <1>1, <2>1
<1>3. ASSUME NEW k \in 0..(Len(q) - 1), k \in G, ViewOK(p[k].view), q[k + 1] \in Events,
             q[k + 1] \in Told(q), p[k + 1].view = Reduce(p[k].view, q[k + 1])
      PROVE  k + 1 \in G
  <2> DEFINE e == q[k + 1]
             a == p[k].view
  <2>1. ~(e.type = "approval.decided" /\ e.data.approval = c)
    BY <1>3 DEF Answered
  <2>2. k + 1 \in 0..Len(q) /\ p[k + 1].view = Reduce(a, e)
    BY <1>2, <1>3
  <2>3. v.approval[c] = "pending" \/ Did(k) => a.approval[c] = "pending"
    BY <1>3
  <2>4. Did(k + 1) => Did(k) \/ (e.type = "approval.required" /\ e.data = c)
    OBVIOUS
  <2>6. ViewOK(a) /\ e \in Events
    BY <1>3
  <2> HIDE DEF a, e, Did, G
  <2>5. /\ a.approval[c] = "pending" =>
             Reduce(a, e).approval[c] = "pending" \/ (e.type = "approval.decided" /\ e.data.approval = c)
        /\ e.type = "approval.required" => Reduce(a, e).approval[e.data] = "pending"
    BY <2>6, ReduceIs
  <2> QED BY <2>1, <2>2, <2>3, <2>4, <2>5 DEF G
<1>4. G \in SUBSET (0..Len(q))
  OBVIOUS
<1>6. Required(q, c) => Did(Len(q))
  BY <1>2 DEF Required, Told
<1> HIDE DEF G
<1>5. Len(q) \in G
  BY <1>1, <1>2, <1>3, <1>4, AfterKeeps
<1> QED BY <1>1, <1>5, <1>6 DEF G

\* What a stretch makes of the status of the Run.
LEMMA AfterRun ==
  ASSUME NEW q \in Seq(Events), NEW v, ViewOK(v),
         \A e \in Told(q) : e.type \notin TerminalType
  PROVE  LET w == ViewAfter(v, q)
         IN /\ v.run \notin TerminalStatus => w.run \notin TerminalStatus
            /\ (\A e \in Told(q) : e.type \notin RunSays) =>
                 w.run = IF \E e \in Told(q) : e.type = "approval.required"
                         THEN "approval_required" ELSE v.run
<1>1. PICK p : /\ Path(p, v, EmptyStage, EmptyFeed, [u \in Tasks |-> "none"], q)
               /\ p[0].view = v /\ p[Len(q)].view = ViewAfter(v, q)
  BY ViewPath
<1> DEFINE Calm == \A e \in Told(q) : e.type \notin RunSays
           Did(k) == \E i \in 1..k : q[i].type = "approval.required"
           G == {k \in 0..Len(q) :
                  /\ v.run \notin TerminalStatus => p[k].view.run \notin TerminalStatus
                  /\ Calm => p[k].view.run = IF Did(k) THEN "approval_required" ELSE v.run}
<1>2. Len(q) \in Nat /\ 0 \in G
  <2>1. ~Did(0)
    OBVIOUS
  <2> QED BY <1>1, <2>1
<1>3. ASSUME NEW k \in 0..(Len(q) - 1), k \in G, ViewOK(p[k].view), q[k + 1] \in Events,
             q[k + 1] \in Told(q), p[k + 1].view = Reduce(p[k].view, q[k + 1])
      PROVE  k + 1 \in G
  <2> DEFINE e == q[k + 1]
             a == p[k].view
  <2>1. e.type \notin TerminalType /\ (Calm => e.type \notin RunSays)
    BY <1>3
  <2>2. k + 1 \in 0..Len(q) /\ p[k + 1].view = Reduce(a, e)
    BY <1>2, <1>3
  <2>3. /\ v.run \notin TerminalStatus => a.run \notin TerminalStatus
        /\ Calm => a.run = IF Did(k) THEN "approval_required" ELSE v.run
    BY <1>3
  <2>4. Did(k + 1) <=> Did(k) \/ e.type = "approval.required"
    BY <1>2, <1>3
  <2>7. ViewOK(a) /\ e \in Events
    BY <1>3
  <2> HIDE DEF a, e, Did, Calm, G
  <2>5. /\ e.type \notin TerminalType \cup RunSays \cup {"approval.required"} => Reduce(a, e).run = a.run
        /\ e.type = "approval.required" => Reduce(a, e).run = "approval_required"
    BY <2>7, ReduceIs
  <2>6. e.type \in RunSays => Reduce(a, e).run \in {"running", "planning"}
    BY <2>7, RunIs DEF RunSays
  <2>8. v.run \notin TerminalStatus => Reduce(a, e).run \notin TerminalStatus
    BY <2>1, <2>3, <2>5, <2>6 DEF TerminalStatus
  <2>9. Calm => Reduce(a, e).run = IF Did(k + 1) THEN "approval_required" ELSE v.run
    BY <2>1, <2>3, <2>4, <2>5
  <2> QED BY <2>2, <2>8, <2>9 DEF G
<1>4. G \in SUBSET (0..Len(q))
  OBVIOUS
<1>6. (\E e \in Told(q) : e.type = "approval.required") <=> Did(Len(q))
  BY <1>2 DEF Told
<1> HIDE DEF G
<1>5. Len(q) \in G
  BY <1>1, <1>2, <1>3, <1>4, AfterKeeps
<1> QED BY <1>1, <1>5, <1>6 DEF G

\* Nothing is left in progress.
Settled(v) ==
  /\ \A t \in Tasks : v.task[t] \notin InProgress
  /\ \A n \in Rounds : v.round[n].status # "working"

\* A stretch that ends with a terminal event settles every view.
LEMMA AfterEnd ==
  ASSUME NEW q \in Seq(Events), NEW v, ViewOK(v), NEW s, NEW f, FeedOK(f),
         Len(q) > 0, q[Len(q)].type \in TerminalType
  PROVE  LET ty == q[Len(q)].type
             w == ViewAfter(v, q)
         IN /\ w.run = StatusOf(ty) /\ Settled(w)
            /\ StageAfter(s, q).latest = ty
            /\ FeedAfter(f, q).run = FeedState(ty)
<1> DEFINE n == Len(q)
           m == n - 1
           r == [t \in Tasks |-> "none"]
           e == q[n]
<1>1. PICK p : Path(p, v, s, f, r, q) /\ Ends(p, v, s, f, r, q)
  BY PathExists
<1>2. n \in Nat /\ m \in Nat /\ m < Len(q) /\ m \in 0..Len(q) /\ m + 1 = n
  OBVIOUS
<1>3. r \in Rows
  BY DEF Rows, RowStates
<1>4. ViewOK(p[m].view)
  BY <1>1, <1>2, <1>3, PathTypes
<1>5. /\ p[n].view = Reduce(p[m].view, e) /\ p[n].stage = ReduceStage(p[m].stage, e)
      /\ p[n].feed = ReduceFeed(p[m].feed, e) /\ e \in Events
  BY <1>1, <1>2, PathStep
<1>6. ViewAfter(v, q) = p[n].view /\ StageAfter(s, q) = p[n].stage /\ FeedAfter(f, q) = p[n].feed
  BY <1>1 DEF Ends
<1>7. e.type \in TerminalType
  OBVIOUS
<1> HIDE DEF e, n, m
<1> DEFINE a == p[m].view
<1>8. /\ Reduce(a, e).run = StatusOf(e.type) /\ Reduce(a, e).run \in TerminalStatus
      /\ Reduce(a, e).task = [t \in Tasks |-> IF a.task[t] \in InProgress THEN Reduce(a, e).run ELSE a.task[t]]
      /\ \A k \in Rounds : Reduce(a, e).round[k].status # "working"
  BY <1>4, <1>5, <1>7, TerminalIs
<1> DEFINE w == Reduce(a, e)
<1> HIDE DEF w, a
<1>9. Settled(w)
  BY <1>8 DEF Settled, TerminalStatus, InProgress, w
<1>10. ReduceStage(p[m].stage, e).latest = e.type /\ ReduceFeed(p[m].feed, e).run = FeedState(e.type)
  BY DEF ReduceStage, ReduceFeed
<1> QED BY <1>5, <1>6, <1>8, <1>9, <1>10 DEF w, a, e, n

-----------------------------------------------------------------------------
(***************************************************************************)
(* Sequences of events put together.                                       *)
(***************************************************************************)
LEMMA ToldTogether ==
  ASSUME NEW E, NEW s \in Seq(E), NEW q \in Seq(E)
  PROVE  s \o q \in Seq(E) /\ Told(s \o q) = Told(s) \cup Told(q)
<1> DEFINE w == s \o q
<1>1. /\ w \in Seq(E) /\ Len(s) \in Nat /\ Len(q) \in Nat /\ Len(w) = Len(s) + Len(q)
      /\ DOMAIN s = 1..Len(s) /\ DOMAIN q = 1..Len(q) /\ DOMAIN w = 1..(Len(s) + Len(q))
  OBVIOUS
<1>2. \A i \in 1..Len(s) : w[i] = s[i]
  OBVIOUS
<1>3. \A i \in 1..Len(q) : w[Len(s) + i] = q[i]
  OBVIOUS
<1> HIDE DEF w
<1>4. ASSUME NEW i \in DOMAIN w PROVE w[i] \in Told(s) \cup Told(q)
  <2>1. CASE i \in 1..Len(s)
    BY <1>1, <1>2, <2>1 DEF Told
  <2>2. CASE i \notin 1..Len(s)
    <3>1. i - Len(s) \in 1..Len(q) /\ i = Len(s) + (i - Len(s))
      BY <1>1, <2>2
    <3> QED BY <1>1, <1>3, <3>1 DEF Told
  <2> QED BY <2>1, <2>2
<1>5. ASSUME NEW i \in DOMAIN s PROVE s[i] \in Told(w)
  <2>1. i \in DOMAIN w
    BY <1>1
  <2> QED BY <1>1, <1>2, <2>1 DEF Told
<1>6. ASSUME NEW i \in DOMAIN q PROVE q[i] \in Told(w)
  <2>1. Len(s) + i \in DOMAIN w
    BY <1>1
  <2> QED BY <1>1, <1>3, <2>1 DEF Told
<1>7. Told(w) = Told(s) \cup Told(q)
  BY <1>4, <1>5, <1>6 DEF Told
<1> QED BY <1>1, <1>7 DEF w

LEMMA ToldOf ==
  /\ Told(<<>>) = {}
  /\ \A a : Told(<<a>>) = {a}
  /\ \A a, b : Told(<<a, b>>) = {a, b}
  /\ \A a, b, c : Told(<<a, b, c>>) = {a, b, c}
<1>1. Told(<<>>) = {}
  BY DEF Told
<1>2. ASSUME NEW a PROVE Told(<<a>>) = {a}
  BY DEF Told
<1>3. ASSUME NEW a, NEW b PROVE Told(<<a, b>>) = {a, b}
  <2>1. DOMAIN <<a, b>> = {1, 2}
    OBVIOUS
  <2> QED BY <2>1 DEF Told
<1>4. ASSUME NEW a, NEW b, NEW c PROVE Told(<<a, b, c>>) = {a, b, c}
  <2>1. DOMAIN <<a, b, c>> = {1, 2, 3}
    OBVIOUS
  <2> QED BY <2>1 DEF Told
<1> QED BY <1>1, <1>2, <1>3, <1>4

LEMMA One ==
  ASSUME NEW E, NEW a \in E
  PROVE  <<a>> \in Seq(E) /\ Told(<<a>>) = {a}
BY ToldOf

LEMMA Two ==
  ASSUME NEW E, NEW a \in E, NEW b \in E
  PROVE  <<a, b>> \in Seq(E) /\ Told(<<a, b>>) = {a, b}
BY ToldOf

LEMMA Three ==
  ASSUME NEW E, NEW a \in E, NEW b \in E, NEW c \in E
  PROVE  <<a, b, c>> \in Seq(E) /\ Told(<<a, b, c>>) = {a, b, c}
BY ToldOf

LEMMA Nothing ==
  ASSUME NEW E
  PROVE  <<>> \in Seq(E) /\ Told(<<>>) = {}
BY ToldOf

LEMMA ToldFlat ==
  ASSUME NEW E, NEW n \in Nat, NEW ss \in [1..n -> Seq(E)]
  PROVE  /\ FlattenSeq(ss) \in Seq(E)
         /\ Told(FlattenSeq(ss)) = UNION {Told(ss[i]) : i \in 1..n}
<1> DEFINE Flat(k) == Viewing!Flat(ss, k)
           Parts(k) == UNION {Told(ss[i]) : i \in 1..k}
           In == {k \in Nat : k <= n => Told(Flat(k)) = Parts(k)}
<1>1. Viewing!FlattenSeq(ss) = FlattenSeq(ss)
  BY DEF Viewing!FlattenSeq, FlattenSeq
<1>2. /\ Flat(0) = <<>> /\ Flat(n) = FlattenSeq(ss)
      /\ \A k \in 0..n : Flat(k) \in Seq(E)
      /\ \A k \in 0..(n - 1) : Flat(k + 1) = Flat(k) \o ss[k + 1]
  BY <1>1, Viewing!FlatGrows
<1> HIDE DEF Flat
<1>3. 0 \in In
  <2>1. Parts(0) = {}
    OBVIOUS
  <2>2. Told(<<>>) = {}
    BY ToldOf
  <2> HIDE DEF Parts
  <2> QED BY <1>2, <2>1, <2>2
<1>4. ASSUME NEW k \in In PROVE k + 1 \in In
  <2> SUFFICES ASSUME k + 1 <= n PROVE Told(Flat(k + 1)) = Parts(k + 1)
    OBVIOUS
  <2>1. k \in 0..n /\ k \in 0..(n - 1) /\ k + 1 \in 1..n /\ Told(Flat(k)) = Parts(k)
    OBVIOUS
  <2>2. Told(Flat(k + 1)) = Told(Flat(k)) \cup Told(ss[k + 1])
    <3> DEFINE a == Flat(k)
               b == ss[k + 1]
    <3>1. a \in Seq(E) /\ b \in Seq(E) /\ Flat(k + 1) = a \o b
      BY <1>2, <2>1
    <3> HIDE DEF a, b, In, Parts
    <3>2. Told(a \o b) = Told(a) \cup Told(b)
      BY <3>1, ToldTogether
    <3>3. Told(Flat(k + 1)) = Told(a) \cup Told(b)
      BY <3>1, <3>2, Zenon
    <3> QED BY <3>3 DEF a, b
  <2>3. 1..(k + 1) = 1..k \cup {k + 1}
    BY <2>1
  <2>4. Parts(k + 1) = Parts(k) \cup Told(ss[k + 1])
    BY <2>3
  <2> QED BY <2>1, <2>2, <2>4
<1> HIDE DEF In
<1>5. In \in SUBSET Nat
  BY DEF In
<1>6. In = Nat
  BY <1>3, <1>4, <1>5, Viewing!AllNumbers
<1>7. n \in 0..n /\ Told(Flat(n)) = Parts(n)
  BY <1>6 DEF In
<1> QED BY <1>2, <1>7

-----------------------------------------------------------------------------
(***************************************************************************)
(* The lists of a view: its tasks in the order of their first event, its   *)
(* rounds, and the tasks of each.                                          *)
(***************************************************************************)
Listing == INSTANCE SequenceLaws WITH Step <- Listed

Lists(s, S) == Listing!Lists(s, S)

\* Its sequences are those of the views.
LEMMA SameLists ==
  /\ \A s, T : Listing!Kept(s, T) = Kept(s, T)
  /\ \A s, places, R : Listing!Arranged(s, places, R) = Arranged(s, places, R)
  /\ \A s : Listing!Along(s) = Along(s)
  /\ \A ss : Listing!FlattenSeq(ss) = FlattenSeq(ss)
  /\ \A base, s : Listing!After(base, s) = FoldLeft(Listed, base, s)
<1>1. \A s, places, R : Listing!Arranged(s, places, R) = Arranged(s, places, R)
  BY DEF Listing!Arranged, Arranged, Listing!Sorted, Sorted, Listing!Cardinality, Cardinality,
         Listing!IsFiniteSet, IsFiniteSet
<1>2. \A s : Listing!Along(s) = Along(s)
  BY DEF Listing!Along, Along
<1>3. \A s, T : Listing!Kept(s, T) = Kept(s, T)
  BY <1>1, <1>2 DEF Listing!Kept, Kept
<1>4. \A ss : Listing!FlattenSeq(ss) = FlattenSeq(ss)
  BY DEF Listing!FlattenSeq, FlattenSeq
<1>5. \A base, s : Listing!After(base, s) = FoldLeft(Listed, base, s)
  BY DEF Listing!After, Listing!FoldLeft, Listing!MapThenFoldSet, Listing!Max,
         FoldLeft, MapThenFoldSet, Max
<1> QED BY <1>1, <1>2, <1>3, <1>4, <1>5

\* One that is listed is added behind the others, or was there.
LEMMA ListedIs ==
  ASSUME NEW S, NEW s, Lists(s, S), NEW x
  PROVE  Lists(Listed(s, x), S \cup {x})
<1>1. /\ s \in Seq(S) /\ \A y \in S : \E i \in DOMAIN s : s[i] = y
      /\ \A i, j \in DOMAIN s : s[i] = s[j] => i = j
  BY DEF Lists, Listing!Lists
<1>2. CASE InSeq(s, x)
  <2>1. x \in S
    BY <1>1, <1>2 DEF InSeq
  <2>2. S \cup {x} = S /\ Listed(s, x) = s
    BY <1>2, <2>1 DEF Listed
  <2> QED BY <2>2
<1>3. CASE ~InSeq(s, x)
  <2> DEFINE w == Append(s, x)
             T == S \cup {x}
  <2>1. Listed(s, x) = w
    BY <1>3 DEF Listed
  <2>2. s \in Seq(T) /\ x \in T
    BY <1>1
  <2>3. /\ w \in Seq(T) /\ Len(s) \in Nat /\ DOMAIN s = 1..Len(s) /\ DOMAIN w = 1..(Len(s) + 1)
        /\ w[Len(s) + 1] = x /\ \A i \in 1..Len(s) : w[i] = s[i]
    BY <2>2
  <2>4. \A i \in 1..Len(s) : s[i] # x
    BY <1>3, <2>3 DEF InSeq
  <2> HIDE DEF w
  <2>5. ASSUME NEW y \in T PROVE \E i \in DOMAIN w : w[i] = y
    <3>1. CASE y = x
      BY <2>3, <3>1
    <3>2. CASE y # x
      <4>1. PICK i \in DOMAIN s : s[i] = y
        BY <1>1, <3>2
      <4>2. i \in DOMAIN w /\ w[i] = y
        BY <2>3, <4>1
      <4> QED BY <4>2
    <3> QED BY <3>1, <3>2
  <2>6. ASSUME NEW i \in DOMAIN w, NEW j \in DOMAIN w, w[i] = w[j] PROVE i = j
    <3>1. (i \in 1..Len(s) \/ i = Len(s) + 1) /\ (j \in 1..Len(s) \/ j = Len(s) + 1)
      BY <2>3
    <3> QED BY <1>1, <2>3, <2>4, <2>6, <3>1
  <2> HIDE DEF T
  <2> QED BY <2>1, <2>3, <2>5, <2>6 DEF Lists, Listing!Lists, T
<1> QED BY <1>2, <1>3

\* So are several.
LEMMA AllListed ==
  ASSUME NEW S, NEW s, Lists(s, S), NEW E, NEW q \in Seq(E)
  PROVE  Lists(FoldLeft(Listed, s, q), S \cup Told(q))
<1> DEFINE n == Len(q)
           First(k) == {q[i] : i \in 1..k}
           all == S \cup E
           Q == [k \in 0..n |-> {u \in Seq(all) : Lists(u, S \cup First(k))}]
<1>1. n \in Nat /\ DOMAIN q = 1..n /\ \A i \in 1..n : q[i] \in E
  OBVIOUS
<1>2. ASSUME NEW k \in 0..n, NEW u, Lists(u, S \cup First(k)) PROVE u \in Q[k]
  <2>1. u \in Seq(S \cup First(k))
    BY <1>2 DEF Lists, Listing!Lists
  <2>2. S \cup First(k) \subseteq all
    BY <1>1
  <2>3. u \in Seq(all)
    BY <2>1, <2>2
  <2> QED BY <1>2, <2>3
<1>3. s \in Q[0]
  <2>1. S \cup First(0) = S
    OBVIOUS
  <2> HIDE DEF Q, First, all
  <2>2. Lists(s, S \cup First(0))
    BY <2>1, Zenon
  <2>3. 0 \in 0..n
    BY <1>1
  <2> QED BY <1>2, <2>2, <2>3
<1>4. ASSUME NEW k \in 0..(n - 1), NEW u \in Q[k]
      PROVE  Listed(u, q[k + 1]) \in Q[k + 1]
  <2>1. k \in 0..n /\ k + 1 \in 0..n /\ 1..(k + 1) = 1..k \cup {k + 1}
    BY <1>1
  <2>2. Lists(u, S \cup First(k))
    BY <2>1
  <2>3. First(k + 1) = First(k) \cup {q[k + 1]}
    BY <2>1
  <2> HIDE DEF First, Q
  <2>4. Lists(Listed(u, q[k + 1]), (S \cup First(k)) \cup {q[k + 1]})
    BY <2>2, ListedIs
  <2>5. (S \cup First(k)) \cup {q[k + 1]} = S \cup First(k + 1)
    BY <2>3
  <2> QED BY <1>2, <2>1, <2>4, <2>5
<1> HIDE DEF Q
<1>5. Listing!After(s, q) \in Q[n]
  BY <1>3, <1>4, Listing!AfterPasses
<1>6. Lists(FoldLeft(Listed, s, q), S \cup First(n))
  BY <1>1, <1>5, SameLists DEF Q
<1>7. First(n) = Told(q)
  BY <1>1 DEF Told
<1> QED BY <1>6, <1>7

Named(v) == {t \in Tasks : v.task[t] # "none"}
Numbered(v) == \E S \in SUBSET Rounds : Lists(v.rounds, S)

\* An event adds to the lists: it only ever names more tasks, and only a decision
\* gives a round its tasks.
Adds(v, e, w) ==
  /\ Lists(w.order, Named(w)) /\ Named(v) \subseteq Named(w) /\ Numbered(w)
  /\ e.type = "host.decision_created" =>
       Told(e.data.tasks) \subseteq Named(w) /\ w.round[e.data.round].tasks = e.data.tasks
  /\ \A n \in Rounds : w.round[n].tasks = v.round[n].tasks
                       \/ (e.type = "host.decision_created" /\ n = e.data.round)
  /\ w.mode = v.mode \/ (e.type = "run.started" /\ w.mode = e.data)

\* A task gets a status, or is touched.
LEMMA WithTaskLists ==
  ASSUME NEW v, ViewOK(v), Lists(v.order, Named(v)), NEW t \in Tasks,
         NEW st \in TaskStates, st # "none",
         NEW w, w \in {WithTask(v, t, st), Touched(v, t)}
  PROVE  /\ Lists(w.order, Named(w)) /\ Named(v) \subseteq Named(w)
         /\ w.rounds = v.rounds /\ w.round = v.round /\ w.mode = v.mode
         /\ w.task \in [Tasks -> TaskStates] /\ RecordOK(w)
<1>1. ASSUME NEW st1 \in TaskStates, st1 # "none", NEW u, u = WithTask(v, t, st1)
      PROVE  /\ Lists(u.order, Named(u)) /\ Named(v) \subseteq Named(u)
             /\ u.rounds = v.rounds /\ u.round = v.round /\ u.mode = v.mode
             /\ u.task \in [Tasks -> TaskStates] /\ RecordOK(u)
  <2>1. /\ u.task = [v.task EXCEPT ![t] = st1] /\ u.order = Listed(v.order, t)
        /\ u.rounds = v.rounds /\ u.round = v.round /\ u.mode = v.mode
    BY <1>1 DEF ViewOK, RecordOK, WithTask, Fields
  <2>2. ViewOK(u)
    BY <1>1, WithTaskIs
  <2>3. v.task \in [Tasks -> TaskStates]
    BY DEF ViewOK
  <2>4. Named(u) = Named(v) \cup {t}
    BY <1>1, <2>1, <2>3 DEF Named
  <2>5. Lists(Listed(v.order, t), Named(v) \cup {t})
    BY ListedIs
  <2> QED BY <2>1, <2>2, <2>4, <2>5 DEF ViewOK
<1>2. CASE w = WithTask(v, t, st)
  BY <1>1, <1>2
<1>3. CASE w = Touched(v, t)
  <2> DEFINE st2 == IF v.task[t] = "none" THEN "queued" ELSE v.task[t]
  <2>1. w = WithTask(v, t, st2)
    BY <1>3 DEF Touched
  <2>2. st2 \in TaskStates /\ st2 # "none"
    BY DEF ViewOK, TaskStates
  <2> HIDE DEF st2
  <2> QED BY <1>1, <2>1, <2>2
<1> QED BY <1>2, <1>3

\* Only some fields of a view are about the lists.
LEMMA AddsAlike ==
  ASSUME NEW v, NEW e, NEW u, NEW w, Numbered(v), Lists(u.order, Named(u)), Named(v) \subseteq Named(u),
         u.rounds = v.rounds, u.round = v.round, u.mode = v.mode,
         w.order = u.order, w.task = u.task, w.rounds = u.rounds, w.round = u.round, w.mode = u.mode,
         e.type # "host.decision_created"
  PROVE  Adds(v, e, w)
<1>1. Named(w) = Named(u)
  BY DEF Named
<1>2. Numbered(w)
  BY DEF Numbered
<1> QED BY <1>1, <1>2 DEF Adds

LEMMA EventAdds ==
  ASSUME NEW v, ViewOK(v), Lists(v.order, Named(v)), Numbered(v), NEW e \in Events
  PROVE  Adds(v, e, Reduce(v, e))
<1> DEFINE w == Reduce(v, e)
<1>0. v.task \in [Tasks -> TaskStates] /\ v.round \in [Rounds -> RoundStates] /\ RecordOK(v)
  BY DEF ViewOK
<1>1. CASE e.type \in TerminalType
  <2>1. /\ w.task = [t \in Tasks |-> IF v.task[t] \in InProgress THEN w.run ELSE v.task[t]]
        /\ w.run \in TerminalStatus /\ w.mode = v.mode
    BY <1>1, TerminalIs
  <2>2. w = OnTerminal(v, e)
    BY <1>1 DEF Reduce, TerminalType
  <2> DEFINE st == StatusOf(e.type)
  <2>3. w.order = v.order /\ w.rounds = v.rounds
        /\ w.round = [n \in Rounds |-> IF v.round[n].status = "working"
                                       THEN [v.round[n] EXCEPT !.status = st] ELSE v.round[n]]
    BY <2>2 DEF ViewOK, RecordOK, OnTerminal, Fields
  <2> HIDE DEF w, st
  <2>4. Named(w) = Named(v)
    BY <1>0, <2>1 DEF Named, TerminalStatus, InProgress
  <2>5. ASSUME NEW n \in Rounds PROVE w.round[n].tasks = v.round[n].tasks
    <3> PICK q \in RoundStates : q = v.round[n]
      BY <1>0
    <3>1. [q EXCEPT !.status = st].tasks = q.tasks
      BY DEF RoundStates
    <3> QED BY <2>3, <3>1
  <2>6. Numbered(w)
    BY <2>3 DEF Numbered
  <2>7. e.type # "host.decision_created"
    BY <1>1 DEF TerminalType
  <2> QED BY <2>1, <2>3, <2>4, <2>5, <2>6, <2>7 DEF Adds, w
<1>2. CASE e.type \in RunSays
  <2>1. /\ w.task = v.task /\ w.order = v.order /\ w.rounds = v.rounds /\ w.round = v.round
        /\ w.mode = v.mode \/ (e.type = "run.started" /\ w.mode = e.data)
    <3>1. CASE e.type = "run.started"
      <4>1. w = [v EXCEPT !.run = "running", !.mode = e.data]
        BY <3>1 DEF Reduce, TerminalType
      <4> QED BY <3>1, <4>1 DEF ViewOK, RecordOK, Fields
    <3>2. CASE e.type = "host.planning"
      <4>1. w = [v EXCEPT !.run = "planning"]
        BY <3>2 DEF Reduce, TerminalType
      <4> QED BY <3>2, <4>1 DEF ViewOK, RecordOK, Fields
    <3> QED BY <1>2, <3>1, <3>2 DEF RunSays
  <2>2. e.type # "host.decision_created"
    BY <1>2 DEF RunSays
  <2> HIDE DEF w
  <2>3. Named(w) = Named(v) /\ Numbered(w)
    BY <2>1 DEF Named, Numbered
  <2> QED BY <2>1, <2>2, <2>3 DEF Adds, w
<1>3. CASE e.type = "host.round_started"
  <2>1. w = OnRoundStarted(v, e) /\ e.data \in Rounds
    BY <1>3 DEF Reduce, TerminalType, Events, Proper
  <2>2. /\ w.task = v.task /\ w.order = v.order /\ w.mode = v.mode
        /\ w.rounds = Listed(v.rounds, e.data)
        /\ w.round = [v.round EXCEPT ![e.data].status = "working"]
    BY <2>1 DEF ViewOK, RecordOK, Fields, OnRoundStarted
  <2> HIDE DEF w
  <2>3. PICK S \in SUBSET Rounds : Lists(v.rounds, S)
    BY DEF Numbered
  <2>4. Lists(w.rounds, S \cup {e.data}) /\ S \cup {e.data} \in SUBSET Rounds
    BY <2>1, <2>2, <2>3, ListedIs
  <2>5. Numbered(w) /\ Named(w) = Named(v)
    BY <2>2, <2>4 DEF Numbered, Named
  <2>6. ASSUME NEW n \in Rounds PROVE w.round[n].tasks = v.round[n].tasks
    <3> PICK q \in RoundStates : q = v.round[n]
      BY <1>0
    <3>1. [q EXCEPT !.status = "working"].tasks = q.tasks
      BY DEF RoundStates
    <3> QED BY <1>0, <2>2, <3>1
  <2> QED BY <1>3, <2>2, <2>5, <2>6 DEF Adds, w
<1>4. CASE e.type = "host.round_completed"
  <2>1. w = OnRoundCompleted(v, e) /\ e.data \in Rounds
    BY <1>4 DEF Reduce, TerminalType, Events, Proper
  <2>2. /\ w.task = v.task /\ w.order = v.order /\ w.mode = v.mode /\ w.rounds = v.rounds
        /\ w.round = [v.round EXCEPT ![e.data].status = "completed"]
    BY <2>1 DEF ViewOK, RecordOK, Fields, OnRoundCompleted
  <2> HIDE DEF w
  <2>3. Numbered(w) /\ Named(w) = Named(v)
    BY <2>2 DEF Numbered, Named
  <2>4. ASSUME NEW n \in Rounds PROVE w.round[n].tasks = v.round[n].tasks
    <3> PICK q \in RoundStates : q = v.round[n]
      BY <1>0
    <3>1. [q EXCEPT !.status = "completed"].tasks = q.tasks
      BY DEF RoundStates
    <3> QED BY <1>0, <2>2, <3>1
  <2> QED BY <1>4, <2>2, <2>3, <2>4 DEF Adds, w
<1>5. CASE e.type = "host.decision_created"
  <2>1. w = OnDecision(v, e) /\ e.data \in HostChoices
    BY <1>5 DEF Reduce, TerminalType, Events, Proper
  <2> DEFINE d == e.data
             rec == [status |-> IF d.action = "delegate" THEN "working" ELSE d.action,
                     tasks |-> d.tasks]
  <2>2. /\ w.task = [t \in Tasks |-> IF v.task[t] = "none" /\ InSeq(d.tasks, t)
                                     THEN "queued" ELSE v.task[t]]
        /\ w.order = FoldLeft(Listed, v.order, d.tasks)
    BY <2>1 DEF ViewOK, RecordOK, Fields, OnDecision
  <2>3. /\ w.mode = v.mode /\ w.rounds = Listed(v.rounds, d.round)
        /\ w.round = [v.round EXCEPT ![d.round] = rec]
    BY <2>1 DEF ViewOK, RecordOK, Fields, OnDecision
  <2>4. d.round \in Rounds /\ d.tasks \in Seq(Tasks)
    <3>1. d.round \in Rounds /\ d.tasks \in Decisions \cup {<<>>}
      BY <2>1 DEF HostChoices
    <3>2. <<>> \in Seq(Tasks) /\ Decisions \subseteq Seq(Tasks \ {Root})
      BY TraceConstantsOK
    <3> DEFINE s == d.tasks
    <3> HIDE DEF d
    <3>3. s \in Decisions => s \in Seq(Tasks)
      <4> HIDE DEF s
      <4> QED BY <3>2
    <3> QED BY <3>1, <3>2, <3>3
  <2> HIDE DEF w, d
  <2>5. Named(w) = Named(v) \cup Told(d.tasks)
    <3>1. \A t : InSeq(d.tasks, t) <=> t \in Told(d.tasks)
      BY DEF InSeq, Told
    <3>2. Told(d.tasks) \subseteq Tasks
      BY <2>4 DEF Told
    <3> QED BY <2>2, <3>1, <3>2 DEF Named
  <2>6. Lists(w.order, Named(w))
    BY <2>2, <2>4, <2>5, AllListed
  <2>7. PICK S \in SUBSET Rounds : Lists(v.rounds, S)
    BY DEF Numbered
  <2>8. Lists(w.rounds, S \cup {d.round}) /\ S \cup {d.round} \in SUBSET Rounds
    BY <2>3, <2>4, <2>7, ListedIs
  <2>9. Numbered(w)
    BY <2>8 DEF Numbered
  <2>10. w.round[d.round].tasks = d.tasks /\ \A n \in Rounds : n # d.round => w.round[n] = v.round[n]
    <3>1. rec.tasks = d.tasks
      OBVIOUS
    <3> HIDE DEF rec
    <3> QED BY <1>0, <2>3, <2>4, <3>1
  <2>11. /\ Named(v) \subseteq Named(w) /\ Told(d.tasks) \subseteq Named(w) /\ w.mode = v.mode
         /\ \A n \in Rounds : w.round[n].tasks = v.round[n].tasks \/ n = d.round
    BY <2>3, <2>5, <2>10
  <2>12. d = e.data
    BY DEF d
  <2> QED BY <1>5, <2>6, <2>9, <2>10, <2>11, <2>12 DEF Adds, w
<1>6. CASE e.type \in {"task.delegated", "task.started", "task.status_changed",
                       "task.retry_scheduled", "task.blocked"} \cup Touches
  <2>1. e.task \in Tasks /\ e.type # "host.decision_created"
    BY <1>6 DEF Events, Proper, Touches
  <2>2. \E st \in TaskStates : st # "none" /\ w \in {WithTask(v, e.task, st), Touched(v, e.task)}
    <3>1. CASE e.type = "task.delegated"
      BY <3>1 DEF Reduce, TerminalType, TaskStates
    <3>2. CASE e.type = "task.started"
      BY <3>2 DEF Reduce, TerminalType, TaskStates
    <3>3. CASE e.type = "task.status_changed"
      BY <3>3 DEF Reduce, TerminalType, TaskStates, Events, Proper
    <3>4. CASE e.type = "task.retry_scheduled"
      BY <3>4 DEF Reduce, TerminalType, TaskStates
    <3>5. CASE e.type = "task.blocked"
      BY <3>5 DEF Reduce, TerminalType, TaskStates
    <3>6. CASE e.type \in Touches
      <4>1. w = Touched(v, e.task)
        BY <3>6 DEF Reduce, TerminalType, Touches
      <4>2. "queued" \in TaskStates
        BY DEF TaskStates
      <4> QED BY <4>1, <4>2
    <3> QED BY <1>6, <3>1, <3>2, <3>3, <3>4, <3>5, <3>6
  <2> HIDE DEF w
  <2>3. /\ Lists(w.order, Named(w)) /\ Named(v) \subseteq Named(w)
        /\ w.rounds = v.rounds /\ w.round = v.round /\ w.mode = v.mode
    BY <2>1, <2>2, WithTaskLists
  <2> QED BY <2>1, <2>3, AddsAlike DEF w
<1>7. CASE e.type \in Endings
  <2> DEFINE st == IF e.type = "task.completed" THEN "completed" ELSE "failed"
             u == WithTask(v, e.task, st)
  <2>1. e.task \in Tasks /\ e.type # "host.decision_created" /\ st \in TaskStates /\ st # "none"
    BY <1>7 DEF Events, Proper, Endings, TaskStates, TerminalStatus
  <2>2. w = OnTaskEnd(v, e)
    BY <1>7 DEF Reduce, TerminalType, Endings
  <2>3. w = [u EXCEPT !.tool = [x \in Tools |-> IF /\ ToolTask[x] = e.task
                                                  /\ @[x] \notin Closed \cup {"none"}
                                               THEN st ELSE @[x]],
                     !.thinking = @ \ {e.task}]
    BY <2>2 DEF OnTaskEnd
  <2> HIDE DEF st
  <2>4. /\ Lists(u.order, Named(u)) /\ Named(v) \subseteq Named(u)
        /\ u.rounds = v.rounds /\ u.round = v.round /\ u.mode = v.mode /\ RecordOK(u)
    BY <2>1, WithTaskLists
  <2> HIDE DEF u, w
  <2>5. w.order = u.order /\ w.task = u.task /\ w.rounds = u.rounds /\ w.round = u.round /\ w.mode = u.mode
    BY <2>3, <2>4 DEF RecordOK, Fields
  <2> QED BY <2>1, <2>4, <2>5, AddsAlike DEF w
<1>8. CASE e.type \in {"tool.called", "tool.completed", "agent.thinking_delta",
                       "message.delta", "message.completed"}
  <2> DEFINE u == Touched(v, e.task)
  <2>1. e.task \in Tasks /\ e.type # "host.decision_created" /\ "queued" \in TaskStates
    BY <1>8 DEF Events, Proper, TaskStates
  <2>2. /\ Lists(u.order, Named(u)) /\ Named(v) \subseteq Named(u)
        /\ u.rounds = v.rounds /\ u.round = v.round /\ u.mode = v.mode /\ RecordOK(u)
    BY <2>1, WithTaskLists
  <2> HIDE DEF u
  <2>3. w.order = u.order /\ w.task = u.task /\ w.rounds = u.rounds /\ w.round = u.round /\ w.mode = u.mode
    <3>1. CASE e.type = "tool.called"
      <4>1. w = [u EXCEPT !.tool[e.data] = "working", !.thinking = @ \ {e.task}]
        BY <3>1 DEF Reduce, TerminalType, OnToolCalled, u
      <4> HIDE DEF w
      <4> QED BY <2>2, <4>1 DEF RecordOK, Fields
    <3>2. CASE e.type = "tool.completed"
      <4>1. w = [u EXCEPT !.tool[e.data.tool] = IF e.data.error THEN "failed" ELSE "completed"]
        BY <3>2 DEF Reduce, TerminalType, OnToolCompleted, u
      <4> HIDE DEF w
      <4> QED BY <2>2, <4>1 DEF RecordOK, Fields
    <3>3. CASE e.type = "agent.thinking_delta"
      <4>1. w = [u EXCEPT !.thinking = @ \cup {e.task}]
        BY <3>3 DEF Reduce, TerminalType, OnThinking, u
      <4> HIDE DEF w
      <4> QED BY <2>2, <4>1 DEF RecordOK, Fields
    <3>4. CASE e.type \in {"message.delta", "message.completed"}
      <4>1. w = OnMessage(v, e)
        BY <3>4 DEF Reduce, TerminalType
      <4> HIDE DEF w
      <4> QED BY <2>2, <4>1 DEF RecordOK, Fields, OnMessage, u
    <3> QED BY <1>8, <3>1, <3>2, <3>3, <3>4
  <2> HIDE DEF w
  <2> QED BY <2>1, <2>2, <2>3, AddsAlike DEF w
<1>9. CASE e.type \in {"message.reset", "approval.required", "approval.decided",
                       "host.synthesis_started"}
  <2>1. w.order = v.order /\ w.task = v.task /\ w.rounds = v.rounds /\ w.round = v.round /\ w.mode = v.mode
    <3>1. CASE e.type = "message.reset"
      <4>1. w = OnReset(v, e)
        BY <3>1 DEF Reduce, TerminalType
      <4> HIDE DEF w
      <4> QED BY <1>0, <4>1 DEF RecordOK, Fields, OnReset
    <3>2. CASE e.type = "approval.required"
      <4>1. w = OnApprovalRequired(v, e)
        BY <3>2 DEF Reduce, TerminalType
      <4> HIDE DEF w
      <4> QED BY <1>0, <4>1 DEF RecordOK, Fields, OnApprovalRequired
    <3>3. CASE e.type = "approval.decided"
      <4>1. w = OnApprovalDecided(v, e)
        BY <3>3 DEF Reduce, TerminalType
      <4> HIDE DEF w
      <4> QED BY <1>0, <4>1 DEF RecordOK, Fields, OnApprovalDecided
    <3>4. CASE e.type = "host.synthesis_started"
      BY <3>4, SynthesisIs
    <3> QED BY <1>9, <3>1, <3>2, <3>3, <3>4
  <2> HIDE DEF w
  <2>2. e.type # "host.decision_created"
    BY <1>9
  <2> QED BY <2>1, <2>2, AddsAlike DEF w
<1> HIDE DEF w
<1>10. e.type \in Types
  BY DEF Events
<1> QED BY <1>1, <1>2, <1>3, <1>4, <1>5, <1>6, <1>7, <1>8, <1>9, <1>10 DEF w, Types, HostTypes, RunSays

-----------------------------------------------------------------------------
(***************************************************************************)
(* What a stretch adds to the lists, and the time line made of them.       *)
(***************************************************************************)

\* The decisions a stretch tells.
DecisionsIn(q) == {e.data : e \in {x \in Told(q) : x.type = "host.decision_created"}}

LEMMA DecisionsAre ==
  ASSUME NEW q \in Seq(Events), NEW d \in DecisionsIn(q)
  PROVE  /\ d \in HostChoices /\ d.round \in Rounds /\ d.tasks \in Decisions \cup {<<>>}
         /\ \E e \in Told(q) : e.type = "host.decision_created" /\ e.data = d
<1>1. PICK e \in Told(q) : e.type = "host.decision_created" /\ e.data = d
  BY DEF DecisionsIn
<1>2. e \in Events
  BY DEF Told
<1>3. d \in HostChoices
  BY <1>1, <1>2 DEF Events, Proper
<1> QED BY <1>1, <1>3 DEF HostChoices

LEMMA AfterAdds ==
  ASSUME NEW q \in Seq(Events), NEW v, ViewOK(v), Lists(v.order, Named(v)), Numbered(v)
  PROVE  LET w == ViewAfter(v, q)
         IN /\ Lists(w.order, Named(w)) /\ Named(v) \subseteq Named(w) /\ Numbered(w)
            /\ \A n \in Rounds :
                 \/ w.round[n].tasks = v.round[n].tasks
                 \/ \E d \in DecisionsIn(q) : /\ d.round = n /\ w.round[n].tasks = d.tasks
                                              /\ Told(d.tasks) \subseteq Named(w)
            /\ w.mode = v.mode \/ \E e \in Told(q) : e.type = "run.started" /\ w.mode = e.data
<1> DEFINE D == DecisionsIn(q)
           So(w) ==
             /\ Lists(w.order, Named(w)) /\ Named(v) \subseteq Named(w) /\ Numbered(w)
             /\ \A n \in Rounds :
                  \/ w.round[n].tasks = v.round[n].tasks
                  \/ \E d \in D : /\ d.round = n /\ w.round[n].tasks = d.tasks
                                  /\ Told(d.tasks) \subseteq Named(w)
             /\ w.mode = v.mode \/ \E e \in Told(q) : e.type = "run.started" /\ w.mode = e.data
           G(p) == {k \in 0..Len(q) : So(p[k].view)}
<1>1. PICK p : /\ Path(p, v, EmptyStage, EmptyFeed, [u \in Tasks |-> "none"], q)
               /\ p[0].view = v /\ p[Len(q)].view = ViewAfter(v, q)
  BY ViewPath
<1>2. So(v)
  OBVIOUS
<1>3. ASSUME NEW a, ViewOK(a), So(a), NEW e \in Events, e \in Told(q)
      PROVE  So(Reduce(a, e))
  <2> DEFINE w == Reduce(a, e)
  <2>1. Adds(a, e, w)
    BY <1>3, EventAdds
  <2>2. e.type = "host.decision_created" => e.data \in D
    BY <1>3 DEF DecisionsIn
  <2> HIDE DEF w, D
  <2>3. Lists(w.order, Named(w)) /\ Named(a) \subseteq Named(w) /\ Numbered(w)
    BY <2>1 DEF Adds
  <2>4. ASSUME NEW n \in Rounds
        PROVE  \/ w.round[n].tasks = v.round[n].tasks
               \/ \E d \in D : /\ d.round = n /\ w.round[n].tasks = d.tasks
                               /\ Told(d.tasks) \subseteq Named(w)
    <3>1. CASE e.type = "host.decision_created" /\ n = e.data.round
      BY <2>1, <2>2, <3>1 DEF Adds
    <3>2. CASE ~(e.type = "host.decision_created" /\ n = e.data.round)
      <4>1. w.round[n].tasks = a.round[n].tasks
        BY <2>1, <3>2 DEF Adds
      <4> QED BY <1>3, <2>3, <4>1
    <3> QED BY <3>1, <3>2
  <2>5. w.mode = v.mode \/ \E x \in Told(q) : x.type = "run.started" /\ w.mode = x.data
    <3>1. w.mode = a.mode \/ (e.type = "run.started" /\ w.mode = e.data)
      BY <2>1 DEF Adds
    <3> QED BY <1>3, <3>1
  <2>6. Named(v) \subseteq Named(w)
    BY <1>3, <2>3
  <2> QED BY <2>3, <2>4, <2>5, <2>6 DEF w
<1> HIDE DEF So
<1>4. Len(q) \in Nat /\ 0 \in G(p) /\ G(p) \in SUBSET (0..Len(q))
  BY <1>1, <1>2
<1>5. ASSUME NEW k \in 0..(Len(q) - 1), k \in G(p), ViewOK(p[k].view), q[k + 1] \in Events,
             q[k + 1] \in Told(q), p[k + 1].view = Reduce(p[k].view, q[k + 1])
      PROVE  k + 1 \in G(p)
  <2>1. So(p[k + 1].view)
    BY <1>3, <1>5
  <2>2. k + 1 \in 0..Len(q)
    BY <1>4
  <2> QED BY <2>1, <2>2
<1> HIDE DEF G
<1>6. Len(q) \in G(p)
  BY <1>1, <1>4, <1>5, AfterKeeps
<1> QED BY <1>1, <1>6 DEF G, So

\* A row that is there stays there, and a decision has one for each of its tasks.
LEMMA RowStays ==
  ASSUME NEW r \in Rows, NEW e \in Events, NEW t \in Tasks,
         r[t] # "none" \/ (e.type = "host.decision_created" /\ t \in Told(e.data.tasks))
  PROVE  ApplyEvent(r, e)[t] # "none"
<1>1. CASE e.task = t
  <2>1. ApplyEvent(r, e)[t] = RowStatus(e)
    BY <1>1, RowIs
  <2>2. RowStatus(e) # "none"
    BY RowIs DEF Endings
  <2> QED BY <2>1, <2>2
<1>2. CASE e.task # t
  <2>1. e.type = "host.decision_created" => (t \in Told(e.data.tasks) => InSeq(e.data.tasks, t))
    BY DEF Told, InSeq
  <2> DEFINE c == [u \in Tasks |->
                     IF /\ e.type = "host.decision_created"
                        /\ r[u] = "none" /\ InSeq(e.data.tasks, u)
                     THEN "pending" ELSE r[u]]
  <2>2. ApplyEvent(r, e) = IF e.task \in Tasks THEN [c EXCEPT ![e.task] = RowStatus(e)] ELSE c
    BY DEF ApplyEvent
  <2>3. c[t] # "none"
    BY <2>1
  <2>4. DOMAIN c = Tasks
    OBVIOUS
  <2> HIDE DEF c
  <2> QED BY <1>2, <2>2, <2>3, <2>4
<1> QED BY <1>1, <1>2

LEMMA AfterRows ==
  ASSUME NEW q \in Seq(Events), NEW r \in Rows, NEW t \in Tasks,
         r[t] # "none" \/ \E d \in DecisionsIn(q) : t \in Told(d.tasks)
  PROVE  Applied(r, q)[t] # "none"
<1>1. PICK p : Path(p, EmptyView, EmptyStage, EmptyFeed, r, q) /\ Ends(p, EmptyView, EmptyStage, EmptyFeed, r, q)
  BY PathExists
<1> DEFINE n == Len(q)
           Names(e) == e.type = "host.decision_created" /\ t \in Told(e.data.tasks)
           G == {k \in 0..n : /\ p[k].row \in Rows
                              /\ r[t] # "none" \/ (\E i \in 1..k : Names(q[i])) => p[k].row[t] # "none"}
<1>2. n \in Nat /\ 0 \in 0..n /\ DOMAIN q = 1..n
  OBVIOUS
<1>3. 0 \in G
  <2>1. p[0].row = r
    BY <1>1 DEF Path
  <2> QED BY <1>2, <2>1
<1>4. ASSUME NEW k \in 0..n, k \in G, k < n
      PROVE  k + 1 \in G
  <2> DEFINE e == q[k + 1]
             b == p[k].row
  <2>1. k \in Nat /\ k < Len(q) /\ k + 1 \in 0..n
    BY <1>2, <1>4
  <2>2. p[k + 1].row = ApplyEvent(b, e) /\ e \in Events
    BY <1>1, <2>1, PathStep
  <2>3. b \in Rows /\ (r[t] # "none" \/ (\E i \in 1..k : Names(q[i])) => b[t] # "none")
    BY <1>4
  <2>4. (\E i \in 1..(k + 1) : Names(q[i])) => (\E i \in 1..k : Names(q[i])) \/ Names(e)
    <3> HIDE DEF Names
    <3> QED BY <2>1
  <2> HIDE DEF b, e, n
  <2>5. ApplyEvent(b, e) \in Rows
    BY <2>2, <2>3, RowIs
  <2>6. b[t] # "none" \/ Names(e) => ApplyEvent(b, e)[t] # "none"
    BY <2>2, <2>3, RowStays
  <2> HIDE DEF Names
  <2> QED BY <2>1, <2>2, <2>3, <2>4, <2>5, <2>6
<1>5. n \in G
  <2>1. G \in SUBSET (0..n)
    OBVIOUS
  <2> HIDE DEF G
  <2>2. G = 0..n
    BY <1>2, <1>3, <1>4, <2>1, PathKeeps
  <2> QED BY <1>2, <2>2
<1>6. (\E d \in DecisionsIn(q) : t \in Told(d.tasks)) => \E i \in 1..n : Names(q[i])
  BY <1>2 DEF DecisionsIn, Told
<1>7. p[n].row = Applied(r, q)
  BY <1>1 DEF Ends
<1> HIDE DEF n, Names
<1> QED BY <1>5, <1>6, <1>7

Disjoint(a, b) == Told(a) \cap Told(b) = {}

\* Decisions of two rounds name different tasks.
Apart(c, d) == c.round # d.round => Disjoint(c.tasks, d.tasks)

\* A decision names no task that another round lists.
NewTo(d, v) == \A n \in Rounds : n # d.round => Disjoint(d.tasks, v.round[n].tasks)

\* The trace lists each of its tasks once, and no task is listed by two rounds.
Lined(v) ==
  /\ Lists(v.order, Named(v)) /\ Numbered(v)
  /\ \A n \in Rounds : Told(v.round[n].tasks) \subseteq Named(v)
  /\ \A n, k \in Rounds : n # k => Disjoint(v.round[n].tasks, v.round[k].tasks)

LEMMA AfterLined ==
  ASSUME NEW q \in Seq(Events), NEW v, ViewOK(v), Lined(v),
         \A c, d \in DecisionsIn(q) : Apart(c, d), \A d \in DecisionsIn(q) : NewTo(d, v)
  PROVE  LET w == ViewAfter(v, q)
         IN /\ Lined(w)
            /\ \A d : NewTo(d, v) /\ (\A c \in DecisionsIn(q) : Apart(c, d)) => NewTo(d, w)
            /\ DecisionsIn(q) = {} => \A n \in Rounds : w.round[n].tasks = v.round[n].tasks
<1> DEFINE D == DecisionsIn(q)
           w == ViewAfter(v, q)
<1>1. /\ Lists(w.order, Named(w)) /\ Named(v) \subseteq Named(w) /\ Numbered(w)
      /\ \A n \in Rounds :
           \/ w.round[n].tasks = v.round[n].tasks
           \/ \E d \in D : /\ d.round = n /\ w.round[n].tasks = d.tasks
                           /\ Told(d.tasks) \subseteq Named(w)
  BY AfterAdds DEF Lined
<1>2. \A d \in D : d.round \in Rounds
  BY DecisionsAre
<1>3. /\ \A c, d \in D : Apart(c, d)
      /\ \A d \in D : NewTo(d, v)
  OBVIOUS
<1> HIDE DEF w, D
<1>4. ASSUME NEW n \in Rounds, NEW k \in Rounds, n # k
      PROVE  Disjoint(w.round[n].tasks, w.round[k].tasks)
  <2>1. CASE w.round[n].tasks = v.round[n].tasks /\ w.round[k].tasks = v.round[k].tasks
    BY <1>4, <2>1 DEF Lined
  <2>2. CASE w.round[n].tasks # v.round[n].tasks /\ w.round[k].tasks = v.round[k].tasks
    <3>1. PICK d \in D : d.round = n /\ w.round[n].tasks = d.tasks
      BY <1>1, <2>2
    <3> QED BY <1>3, <1>4, <2>2, <3>1 DEF NewTo
  <2>3. CASE w.round[n].tasks = v.round[n].tasks /\ w.round[k].tasks # v.round[k].tasks
    <3>1. PICK d \in D : d.round = k /\ w.round[k].tasks = d.tasks
      BY <1>1, <2>3
    <3> QED BY <1>3, <1>4, <2>3, <3>1 DEF NewTo, Disjoint
  <2>4. CASE w.round[n].tasks # v.round[n].tasks /\ w.round[k].tasks # v.round[k].tasks
    <3>1. PICK c \in D : c.round = n /\ w.round[n].tasks = c.tasks
      BY <1>1, <2>4
    <3>2. PICK d \in D : d.round = k /\ w.round[k].tasks = d.tasks
      BY <1>1, <2>4
    <3> QED BY <1>3, <1>4, <3>1, <3>2 DEF Apart
  <2> QED BY <2>1, <2>2, <2>3, <2>4
<1>5. ASSUME NEW n \in Rounds PROVE Told(w.round[n].tasks) \subseteq Named(w)
  <2>1. CASE w.round[n].tasks = v.round[n].tasks
    BY <1>1, <2>1 DEF Lined
  <2>2. CASE w.round[n].tasks # v.round[n].tasks
    BY <1>1, <2>2
  <2> QED BY <2>1, <2>2
<1>6. Lined(w)
  BY <1>1, <1>4, <1>5 DEF Lined
<1>7. ASSUME NEW d, NewTo(d, v), \A c \in D : Apart(c, d)
      PROVE  NewTo(d, w)
  <2> SUFFICES ASSUME NEW n \in Rounds, n # d.round
               PROVE  Disjoint(d.tasks, w.round[n].tasks)
    BY DEF NewTo
  <2>1. CASE w.round[n].tasks = v.round[n].tasks
    BY <1>7, <2>1 DEF NewTo
  <2>2. CASE w.round[n].tasks # v.round[n].tasks
    <3>1. PICK c \in D : c.round = n /\ w.round[n].tasks = c.tasks
      BY <1>1, <2>2
    <3> QED BY <1>7, <3>1 DEF Apart, Disjoint
  <2> QED BY <2>1, <2>2
<1>8. D = {} => \A n \in Rounds : w.round[n].tasks = v.round[n].tasks
  BY <1>1
<1> QED BY <1>6, <1>7, <1>8 DEF w, D

\* What is made of such a trace.
LEMMA LineIs ==
  ASSUME NEW v, ViewOK(v), Lined(v),
         v.mode = "direct" => \A n \in Rounds : v.round[n].tasks = <<>>
  PROVE  Timeline(v) = TaskFlow(v) /\ Lists(Timeline(v), Named(v))
<1> DEFINE m == Len(v.rounds)
           ss == [i \in DOMAIN v.rounds |-> v.round[v.rounds[i]].tasks]
           S == [i \in 1..m |-> Told(ss[i])]
           U == UNION {S[i] : i \in 1..m}
           a == Placed(v)
           T == Tasks \ U
<1>1. PICK R \in SUBSET Rounds : Lists(v.rounds, R)
  BY DEF Lined, Numbered
<1>2. /\ m \in Nat /\ DOMAIN v.rounds = 1..m /\ \A i \in 1..m : v.rounds[i] \in Rounds
      /\ \A i, j \in 1..m : v.rounds[i] = v.rounds[j] => i = j
  BY <1>1 DEF Lists, Listing!Lists
<1>3. ASSUME NEW n \in Rounds
      PROVE  Lists(v.round[n].tasks, Told(v.round[n].tasks))
  <2> PICK x \in Decisions \cup {<<>>} : x = v.round[n].tasks
    BY DEF ViewOK, RoundStates
  <2>1. x \in Seq(Tasks)
    <3>1. CASE x = <<>>
      BY <3>1
    <3>2. CASE x \in Decisions
      <4>1. x \in Seq(Tasks \ {Root})
        BY <3>2, TraceConstantsOK
      <4> QED BY <4>1
    <3> QED BY <3>1, <3>2
  <2>2. \A i, j \in DOMAIN x : x[i] = x[j] => i = j
    <3>1. CASE x \in Decisions
      BY <3>1, TraceConstantsOK
    <3>2. CASE x = <<>>
      BY <3>2
    <3> QED BY <3>1, <3>2
  <2> HIDE DEF Lists
  <2>3. Listing!Lists(x, {x[i] : i \in DOMAIN x})
    BY <2>1, <2>2, Listing!OwnList
  <2> QED BY <2>3 DEF Lists, Told
<1>4. /\ ss = [i \in 1..m |-> ss[i]] /\ DOMAIN S = 1..m
      /\ \A i \in 1..m : ss[i] = v.round[v.rounds[i]].tasks /\ S[i] = Told(v.round[v.rounds[i]].tasks)
  BY <1>2
<1>5. a = FlattenSeq(ss)
  BY DEF Placed
<1> HIDE DEF ss, S, a
<1>6. ASSUME NEW i \in 1..m PROVE Listing!Lists(ss[i], S[i])
  <2> DEFINE n == v.rounds[i]
  <2>1. n \in Rounds /\ ss[i] = v.round[n].tasks /\ S[i] = Told(v.round[n].tasks)
    BY <1>2, <1>4
  <2> HIDE DEF n
  <2>2. Lists(ss[i], S[i])
    BY <1>3, <2>1
  <2> QED BY <2>2 DEF Lists
<1>7. \A i, j \in 1..m : i # j => S[i] \cap S[j] = {}
  <2> SUFFICES ASSUME NEW i \in 1..m, NEW j \in 1..m, i # j PROVE S[i] \cap S[j] = {}
    OBVIOUS
  <2>1. v.rounds[i] \in Rounds /\ v.rounds[j] \in Rounds /\ v.rounds[i] # v.rounds[j]
    BY <1>2
  <2> QED BY <1>4, <2>1 DEF Lined, Disjoint
<1> HIDE DEF m
<1>8. Lists(a, U)
  <2>1. Listing!Lists(Listing!FlattenSeq(ss), U)
    BY <1>2, <1>4, <1>6, <1>7, Listing!FlatLists
  <2> QED BY <1>5, <2>1, SameLists DEF Lists
<1>9. U \subseteq Named(v)
  BY <1>2, <1>4 DEF Lined
<1> HIDE DEF U
<1>10. Range(a) = U
  BY <1>8 DEF Range, Lists, Listing!Lists
<1> DEFINE k == Kept(v.order, T)
<1>11. Named(v) \subseteq Tasks /\ Lists(v.order, Named(v))
  BY DEF Lined, Named
<1>12. Lists(k, Named(v) \cap T)
  <2>1. Listing!Lists(Listing!Kept(v.order, T), Named(v) \cap T)
    BY <1>11, Listing!KeptLists DEF Lists
  <2> QED BY <2>1, SameLists DEF Lists
<1> HIDE DEF k
<1>13. Lists(a \o k, U \cup (Named(v) \cap T))
  <2>1. U \cap (Named(v) \cap T) = {}
    OBVIOUS
  <2> HIDE DEF T
  <2> QED BY <1>8, <1>12, <2>1, Listing!ListsTogether DEF Lists
<1>14. U \cup (Named(v) \cap T) = Named(v)
  BY <1>9, <1>11
<1>15. Timeline(v) = a \o k
  BY <1>10 DEF Timeline, a, k
<1> DEFINE c == a \o v.order
           new(i) == \A j \in 1..(i - 1) : c[j] # c[i]
<1>16. (IF v.mode = "direct" THEN v.order ELSE a \o v.order) = c
  <2>1. CASE v.mode = "direct"
    <3>1. U = {}
      BY <1>2, <1>4, <2>1 DEF U, Told
    <3>2. a \in Seq({}) /\ v.order \in Seq(Named(v))
      BY <1>8, <1>11, <3>1 DEF Lists, Listing!Lists
    <3>3. a = <<>>
      BY <3>2
    <3> QED BY <3>2, <3>3
  <2> QED BY <2>1
<1>17. TaskFlow(v) = Arranged(c, {i \in DOMAIN c : new(i)}, Along(c))
  <2> HIDE DEF c
  <2> QED BY <1>16 DEF TaskFlow, a
<1>18. Listing!Arranged(c, Listing!Firsts(c), Listing!Along(c)) = a \o Listing!Kept(v.order, T)
  <2>1. \A x \in Named(v) : x \in T <=> x \notin U
    BY <1>11
  <2> HIDE DEF T
  <2> QED BY <1>8, <1>11, <2>1, Listing!FirstOnes DEF Lists
<1>19. Listing!Firsts(c) = {i \in DOMAIN c : new(i)}
  BY DEF Listing!Firsts
<1> HIDE DEF c
<1>20. Arranged(c, {i \in DOMAIN c : new(i)}, Along(c)) = a \o k
  BY <1>18, <1>19, SameLists DEF k
<1> QED BY <1>13, <1>14, <1>15, <1>17, <1>20
=============================================================================
