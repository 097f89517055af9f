------------------------------- MODULE RunTrace -------------------------------
(***************************************************************************)
(* One Run as the browser sees it. The backend's drivers (the producer of  *)
(* the Run, and the job that continues it after a decision) write events,  *)
(* the rows of the database follow from the events and from the drivers'   *)
(* own updates, and the three views of RunEvents fold the same events.     *)
(*                                                                         *)
(* A driver works through `script`, the events of the stretch it is in:    *)
(* the producer hands each one to the response and may be cut off between  *)
(* two; the job writes a stretch in one step. The user decides an approval *)
(* when the Run is paused, as the page shows it; RunLifecycle has the      *)
(* decisions that come earlier.                                            *)
(***************************************************************************)
EXTENDS RunEvents

CONSTANTS
  Mutation,   \* the tasks whose workflow role is "mutation"
  Speakers,   \* the tasks whose agents tell their progress
  Announced,  \* the calls that agents announce by an event
  Retried,    \* the tasks that may take a second attempt
  Decisions,  \* the task lists the Host may delegate, as sequences
  MaxRounds   \* the configured number of rounds

ASSUME TraceConstantsOK ==
  /\ MaxRounds \in Nat \ {0} /\ Rounds = 1..MaxRounds
  /\ Speakers \subseteq Tasks /\ Announced \subseteq Tools
  /\ Decisions \subseteq Seq(Tasks \ {Root})
  /\ \A S \in Decisions : \A i, j \in DOMAIN S : S[i] = S[j] => i = j

VARIABLES
  mode,      \* "auto" or "direct"
  pc,        \* where the driver at work is
  driver,    \* "producer" or "job"
  script,    \* the events it writes before it goes on
  round,     \* the Host's round
  asked,     \* the tasks of the round
  exec,      \* exec[t]: the execution of t on its agent
  failing,   \* the driver has seen a failure
  run,       \* the Run's status row
  row,       \* row[t]: the task's status row
  approval,  \* approval[a]: the approval's status row
  evaluated, \* tasks with a task.evaluated event in the log
  gate,      \* the approval whose decision is being carried out
  view, stage, feed,
  fate       \* "cancelled", "superseded" or "restarted"

vars == <<mode, pc, driver, script, round, asked, exec, failing, run, row,
          approval, evaluated, gate, view, stage, feed, fate>>
rows == <<run, row, approval>>
views == <<view, stage, feed>>
plan == <<round, asked, exec>>
back == <<gate, fate>>

RunTerminal == TerminalStatus \cup {"interrupted"}
Resting == {"idle", "paused", "stopped", "ended"}

Init ==
  /\ mode \in {"auto", "direct"}
  /\ pc = "idle" /\ driver = "producer" /\ script = <<>>
  /\ round = 0 /\ asked = <<>> /\ exec = [t \in Tasks |-> "none"]
  /\ failing = FALSE
  /\ run = "none" /\ row = [t \in Tasks |-> "none"]
  /\ approval = [a \in Approvals |-> "none"]
  /\ evaluated = {} /\ gate = NoData
  /\ view = EmptyView /\ stage = EmptyStage /\ feed = EmptyFeed
  /\ fate = {}

-----------------------------------------------------------------------------
(***************************************************************************)
(* What persisting an event does to the rows and to the views.             *)
(***************************************************************************)
Logged(s) ==
  /\ view' = FoldLeft(Reduce, view, s)
  /\ stage' = FoldLeft(ReduceStage, stage, s)
  /\ feed' = FoldLeft(ReduceFeed, feed, s)

\* Mutant of RowStatus: rows take the vocabulary of the event feed.
RowStatusOfFeed(e) == FeedState(e.type)

\* Every event that names a task and is not about its end says "working".
RowStatus(e) ==
  CASE e.type = "task.completed" -> "completed"
    [] e.type = "task.failed" -> "failed"
    [] e.type = "task.blocked" -> "blocked"
    [] e.type = "task.status_changed" -> e.data
    [] e.type = "approval.required" -> "approval_required"
    [] OTHER -> "working"

\* A decision creates the rows of its tasks; every event then sets the row of
\* the task it names.
ApplyEvent(r, e) ==
  LET created == [t \in Tasks |->
        IF /\ e.type = "host.decision_created"
           /\ r[t] = "none" /\ InSeq(e.data.tasks, t)
        THEN "pending" ELSE r[t]]
  IN IF e.task \in Tasks THEN [created EXCEPT ![e.task] = RowStatus(e)] ELSE created

Applied(r, s) == FoldLeft(ApplyEvent, r, s)

\* The driver persists its next event; the job persists the whole stretch. The
\* producer looks at the Run first and returns when it was cancelled.
Emit ==
  LET now == IF driver = "job" THEN script ELSE <<Head(script)>>
  IN /\ script # <<>>
     /\ driver = "job" \/ run # "cancelled"
     /\ Logged(now)
     /\ row' = Applied(row, now)
     /\ evaluated' = evaluated \cup
          {now[i].task : i \in {j \in DOMAIN now : now[j].type = "task.evaluated"}}
     /\ script' = IF driver = "job" THEN <<>> ELSE Tail(script)
     /\ UNCHANGED <<mode, pc, driver, plan, failing, run, approval, back>>

Ready(p) == pc = p /\ script = <<>>
Says(s, p) == script' = s /\ pc' = p

-----------------------------------------------------------------------------
(***************************************************************************)
(* The Host's rounds.                                                      *)
(***************************************************************************)
RootEv(type) == Ev(type, Root, NoData)

Start ==
  /\ pc = "idle"
  /\ run' = "running"
  /\ row' = [row EXCEPT ![Root] = "working"]
  /\ Says(<<Ev("run.started", NoData, mode)>>
            \o IF mode = "auto" THEN <<RootEv("host.planning")>>
               ELSE <<RootEv("task.delegated")>>,
          IF mode = "auto" THEN "host" ELSE "direct")
  /\ exec' = IF mode = "auto" THEN exec ELSE [exec EXCEPT ![Root] = "running"]
  /\ UNCHANGED <<mode, driver, round, asked, failing, approval, evaluated, views, back>>

OpenRound ==
  /\ Ready("host")
  /\ round < MaxRounds
  /\ round' = round + 1
  /\ Says(<<Ev("host.round_started", Root, round + 1)>>, "deciding")
  /\ UNCHANGED <<mode, driver, asked, exec, failing, rows, evaluated, views, back>>

Decision(action, S) ==
  Ev("host.decision_created", Root, [round |-> round, action |-> action, tasks |-> S])

\* The Host delegates: its decision, then three events per task, then gather().
\* The model that decides names the tasks. The ids of one decision differ; that
\* they are new to the Run, and a task sent on gets another id, is assumed.
Delegate(S) ==
  LET opening(t) == <<Ev("task.context_prepared", t, NoData),
                      Ev("task.delegated", t, NoData), Ev("task.started", t, NoData)>>
  IN /\ Ready("deciding")
     /\ \A i \in DOMAIN S : row[S[i]] = "none" /\ exec[S[i]] = "none"
     /\ asked' = S
     /\ Says(<<Decision("delegate", S)>> \o FlattenSeq([i \in DOMAIN S |-> opening(S[i])]),
             "delegating")
     /\ UNCHANGED <<mode, driver, round, exec, failing, rows, evaluated, views, back>>

Gather ==
  /\ Ready("delegating")
  /\ exec' = [t \in Tasks |-> IF InSeq(asked, t) THEN "running" ELSE exec[t]]
  /\ pc' = "gathering"
  /\ UNCHANGED <<mode, driver, script, round, asked, failing, rows, evaluated, views, back>>

Observed == {t \in Tasks \ {Root} : exec[t] \notin {"none", "running", "lost"}}

\* The answer of the Host: a synthesis when there is something to synthesise,
\* its text, and the end of the root. A synthesis may break off half way.
Answer(action, breaks) ==
  LET synth == action \in {"complete", "stop"} /\ Observed # {}
  IN /\ breaks => synth
     /\ Says(<<Decision(action, <<>>)>>
               \o (IF synth THEN <<RootEv("host.synthesis_started")>> ELSE <<>>)
               \o <<RootEv("message.delta")>>
               \o IF breaks THEN <<RootEv("task.failed")>>
                  ELSE <<RootEv("message.completed"),
                         RootEv(IF action = "stop" THEN "task.blocked"
                                ELSE "task.completed")>>,
             "ending")
     /\ failing' = (failing \/ breaks \/ action = "stop")
     /\ UNCHANGED <<mode, driver, plan, rows, evaluated, views, back>>

\* The Host answers in a round of its own, or after its last round with a
\* decision that carries that round's number.
HostAnswers(action, breaks) ==
  /\ \/ Ready("deciding")
     \/ Ready("host") /\ round = MaxRounds /\ action = "complete"
  /\ Answer(action, breaks)

\* No usable decision and nothing observed: the Run fails.
HostFails ==
  /\ Ready("deciding")
  /\ Observed = {}
  /\ failing' = TRUE
  /\ Says(<<RootEv("task.failed")>>, "ending")
  /\ UNCHANGED <<mode, driver, plan, rows, evaluated, views, back>>

\* Mutant of Progress: what an agent reports is taken at any time.
ProgressLate(e) ==
  /\ Ready("host") \/ Ready("gathering") \/ Ready("direct")
  /\ script' = <<e>>
  /\ UNCHANGED <<mode, pc, driver, plan, failing, rows, evaluated, views, back>>

\* What the agent of t reports while it works: to the round that waits for it,
\* or on the stream of a direct Run.
Progress(e) ==
  /\ Ready("gathering") \/ Ready("direct")
  /\ exec[e.task] = "running"
  /\ script' = <<e>>
  /\ UNCHANGED <<mode, pc, driver, plan, failing, rows, evaluated, views, back>>

\* The reports that tell the views something: a repeated one changes nothing but
\* which event is the latest.
ProgressEvents ==
  {Ev("message.delta", t, NoData) : t \in {u \in Speakers : view.message[u] # "draft"}}
  \cup {Ev("message.reset", t, NoData) : t \in {u \in Speakers : view.message[u] = "draft"}}
  \cup {Ev("agent.thinking_delta", t, NoData) : t \in Speakers \ view.thinking}
  \cup {Ev("tool.called", ToolTask[x], x) : x \in {y \in Announced : view.tool[y] = "none"}}
  \cup {Ev("tool.completed", ToolTask[x], [tool |-> x, error |-> FALSE]) :
          x \in {y \in Tools : view.tool[y] = "working"}}

\* An execution of an auto Run ends. It needs no driver: it goes on when the
\* producer was cut off.
RemoteReturns(t, v) ==
  /\ mode = "auto" /\ exec[t] = "running" /\ script = <<>>
  /\ exec' = [exec EXCEPT ![t] = v]
  /\ UNCHANGED <<mode, pc, driver, script, round, asked, failing, rows, evaluated,
                 views, back>>

\* The gateway records the approval of a call and pauses the Run, whatever the
\* Run's status is by now.
RemoteAsks(t, a) ==
  /\ mode = "auto" /\ exec[t] = "running" /\ script = <<>>
  /\ approval[a] = "none" /\ ToolTask[ApprovalTool[a]] = t
  /\ view.tool[ApprovalTool[a]] = "working"
  /\ approval' = [approval EXCEPT ![a] = "pending"]
  /\ run' = "approval_required"
  /\ exec' = [exec EXCEPT ![t] = "approval"]
  /\ UNCHANGED <<mode, pc, driver, script, round, asked, failing, row, evaluated,
                 views, back>>

RaisedBy(t) == CHOOSE a \in Approvals :
                 approval[a] # "none" /\ ToolTask[ApprovalTool[a]] = t

\* Mutant of Asks: the task is said to wait, and the approval is not told.
AsksSilently(t, a) == Ev("task.status_changed", t, "approval_required")

Asks(t, a) == Ev("approval.required", t, a)

\* The events of one result, in the order of the round's tasks. Second attempts
\* and a change of agent are only told now.
Result(t, again) ==
  LET text == view.message[t] = "draft" \/ t \in view.progress
  IN (IF t \in again THEN <<Ev("task.retry_scheduled", t, NoData),
                           Ev("host.plan_revised", t, NoData)>> ELSE <<>>)
     \o <<Ev("task.evaluated", t, NoData)>>
     \o CASE exec[t] = "approval" -> <<Asks(t, RaisedBy(t))>>
          [] exec[t] = "failed" ->
               (IF text THEN <<Ev("message.completed", t, NoData)>> ELSE <<>>)
               \o <<Ev("task.failed", t, NoData)>>
          [] OTHER -> <<Ev("message.completed", t, NoData),
                        Ev("task.completed", t, NoData)>>

\* gather() returned: all results of the round, its end, and the pause.
Gathered(again) ==
  LET S == asked
      paused == \E i \in DOMAIN S : exec[S[i]] = "approval"
  IN /\ Ready("gathering")
     /\ \A i \in DOMAIN S : exec[S[i]] # "running"
     /\ failing' = (failing \/ \E i \in DOMAIN S : exec[S[i]] = "failed")
     /\ Says(FlattenSeq([i \in DOMAIN S |-> Result(S[i], again)])
               \o <<Ev("host.round_completed", Root, round)>>
               \o IF paused THEN <<Ev("task.status_changed", Root, "approval_required")>>
                  ELSE <<>>,
             IF paused THEN "pausing" ELSE "host")
     /\ UNCHANGED <<mode, driver, plan, rows, evaluated, views, back>>

-----------------------------------------------------------------------------
(***************************************************************************)
(* A direct Run: the agent's stream is the Run's own.                      *)
(***************************************************************************)
DirectAsks(a) ==
  /\ Ready("direct")
  /\ exec[Root] = "running"
  /\ approval[a] = "none" /\ view.tool[ApprovalTool[a]] = "working"
  /\ approval' = [approval EXCEPT ![a] = "pending"]
  /\ run' = "approval_required"
  /\ exec' = [exec EXCEPT ![Root] = "approval"]
  /\ script' = <<Asks(Root, a)>>
  /\ UNCHANGED <<mode, pc, driver, round, asked, failing, row, evaluated, views, back>>

\* The stream ends: with an answer, at the approval it asked for, or in an error.
\* A stream that stops at an approval may leave its draft as it is.
DirectEnds(how, says) ==
  LET text == IF says THEN <<RootEv("message.completed")>> ELSE <<>>
  IN /\ Ready("direct")
     /\ says => view.message[Root] = "draft" /\ how # "failed"
     /\ how = "answered" => exec[Root] = "running"
                             /\ (says \/ view.message[Root] # "draft")
     /\ how = "asked" => exec[Root] = "approval"
     /\ failing' = (how = "failed")
     /\ CASE how = "answered" -> Says(text \o <<RootEv("task.completed")>>, "ending")
          [] how = "asked" ->
               Says(text \o <<Ev("task.status_changed", Root, "approval_required")>>,
                    "pausing")
          [] how = "failed" -> Says(<<RootEv("task.failed")>>, "ending")
     /\ exec' = [exec EXCEPT ![Root] = IF how = "asked" THEN @ ELSE "settled"]
     /\ UNCHANGED <<mode, driver, round, asked, rows, evaluated, views, back>>

-----------------------------------------------------------------------------
(***************************************************************************)
(* The end of a stretch: a pause, or the Run's terminal event.             *)
(***************************************************************************)
Graded(v) == \E t \in evaluated : exec[t] = v

FinalStatus ==
  IF row[Root] = "blocked" /\ Graded("insufficient") /\ ~Graded("failed")
  THEN "evidence_insufficient"
  ELSE IF failing THEN "failed"
  ELSE IF Graded("insufficient") THEN "partial" ELSE "completed"

TypeOf(st) == CHOOSE ty \in TerminalType : StatusOf(ty) = st

\* Mutant of Close: the status is written and the event is not.
CloseSilently ==
  /\ Ready("ending") \/ (Ready("pausing") /\ driver = "producer" /\ failing)
  /\ driver = "job" \/ run # "cancelled"
  /\ run' = FinalStatus
  /\ row' = [row EXCEPT ![Root] = "completed"]
  /\ pc' = "ended"
  /\ UNCHANGED <<mode, driver, script, plan, failing, approval, evaluated, views, back>>

\* Status, root row and terminal event in one step. The job persists the event
\* like any other, which says "working" of the root. In a producer a failed
\* task outweighs an approval.
Close ==
  LET final == <<RootEv(TypeOf(FinalStatus))>>
  IN /\ Ready("ending") \/ (Ready("pausing") /\ driver = "producer" /\ failing)
     /\ driver = "job" \/ run # "cancelled"
     /\ run' = FinalStatus
     /\ row' = IF driver = "job" THEN Applied(row, final)
               ELSE [row EXCEPT ![Root] = IF FinalStatus \in {"completed", "partial"}
                                          THEN "completed" ELSE "failed"]
     /\ Logged(final)
     /\ pc' = "ended"
     /\ UNCHANGED <<mode, driver, script, plan, failing, approval, evaluated, back>>

Pause ==
  /\ Ready("pausing")
  /\ driver = "job" \/ (~failing /\ run # "cancelled")
  /\ run' = "approval_required"
  /\ row' = [row EXCEPT ![Root] = "approval_required"]
  /\ pc' = "paused"
  /\ UNCHANGED <<mode, driver, script, plan, failing, approval, evaluated, views, back>>

\* The producer finds its Run cancelled.
Return ==
  /\ driver = "producer" /\ pc \notin Resting
  /\ run = "cancelled"
  /\ Says(<<>>, "stopped")
  /\ UNCHANGED <<mode, driver, plan, failing, rows, evaluated, views, back>>

-----------------------------------------------------------------------------
(***************************************************************************)
(* Decisions.                                                              *)
(***************************************************************************)

\* The page that decides marks the card before the Run goes on.
Decide(a, d) ==
  /\ pc \in Resting
  /\ approval[a] = "pending" /\ view.approval[a] = "pending"
  /\ approval' = [approval EXCEPT ![a] = d]
  /\ view' = [view EXCEPT !.approval[a] = IF mode = "auto" THEN "executing" ELSE @]
  /\ gate' = a
  /\ driver' = "job" /\ pc' = "executing"
  /\ UNCHANGED <<mode, script, plan, failing, run, row, evaluated, stage, feed, fate>>

Approved == approval[gate] = "approved"
Gated == ToolTask[ApprovalTool[gate]]

\* The call is closed when the log has it open.
CloseCall(error) ==
  IF feed.tool[ApprovalTool[gate]] = "working"
  THEN <<Ev("tool.completed", Gated, [tool |-> ApprovalTool[gate], error |-> error])>>
  ELSE <<>>

Decided == Ev("approval.decided", Gated,
              [approval |-> gate, decision |-> approval[gate]])

\* The events of one write in one step, and the rows they set.
Writes(s) == Logged(s) /\ row' = Applied(row, s)

\* The agent's answer goes into the Run's status before anything looks at the
\* Run again; then the job takes the task it finds paused, or returns. A call
\* of a task that is no mutation is judged by the model first.
JobGoesOn(res) ==
  /\ pc = "executing" /\ mode = "auto"
  /\ run' = IF res = "failed" THEN "failed" ELSE "running"
  /\ pc' = IF /\ row[Gated] = "approval_required" /\ res = "completed"
             /\ Approved /\ Gated \notin Mutation THEN "evaluating"
           ELSE IF row[Gated] = "approval_required" /\ res # "other" THEN "resuming"
           ELSE "stopped"
  /\ failing' = (res = "failed" /\ Approved)
  /\ UNCHANGED <<mode, driver, script, plan, row, approval, evaluated, views, back>>

\* The job writes how the call ended, and continues the Host's loop unless the
\* call failed.
Resume(grade) ==
  LET last == IF failing THEN "task.failed"
              ELSE IF ~Approved THEN "task.blocked" ELSE "task.completed"
      ended == IF grade = "insufficient"
               THEN Ev("task.status_changed", Gated, "working")
               ELSE Ev(last, Gated, NoData)
      told == <<Decided>> \o CloseCall(last # "task.completed")
                \o <<Ev("message.completed", Gated, NoData), ended>>
  IN /\ pc = "evaluating" \/ (pc = "resuming" /\ grade = "sufficient")
     /\ Writes(IF failing THEN Append(told, RootEv("run.failed")) ELSE told)
     /\ run' = IF failing THEN "failed" ELSE "running"
     /\ IF failing THEN Says(<<>>, "ended") ELSE Says(<<RootEv("host.planning")>>, "host")
     /\ exec' = [exec EXCEPT ![Gated] = "settled"]
     /\ gate' = NoData
     /\ UNCHANGED <<mode, driver, round, asked, failing, approval, evaluated, fate>>

\* The agent answers an approved write with the next one of its batch.
NextOfBatch(b) ==
  /\ pc = "executing" /\ Approved
  /\ approval[b] = "none" /\ ToolTask[ApprovalTool[b]] = Gated
  /\ approval' = [approval EXCEPT ![b] = "pending"]
  /\ run' = "approval_required"
  /\ mode = "direct" \/ row[Gated] = "approval_required"
  /\ LET next == <<Asks(Gated, b),
                   Ev("task.status_changed", Gated, "approval_required")>>
     IN IF mode = "auto"
        THEN Writes(<<Decided>> \o CloseCall(FALSE) \o next)
        ELSE /\ Logged(<<Decided>> \o next)
             /\ row' = [row EXCEPT ![Gated] = "working"]
  /\ pc' = "paused" /\ gate' = NoData
  /\ UNCHANGED <<mode, driver, script, plan, failing, evaluated, fate>>

\* A decision in a direct Run ends it; a rejected Run counts as completed.
DirectDecided(res) ==
  LET ok == Approved /\ res = "completed"
      last == IF ok THEN "task.completed"
              ELSE IF ~Approved THEN "task.blocked" ELSE "task.failed"
      end == RowStatus(RootEv(last))
      final == IF end = "failed" THEN "failed" ELSE "completed"
  IN /\ pc = "executing" /\ mode = "direct"
     /\ Logged(<<Decided>> \o CloseCall(~ok)
                 \o (IF ok THEN <<Ev("message.completed", Gated, NoData)>> ELSE <<>>)
                 \o <<RootEv(last), RootEv(TypeOf(final))>>)
     /\ row' = [row EXCEPT ![Root] = end]
     /\ run' = IF res = "failed" THEN "failed" ELSE final
     /\ pc' = "ended" /\ gate' = NoData
     /\ UNCHANGED <<mode, driver, script, plan, failing, approval, evaluated, fate>>

-----------------------------------------------------------------------------
(***************************************************************************)
(* What happens to a Run from outside.                                     *)
(***************************************************************************)
StopsProducer ==
  IF driver = "producer" /\ pc \notin Resting THEN Says(<<>>, "stopped")
  ELSE UNCHANGED <<script, pc>>

CancelRun ==
  /\ run' = "cancelled"
  /\ row' = [t \in Tasks |-> IF row[t] \in RunTerminal \cup {"none"} THEN row[t]
                             ELSE "cancelled"]
  /\ Logged(<<RootEv("run.cancelled")>>)
  /\ fate' = fate \cup {"cancelled"}

Cancel ==
  /\ run \notin RunTerminal \cup {"none"}
  /\ CancelRun /\ StopsProducer
  /\ UNCHANGED <<mode, driver, plan, failing, approval, evaluated, gate>>

\* A new message of the conversation cancels the Runs that wait for a decision:
\* rows only, no event.
Supersede ==
  /\ \E a \in Approvals : approval[a] = "pending"
  /\ run' = "cancelled"
  /\ approval' = [a \in Approvals |-> IF approval[a] = "pending" THEN "rejected"
                                      ELSE approval[a]]
  /\ fate' = fate \cup {"superseded"}
  /\ UNCHANGED <<mode, pc, driver, script, plan, failing, row, evaluated, gate, views>>

\* The connection of the producer goes: a Run still running is cancelled, one
\* that a call has paused loses its producer.
CutOff ==
  /\ driver = "producer" /\ pc \notin Resting
  /\ Says(<<>>, "stopped")
  /\ IF run = "running" THEN CancelRun ELSE UNCHANGED <<run, row, views, fate>>
  /\ UNCHANGED <<mode, driver, plan, failing, approval, evaluated, gate>>

\* The backend restarts: a running Run is declared interrupted in its row and
\* failed in its log. Once at most. (A Run that rests has nothing to lose.)
Restart ==
  /\ "restarted" \notin fate /\ (pc \notin Resting \/ run = "running")
  /\ fate' = fate \cup {"restarted"}
  /\ exec' = [t \in Tasks |-> IF exec[t] = "running" THEN "lost" ELSE exec[t]]
  /\ Says(<<>>, "stopped")
  /\ IF run # "running" THEN UNCHANGED <<run, row, views>>
     ELSE /\ run' = "interrupted"
          /\ row' = [t \in Tasks |->
               IF row[t] \in RunTerminal \cup {"none", "approval_required"} THEN row[t]
               ELSE "interrupted"]
          /\ Logged(<<RootEv("run.failed")>>)
  /\ UNCHANGED <<mode, driver, round, asked, failing, approval, evaluated, gate>>

Next ==
  \/ Start \/ OpenRound \/ Gather \/ HostFails \/ Emit \/ Close \/ Pause \/ Return
  \/ \E S \in Decisions : Delegate(S)
  \/ \E action \in {"respond", "complete", "stop"}, breaks \in BOOLEAN :
       HostAnswers(action, breaks)
  \/ \E e \in ProgressEvents : Progress(e)
  \/ \E t \in Tasks, v \in {"sufficient", "insufficient", "failed"} : RemoteReturns(t, v)
  \/ \E t \in Tasks, a \in Approvals : RemoteAsks(t, a)
  \/ \E again \in SUBSET Retried : Gathered(again)
  \/ \E a \in Approvals : DirectAsks(a)
  \/ \E how \in {"answered", "asked", "failed"}, says \in BOOLEAN : DirectEnds(how, says)
  \/ \E a \in Approvals, d \in {"approved", "rejected"} : Decide(a, d)
  \/ \E res \in {"completed", "failed", "other"} : JobGoesOn(res)
  \/ \E grade \in {"sufficient", "insufficient"} : Resume(grade)
  \/ \E b \in Approvals : NextOfBatch(b)
  \/ \E res \in {"completed", "failed"} : DirectDecided(res)
  \/ Cancel \/ Supersede \/ CutOff \/ Restart

Spec == Init /\ [][Next]_vars

-----------------------------------------------------------------------------
(***************************************************************************)
(* Properties.                                                             *)
(***************************************************************************)
TypeOK ==
  /\ mode \in {"auto", "direct"}
  /\ pc \in Resting \cup {"host", "deciding", "delegating", "gathering", "direct",
                          "pausing", "ending", "executing", "evaluating", "resuming"}
  /\ driver \in {"producer", "job"}
  /\ round \in 0..MaxRounds
  /\ exec \in [Tasks -> {"none", "running", "approval", "sufficient", "insufficient",
                         "failed", "lost", "settled"}]
  /\ failing \in BOOLEAN
  /\ run \in RunTerminal \cup {"none", "running", "approval_required"}
  /\ row \in [Tasks -> RunTerminal \cup {"none", "pending", "working", "blocked",
                                         "approval_required"}]
  /\ approval \in [Approvals -> {"none", "pending", "approved", "rejected"}]
  /\ evaluated \subseteq Tasks
  /\ gate \in Approvals \cup {NoData}
  /\ fate \subseteq {"cancelled", "superseded", "restarted"}

\* No driver is at work, and none gave up half way: a job may, when the agent
\* gives no clear answer or when the backend stops.
AtRest == pc \in Resting /\ script = <<>> /\ (driver = "producer" \/ pc # "stopped")
Children == Tasks \ {Root}

\* What the trace and the feed call a status of the Run's row.
TraceName(st) == IF st = "interrupted" THEN "failed" ELSE st
FeedName(st) == CASE st = "cancelled" -> "canceled"
                  [] st = "interrupted" -> "failed"
                  [] OTHER -> st

\* When every driver of a Run is done, the trace, the stage and the event feed
\* agree with its row on how it ended, although each reads another part of the
\* log. The exceptions change the row behind the log's back: a Run superseded by
\* a message, and a rejected direct Run whose agent answers with a failure.
ViewsSettleAlike ==
  AtRest /\ run \in RunTerminal /\ "superseded" \notin fate
    /\ ~(mode = "direct" /\ run = "failed" /\ row[Root] = "blocked")
  => /\ view.run = TraceName(run)
     /\ StageState(stage, mode) = TraceName(run)
     /\ feed.run = FeedName(run)

\* A task that reported its end has no call that counts as running and no live
\* reasoning, and the event feed reads the same end, whatever order its own events
\* and those of its round came in.
ReportedTasksAreClosed ==
  \A t \in Children : row[t] \in Closed =>
    /\ view.task[t] \in {row[t]} \cup TerminalStatus
    /\ RunningCalls(view, t) = {} /\ t \notin view.thinking
    /\ feed.task[t] = row[t]

\* The stage names as active every child that the trace shows in progress, and
\* none that has not begun or has reported its end. The two keep their own account
\* of delegations, retries, approvals and ends.
StageMatchesTrace ==
  stage.latest \notin TerminalType =>
    \A t \in Children :
      /\ view.task[t] \in InProgress \cup {"approval_required"} => t \in StageActive(stage)
      /\ t \in StageActive(stage) => row[t] \notin Closed \cup {"none", "pending", "blocked"}

\* Nothing is left in progress in the trace of a Run that is over.
TreeSettles ==
  AtRest /\ view.run \in TerminalStatus =>
    /\ \A t \in Tasks : view.task[t] \notin InProgress
    /\ \A n \in Rounds : view.round[n].status # "working"

\* A Run that was left waiting for a decision shows an approval that is still to
\* be decided, even if it was cancelled on the way there: the user can always
\* answer. It is also shown as waiting, unless it was cancelled. (A message that
\* supersedes the approvals before the Run is at rest leaves it without any.)
PausedRunShowsItsApproval ==
  pc = "paused" /\ run = "approval_required" /\ "superseded" \notin fate =>
    /\ \E a \in Approvals : approval[a] = "pending" /\ view.approval[a] = "pending"
    /\ "cancelled" \in fate \/ view.run = "approval_required"

\* The round timeline of the workspace and the task flow of the task page, which
\* are built in two ways, show the same tasks in the same order: all of the trace,
\* and each one once.
TimelineShowsEachTaskOnce ==
  LET line == Timeline(view)
  IN /\ line = TaskFlow(view)
     /\ \A t \in Tasks : view.task[t] # "none" => InSeq(line, t)
     /\ \A i, j \in DOMAIN line : line[i] = line[j] => i = j

\* The report of an agent, once shown in the conversation, is never taken back or
\* made a draft again: nothing the agent said earlier is told after it.
AgentReportsStay ==
  [][VisibleMessages(view) \cap Children \subseteq VisibleMessages(view')]_vars

\* The Host gives one final answer: the report of the root stays what it is.
OneFinalAnswer ==
  [][view.message[Root] = "report" => view'.message[Root] = "report"]_vars
=============================================================================
