--------------------------- MODULE RunTrace_proofs ---------------------------
(***************************************************************************)
(* Theorems about RunTrace, for any tasks, calls, approvals and rounds:    *)
(* what the browser shows of a Run agrees with the rows of the database,   *)
(* whatever part of the log each of its views reads.                       *)
(***************************************************************************)
EXTENDS RunViews_proofs

-----------------------------------------------------------------------------
(***************************************************************************)
(* The inductive invariant, in parts.                                      *)
(***************************************************************************)
TaskOf(a) == ToolTask[ApprovalTool[a]]
JobSteps == {"executing", "evaluating", "resuming"}

\* Where a driver can be, and what it has in its hands there.
ControlOK ==
  /\ asked \in Decisions \cup {<<>>}
  /\ pc \in {"deciding", "delegating", "gathering"} => round \in Rounds
  /\ pc \in JobSteps => /\ gate \in Approvals /\ approval[gate] \in {"approved", "rejected"}
                        /\ driver = "job"
  /\ pc \in Resting \cup JobSteps => script = <<>>
  /\ mode = "auto" => pc # "direct"
  /\ mode = "direct" =>
       /\ pc \notin {"host", "deciding", "delegating", "gathering", "evaluating", "resuming"}
       /\ driver = "job" => pc \in Resting \cup JobSteps
  /\ pc = "idle" => /\ run = "none" /\ driver = "producer" /\ view = EmptyView
                    /\ \A t \in Tasks : exec[t] = "none"
                    /\ \A a \in Approvals : approval[a] = "none"

\* What a driver may still have to write.
Fits(e, m, ex) ==
  /\ e.type \notin TerminalType \cup {"approval.decided"}
  /\ m = "direct" => e.type = "run.started" \/ e.task = Root
  /\ e.task \in Children =>
       /\ e.type \notin {"task.status_changed", "task.blocked"}
       /\ e.type = "message.delta" => ex[e.task] = "running"
       /\ e.type \in Endings \cup {"message.completed"} =>
            ex[e.task] \notin {"none", "running", "approval"}
       /\ e.type = "approval.required" => ex[e.task] = "approval"

ScriptOK == script \in Seq(Events) /\ \A e \in Told(script) : Fits(e, mode, exec)

\* An execution that asked for an approval, and only one, has approvals.
ExecOK ==
  /\ \A a \in Approvals : approval[a] # "none" => exec[TaskOf(a)] \notin {"none", "running"}
  /\ \A t \in Tasks : exec[t] = "approval" =>
       \E a \in Approvals : approval[a] # "none" /\ TaskOf(a) = t
  /\ mode = "auto" => exec[Root] = "none"
  /\ mode = "direct" =>
       /\ \A t \in Children : exec[t] = "none"
       /\ \A x \in Tools : view.tool[x] # "none" => ToolTask[x] = Root
  /\ pc = "delegating" => \A i \in DOMAIN asked : exec[asked[i]] = "none"
  /\ pc = "gathering" => \A i \in DOMAIN asked : exec[asked[i]] # "none"

\* The tasks that run are active, and so are those about to run or to go on.
ActiveOK ==
  /\ \A t \in Children : exec[t] \in {"running", "approval"} => t \in stage.active
  /\ pc = "delegating" => \A i \in DOMAIN asked :
       asked[i] \in stage.active \/ About(script, {"task.delegated"}, asked[i])
  /\ pc \in {"evaluating", "resuming"} => Gated \in stage.active

ReportsOK == \A t \in Children : view.message[t] = "report" => exec[t] \notin {"none", "running"}
AgreeOK == \A t \in Children : TaskOK(view, stage, feed, row, t)

ViewsOK == ViewOK(view) /\ FeedOK(feed)

TraceInv ==
  /\ TypeOK /\ ViewsOK
  /\ ControlOK /\ ScriptOK /\ ExecOK /\ ActiveOK /\ ReportsOK /\ AgreeOK

\* The driver waits, or is on its way to.
Waiting == pc \in {"pausing", "paused"} \/ (pc = "direct" /\ exec[Root] = "approval")
Asking == \E e \in Told(script) : e.type = "approval.required"

\* What is left in progress while no terminal event has come.
QuietOK ==
  /\ driver = "producer" /\ pc \notin Resting => view.run \notin TerminalStatus
  /\ AtRest /\ view.run \in TerminalStatus => Settled(view)
  /\ driver = "job" /\ pc = "pausing" =>
       Asking \/ (script = <<>> /\ (view.run \in TerminalStatus => Settled(view)))
  /\ Waiting => \A e \in Told(script) : e.type \notin RunSays

\* A driver that waits has an approval to show.
OwedOK ==
  /\ Waiting => "cancelled" \in fate \/ view.run = "approval_required" \/ Asking
  /\ "superseded" \notin fate =>
       /\ Waiting => \E a \in Approvals :
            approval[a] = "pending" /\ (view.approval[a] = "pending" \/ Required(script, a))
       /\ pc = "gathering" => \A i \in DOMAIN asked : \A a \in Approvals :
            TaskOf(a) = asked[i] => approval[a] \in {"none", "pending"}

\* The status of a Run at rest is what its last event says.
EndOK ==
  "superseded" \notin fate =>
    /\ driver = "producer" /\ pc \notin Resting => run \notin RunTerminal
    /\ ViewsSettleAlike

-----------------------------------------------------------------------------
(***************************************************************************)
(* What the drivers write.                                                 *)
(***************************************************************************)
Plain == Endings \cup Touches
           \cup {"task.delegated", "task.started", "task.retry_scheduled", "task.blocked",
                 "agent.thinking_delta", "message.reset", "message.delta", "message.completed"}

\* The events that say how the Run goes about its task.
Plans == {"run.started", "host.decision_created"}

LEMMA PlainEvents ==
  ASSUME NEW ty \in Plain, NEW t \in Tasks
  PROVE  /\ Ev(ty, t, NoData) \in Events
         /\ Ev(ty, t, NoData).type = ty /\ Ev(ty, t, NoData).task = t
<1>1. ty \in Types /\ NoData \in Data
  BY DEF Plain, Types, Data
<1>2. Proper(Ev(ty, t, NoData))
  BY DEF Proper, Ev, Plain, Endings, Touches, TerminalType, HostTypes
<1> QED BY <1>1, <1>2, EventsAre DEF Ev

LEMMA RootEvents ==
  ASSUME NEW ty \in Plain \cup TerminalType \cup {"host.planning", "host.synthesis_started"}
  PROVE  /\ RootEv(ty) \in Events
         /\ RootEv(ty).type = ty /\ RootEv(ty).task = Root
<1>0. Root \in Tasks
  BY EventConstantsOK
<1>1. ty \in Types /\ NoData \in Data
  BY DEF Plain, Types, Data, HostTypes
<1>2. Proper(Ev(ty, Root, NoData))
  BY <1>0 DEF Proper, Ev, Plain, Endings, Touches, TerminalType, HostTypes
<1> QED BY <1>0, <1>1, <1>2, EventsAre DEF Ev, RootEv

LEMMA StatusEvents ==
  ASSUME NEW t \in Tasks, NEW st \in {"working", "approval_required"}
  PROVE  LET e == Ev("task.status_changed", t, st)
         IN e \in Events /\ e.type = "task.status_changed" /\ e.task = t /\ e.data = st
<1>1. "task.status_changed" \in Types /\ st \in Data
  BY DEF Types, Data
<1>2. Proper(Ev("task.status_changed", t, st))
  BY DEF Proper, Ev, TerminalType, HostTypes
<1> QED BY <1>1, <1>2, EventsAre DEF Ev

LEMMA RoundEvents ==
  ASSUME NEW ty \in {"host.round_started", "host.round_completed"}, NEW n \in Rounds
  PROVE  Ev(ty, Root, n) \in Events /\ Ev(ty, Root, n).type = ty /\ Ev(ty, Root, n).task = Root
<1>0. Root \in Tasks
  BY EventConstantsOK
<1>1. ty \in Types /\ n \in Data
  BY DEF Types, HostTypes, Data
<1>2. Proper(Ev(ty, Root, n))
  BY <1>0 DEF Proper, Ev, TerminalType, HostTypes
<1> QED BY <1>0, <1>1, <1>2, EventsAre DEF Ev

LEMMA DecisionEvents ==
  ASSUME NEW S \in Decisions \cup {<<>>},
         NEW action \in {"delegate", "respond", "complete", "stop"}, round \in Rounds
  PROVE  LET e == Decision(action, S)
         IN e \in Events /\ e.type = "host.decision_created" /\ e.task = Root
<1>0. Root \in Tasks
  BY EventConstantsOK
<1> DEFINE d == [round |-> round, action |-> action, tasks |-> S]
<1>1. d \in HostChoices
  BY DEF HostChoices
<1> HIDE DEF d
<1>2. "host.decision_created" \in Types /\ d \in Data
  BY <1>1 DEF Types, HostTypes, Data
<1>3. Proper(Ev("host.decision_created", Root, d))
  BY <1>0, <1>1 DEF Proper, Ev, TerminalType, HostTypes
<1>4. Decision(action, S) = Ev("host.decision_created", Root, d)
  BY DEF Decision, d
<1> QED BY <1>0, <1>2, <1>3, <1>4, EventsAre DEF Ev

LEMMA CardEvents ==
  ASSUME NEW t \in Tasks, NEW a \in Approvals
  PROVE  Asks(t, a) \in Events /\ Asks(t, a).type = "approval.required"
         /\ Asks(t, a).task = t /\ Asks(t, a).data = a
<1>1. "approval.required" \in Types /\ a \in Data
  BY DEF Types, Data
<1>2. Proper(Ev("approval.required", t, a))
  BY DEF Proper, Ev, TerminalType, HostTypes
<1> QED BY <1>1, <1>2, EventsAre DEF Ev, Asks

LEMMA CallEvents ==
  ASSUME NEW x \in Tools, NEW error \in BOOLEAN
  PROVE  /\ LET e == Ev("tool.called", ToolTask[x], x)
            IN e \in Events /\ e.type = "tool.called" /\ e.task = ToolTask[x]
         /\ LET e == Ev("tool.completed", ToolTask[x], [tool |-> x, error |-> error])
            IN e \in Events /\ e.type = "tool.completed" /\ e.task = ToolTask[x]
<1>0. ToolTask[x] \in Tasks
  BY EventConstantsOK
<1> DEFINE d == [tool |-> x, error |-> error]
<1>1. d \in Outcomes /\ d.tool = x
  BY DEF Outcomes
<1> HIDE DEF d
<1>2. "tool.called" \in Types /\ "tool.completed" \in Types /\ d \in Data /\ x \in Data
  BY <1>1 DEF Types, Data
<1>3. Proper(Ev("tool.called", ToolTask[x], x)) /\ Proper(Ev("tool.completed", ToolTask[x], d))
  BY <1>0, <1>1 DEF Proper, Ev, TerminalType, HostTypes
<1> QED BY <1>0, <1>2, <1>3, EventsAre DEF Ev, d

\* The task of an approval.
LEMMA TasksOf ==
  ASSUME NEW a \in Approvals
  PROVE  TaskOf(a) \in Tasks /\ ApprovalTool[a] \in Tools
BY EventConstantsOK DEF TaskOf

\* What the job writes of its decision.
LEMMA DecidedEvents ==
  ASSUME ControlOK, pc \in JobSteps
  PROVE  /\ Decided \in Events /\ Decided.type = "approval.decided"
         /\ Decided.task = Gated /\ Decided.data.approval = gate /\ Gated \in Tasks
         /\ gate \in Approvals /\ Gated = TaskOf(gate)
<1>1. gate \in Approvals /\ approval[gate] \in {"approved", "rejected"}
  BY DEF ControlOK
<1>2. Gated \in Tasks /\ Gated = TaskOf(gate)
  BY <1>1, TasksOf DEF TaskOf, Gated
<1> DEFINE d == [approval |-> gate, decision |-> approval[gate]]
<1>3. d \in Verdicts /\ d.approval = gate
  BY <1>1 DEF Verdicts
<1> HIDE DEF d
<1>4. "approval.decided" \in Types /\ d \in Data
  BY <1>3 DEF Types, Data
<1>5. Proper(Ev("approval.decided", Gated, d))
  BY <1>2, <1>3 DEF Proper, Ev, TerminalType, HostTypes
<1>6. Decided = Ev("approval.decided", Gated, d)
  BY DEF Decided, d
<1> QED BY <1>1, <1>2, <1>3, <1>4, <1>5, <1>6, EventsAre DEF Ev

LEMMA ClosingEvents ==
  ASSUME ControlOK, pc \in JobSteps, NEW error \in BOOLEAN
  PROVE  /\ CloseCall(error) \in Seq(Events)
         /\ \A e \in Told(CloseCall(error)) : e.type = "tool.completed" /\ e.task = Gated
<1>1. gate \in Approvals /\ ApprovalTool[gate] \in Tools /\ Gated = ToolTask[ApprovalTool[gate]]
  BY TasksOf DEF ControlOK, Gated
<1> DEFINE e == Ev("tool.completed", Gated, [tool |-> ApprovalTool[gate], error |-> error])
<1>2. e \in Events /\ e.type = "tool.completed" /\ e.task = Gated
  BY <1>1, CallEvents
<1>3. CloseCall(error) = <<e>> \/ CloseCall(error) = <<>>
  BY DEF CloseCall
<1> HIDE DEF e
<1>4. <<e>> \in Seq(Events) /\ <<>> \in Seq(Events) /\ Told(<<e>>) = {e} /\ Told(<<>>) = {}
  BY <1>2, ToldOf
<1> QED BY <1>2, <1>3, <1>4

\* What the root says, and the start of the Run, fits at any time.
LEMMA RootFits ==
  ASSUME NEW e, e.task = Root \/ e.type = "run.started",
         e.type \notin TerminalType \cup {"approval.decided"}, NEW m, NEW ex
  PROVE  Fits(e, m, ex)
BY DEF Fits, Children, Endings

LEMMA StartSays ==
  ASSUME TypeOK, Start
  PROVE  /\ script' \in Seq(Events) /\ \A e \in Told(script') : Fits(e, mode, exec')
         /\ \A e \in Told(script') : /\ e.type # "host.decision_created"
                                     /\ e.type = "run.started" => e.data = mode
<1> DEFINE a == Ev("run.started", NoData, mode)
           b == RootEv(IF mode = "auto" THEN "host.planning" ELSE "task.delegated")
<1>1. a \in Events /\ a.type = "run.started" /\ a.data = mode
  <2>1. "run.started" \in Types /\ mode \in Data /\ Proper(Ev("run.started", NoData, mode))
    BY DEF TypeOK, Types, Data, Proper, Ev, TerminalType, HostTypes
  <2> QED BY <2>1, EventsAre DEF Ev
<1>2. b \in Events /\ b.type \in {"host.planning", "task.delegated"} /\ b.task = Root
  BY RootEvents DEF Plain
<1> DEFINE x == <<a>>
           y == <<b>>
<1>3. script' = x \o y
  BY DEF Start, Says
<1> HIDE DEF a, b
<1>4. x \in Seq(Events) /\ y \in Seq(Events) /\ Told(x) = {a} /\ Told(y) = {b}
  BY <1>1, <1>2, One
<1> HIDE DEF x, y
<1>5. script' \in Seq(Events) /\ Told(script') = {a, b}
  BY <1>3, <1>4, ToldTogether
<1>6. Fits(a, mode, exec') /\ Fits(b, mode, exec')
  BY <1>1, <1>2, RootFits DEF TerminalType
<1> QED BY <1>1, <1>2, <1>5, <1>6

LEMMA OpenRoundSays ==
  ASSUME TypeOK, OpenRound
  PROVE  /\ round + 1 \in Rounds
         /\ script' \in Seq(Events) /\ \A e \in Told(script') : Fits(e, mode, exec')
         /\ \A e \in Told(script') : e.type \notin Plans
<1> DEFINE a == Ev("host.round_started", Root, round + 1)
<1>1. round + 1 \in Rounds
  BY TraceConstantsOK DEF TypeOK, OpenRound
<1>2. a \in Events /\ a.type = "host.round_started" /\ a.task = Root
  BY <1>1, RoundEvents
<1>3. script' = <<a>>
  BY DEF OpenRound, Says
<1> HIDE DEF a
<1>4. <<a>> \in Seq(Events) /\ Told(<<a>>) = {a}
  BY <1>2, One
<1>5. Fits(a, mode, exec') /\ a.type \notin Plans
  BY <1>2, RootFits DEF TerminalType, Plans
<1> QED BY <1>1, <1>3, <1>4, <1>5

\* A decision is followed by the opening of each of its tasks.
LEMMA DelegateSays ==
  ASSUME TypeOK, ControlOK, NEW S \in Decisions, Delegate(S)
  PROVE  /\ script' \in Seq(Events) /\ \A e \in Told(script') : Fits(e, mode, exec')
         /\ S \in Seq(Children)
         /\ \A i \in DOMAIN S : About(script', {"task.delegated"}, S[i])
         /\ \A e \in Told(script') :
              /\ e.type # "run.started"
              /\ e.type = "host.decision_created" => e = Decision("delegate", S)
<1> DEFINE n == Len(S)
           a(t) == Ev("task.context_prepared", t, NoData)
           b(t) == Ev("task.delegated", t, NoData)
           c(t) == Ev("task.started", t, NoData)
           ss == [i \in DOMAIN S |-> <<a(S[i]), b(S[i]), c(S[i])>>]
           d == Decision("delegate", S)
<1>1. S \in Seq(Children) /\ n \in Nat /\ DOMAIN S = 1..n
  BY TraceConstantsOK DEF Children
<1>2. ASSUME NEW i \in 1..n
      PROVE  /\ S[i] \in Children /\ S[i] \in Tasks
             /\ a(S[i]) \in Events /\ b(S[i]) \in Events /\ c(S[i]) \in Events
             /\ a(S[i]).type = "task.context_prepared" /\ b(S[i]).type = "task.delegated"
             /\ c(S[i]).type = "task.started"
             /\ a(S[i]).task = S[i] /\ b(S[i]).task = S[i] /\ c(S[i]).task = S[i]
  <2>1. S[i] \in Children
    BY <1>1
  <2>2. S[i] \in Tasks
    BY <2>1 DEF Children
  <2> QED BY <2>1, <2>2, PlainEvents DEF Plain, Touches
<1>3. mode = "auto" /\ round \in Rounds
  BY DEF TypeOK, ControlOK, Delegate, Ready
<1>4. d \in Events /\ d.type = "host.decision_created" /\ d.task = Root
  BY <1>3, DecisionEvents
<1>5. script' = <<d>> \o FlattenSeq(ss)
  BY DEF Delegate, Says
<1> HIDE DEF a, b, c, d
<1>6. ASSUME NEW i \in 1..n
      PROVE  ss[i] \in Seq(Events) /\ Told(ss[i]) = {a(S[i]), b(S[i]), c(S[i])}
  <2>1. ss[i] = <<a(S[i]), b(S[i]), c(S[i])>>
    BY <1>1
  <2> QED BY <1>2, <2>1, Three
<1>7. ss \in [1..n -> Seq(Events)]
  BY <1>1, <1>6
<1> HIDE DEF ss, n
<1>8. /\ FlattenSeq(ss) \in Seq(Events)
      /\ Told(FlattenSeq(ss)) = UNION {Told(ss[i]) : i \in 1..n}
  BY <1>1, <1>7, ToldFlat
<1>9. <<d>> \in Seq(Events) /\ Told(<<d>>) = {d}
  BY <1>4, One
<1>10. script' \in Seq(Events) /\ Told(script') = {d} \cup Told(FlattenSeq(ss))
  <2> DEFINE dd == <<d>>
             fs == FlattenSeq(ss)
  <2>1. dd \in Seq(Events) /\ Told(dd) = {d} /\ fs \in Seq(Events) /\ script' = dd \o fs
    BY <1>5, <1>8, <1>9
  <2> HIDE DEF dd, fs
  <2>2. dd \o fs \in Seq(Events) /\ Told(dd \o fs) = Told(dd) \cup Told(fs)
    BY <2>1, ToldTogether
  <2> QED BY <2>1, <2>2 DEF fs
<1>11. ASSUME NEW e \in Told(script')
       PROVE  /\ Fits(e, mode, exec') /\ e.type # "run.started"
              /\ e.type = "host.decision_created" => e = d
  <2>1. CASE e = d
    BY <1>4, <2>1, RootFits DEF TerminalType
  <2>2. CASE e # d
    <3>0. PICK i \in 1..n : e \in Told(ss[i])
      BY <1>8, <1>10, <2>2
    <3>1. e \in {a(S[i]), b(S[i]), c(S[i])}
      BY <1>6, <3>0
    <3>2. e.type \in {"task.context_prepared", "task.delegated", "task.started"}
      BY <1>2, <3>1
    <3> QED BY <1>3, <3>2 DEF Fits, Endings, TerminalType
  <2> QED BY <2>1, <2>2
<1>12. ASSUME NEW i \in 1..n PROVE About(script', {"task.delegated"}, S[i])
  <2>1. b(S[i]) \in Told(ss[i])
    BY <1>6
  <2>2. Told(ss[i]) \subseteq Told(FlattenSeq(ss))
    BY <1>8
  <2>3. b(S[i]) \in Told(script')
    BY <1>10, <2>1, <2>2
  <2> QED BY <1>2, <2>3 DEF About
<1> QED BY <1>1, <1>10, <1>11, <1>12 DEF d

\* Events of the root that neither end the Run nor change its status, nor name a
\* task.
FromRoot(q) ==
  q \in Seq(Events)
  /\ \A e \in Told(q) : /\ e.task = Root
                        /\ e.type \notin TerminalType \cup RunSays \cup {"approval.decided"}
                        /\ e.type = "host.decision_created" => e.data.tasks = <<>>

LEMMA FromRootFits ==
  ASSUME NEW q, FromRoot(q), NEW m, NEW ex
  PROVE  \A e \in Told(q) : Fits(e, m, ex)
BY RootFits DEF FromRoot

LEMMA FromRootTogether ==
  ASSUME NEW a, FromRoot(a), NEW b, FromRoot(b)
  PROVE  FromRoot(a \o b)
<1>1. a \in Seq(Events) /\ b \in Seq(Events)
  BY DEF FromRoot
<1>2. a \o b \in Seq(Events) /\ Told(a \o b) = Told(a) \cup Told(b)
  BY <1>1, ToldTogether
<1> QED BY <1>2 DEF FromRoot

LEMMA FromRootOne ==
  ASSUME NEW e \in Events, e.task = Root,
         e.type \notin TerminalType \cup RunSays \cup {"approval.decided"},
         e.type = "host.decision_created" => e.data.tasks = <<>>
  PROVE  FromRoot(<<e>>)
<1>1. <<e>> \in Seq(Events) /\ Told(<<e>>) = {e}
  BY One
<1> QED BY <1>1 DEF FromRoot

LEMMA FromRootPlain ==
  /\ FromRoot(<<>>)
  /\ \A ty \in Plain \cup {"host.synthesis_started"} : FromRoot(<<RootEv(ty)>>)
<1>1. FromRoot(<<>>)
  <2>1. <<>> \in Seq(Events) /\ Told(<<>>) = {}
    BY Nothing
  <2> QED BY <2>1 DEF FromRoot
<1>2. ASSUME NEW ty \in Plain \cup {"host.synthesis_started"} PROVE FromRoot(<<RootEv(ty)>>)
  <2>1. RootEv(ty) \in Events /\ RootEv(ty).type = ty /\ RootEv(ty).task = Root
    BY RootEvents
  <2>2. ty \notin TerminalType \cup RunSays \cup {"approval.decided", "host.decision_created"}
    BY DEF Plain, Endings, Touches, TerminalType, RunSays
  <2> QED BY <2>1, <2>2, FromRootOne
<1> QED BY <1>1, <1>2

LEMMA HostAnswersSays ==
  ASSUME TypeOK, ControlOK, NEW action \in {"respond", "complete", "stop"}, NEW breaks \in BOOLEAN,
         HostAnswers(action, breaks)
  PROVE  FromRoot(script')
<1> DEFINE synth == action \in {"complete", "stop"} /\ Observed # {}
           a == <<Decision(action, <<>>)>>
           b == IF synth THEN <<RootEv("host.synthesis_started")>> ELSE <<>>
           c == <<RootEv("message.delta")>>
           x == <<RootEv("message.completed")>>
           y == <<RootEv(IF action = "stop" THEN "task.blocked" ELSE "task.completed")>>
           z == <<RootEv("task.failed")>>
           xy == <<RootEv("message.completed"),
                   RootEv(IF action = "stop" THEN "task.blocked" ELSE "task.completed")>>
<1>1. round \in Rounds
  BY TraceConstantsOK DEF TypeOK, ControlOK, HostAnswers, Ready
<1>2. FromRoot(a)
  <2>1. /\ Decision(action, <<>>) \in Events /\ Decision(action, <<>>).task = Root
        /\ Decision(action, <<>>).type = "host.decision_created"
    BY <1>1, DecisionEvents
  <2>2. Decision(action, <<>>).data.tasks = <<>>
    BY DEF Decision, Ev
  <2> QED BY <2>1, <2>2, FromRootOne DEF TerminalType, RunSays
<1>3. FromRoot(b) /\ FromRoot(c) /\ FromRoot(z)
  BY FromRootPlain DEF Plain, Endings
<1>4. FromRoot(xy)
  <2> DEFINE e == RootEv("message.completed")
             g == RootEv(IF action = "stop" THEN "task.blocked" ELSE "task.completed")
  <2>1. /\ e \in Events /\ e.task = Root /\ e.type = "message.completed"
        /\ g \in Events /\ g.task = Root /\ g.type \in {"task.blocked", "task.completed"}
    BY RootEvents DEF Plain, Endings
  <2> HIDE DEF e, g
  <2>2. <<e, g>> \in Seq(Events) /\ Told(<<e, g>>) = {e, g}
    BY <2>1, Two
  <2>3. FromRoot(<<e, g>>)
    BY <2>1, <2>2 DEF FromRoot, TerminalType, RunSays
  <2> QED BY <2>3 DEF e, g
<1>5. script' = a \o b \o c \o (IF breaks THEN z ELSE xy)
  BY DEF HostAnswers, Answer, Says
<1> HIDE DEF a, b, c, z, xy
<1>6. FromRoot(a \o b \o c)
  BY <1>2, <1>3, FromRootTogether
<1>7. FromRoot((a \o b \o c) \o z) /\ FromRoot((a \o b \o c) \o xy)
  BY <1>3, <1>4, <1>6, FromRootTogether
<1> QED BY <1>5, <1>7

LEMMA HostFailsSays ==
  ASSUME HostFails
  PROVE  FromRoot(script')
<1>1. script' = <<RootEv("task.failed")>>
  BY DEF HostFails, Says
<1> QED BY <1>1, FromRootPlain DEF Plain, Endings

LEMMA DirectAsksSays ==
  ASSUME NEW a \in Approvals, DirectAsks(a)
  PROVE  FromRoot(script') /\ Required(script', a)
<1>1. script' = <<Asks(Root, a)>> /\ Root \in Tasks
  BY EventConstantsOK DEF DirectAsks
<1>2. /\ Asks(Root, a) \in Events /\ Asks(Root, a).type = "approval.required"
      /\ Asks(Root, a).task = Root /\ Asks(Root, a).data = a
  BY <1>1, CardEvents
<1>3. FromRoot(script')
  BY <1>1, <1>2, FromRootOne DEF TerminalType, RunSays
<1>4. Told(script') = {Asks(Root, a)}
  BY <1>1, <1>2, One
<1> QED BY <1>2, <1>3, <1>4 DEF Required

LEMMA DirectEndsSays ==
  ASSUME NEW how \in {"answered", "asked", "failed"}, NEW says \in BOOLEAN, DirectEnds(how, says)
  PROVE  /\ FromRoot(script')
         /\ pc' = IF how = "asked" THEN "pausing" ELSE "ending"
         /\ pc = "direct" /\ script = <<>>
<1> DEFINE text == IF says THEN <<RootEv("message.completed")>> ELSE <<>>
           x == <<RootEv("task.completed")>>
           y == <<Ev("task.status_changed", Root, "approval_required")>>
           z == <<RootEv("task.failed")>>
<1>1. FromRoot(text) /\ FromRoot(x) /\ FromRoot(z)
  BY FromRootPlain DEF Plain, Endings
<1>2. FromRoot(y)
  <2> DEFINE e == Ev("task.status_changed", Root, "approval_required")
  <2>1. e \in Events /\ e.task = Root /\ e.type = "task.status_changed"
    BY StatusEvents, EventConstantsOK
  <2> HIDE DEF e
  <2>2. FromRoot(<<e>>)
    BY <2>1, FromRootOne DEF TerminalType, RunSays
  <2> QED BY <2>2 DEF e
<1>3. /\ how = "answered" => script' = text \o x /\ pc' = "ending"
      /\ how = "asked" => script' = text \o y /\ pc' = "pausing"
      /\ how = "failed" => script' = z /\ pc' = "ending"
      /\ pc = "direct" /\ script = <<>>
  BY DEF DirectEnds, Says, Ready
<1> HIDE DEF text, x, y, z
<1>4. FromRoot(text \o x) /\ FromRoot(text \o y)
  BY <1>1, <1>2, FromRootTogether
<1> QED BY <1>1, <1>3, <1>4

LEMMA ProgressSays ==
  ASSUME TypeOK, ExecOK, NEW e \in ProgressEvents, Progress(e)
  PROVE  /\ script' \in Seq(Events) /\ \A x \in Told(script') : Fits(x, mode, exec')
         /\ Told(script') = {e} /\ e.type \notin RunSays \cup Plans
         /\ e.task \in Tasks /\ exec[e.task] = "running" /\ (mode = "direct" => e.task = Root)
<1>1. /\ e \in Events
      /\ e.type \in {"message.delta", "message.reset", "agent.thinking_delta", "tool.called",
                     "tool.completed"}
  <2>1. CASE \E t \in Speakers : \/ e = Ev("message.delta", t, NoData)
                                 \/ e = Ev("message.reset", t, NoData)
                                 \/ e = Ev("agent.thinking_delta", t, NoData)
    <3>1. PICK t \in Speakers : \/ e = Ev("message.delta", t, NoData)
                                \/ e = Ev("message.reset", t, NoData)
                                \/ e = Ev("agent.thinking_delta", t, NoData)
      BY <2>1
    <3>2. t \in Tasks
      BY TraceConstantsOK
    <3>3. \A ty \in {"message.delta", "message.reset", "agent.thinking_delta"} :
            Ev(ty, t, NoData) \in Events /\ Ev(ty, t, NoData).type = ty
      BY <3>2, PlainEvents DEF Plain
    <3> QED BY <3>1, <3>3
  <2>2. CASE \E x \in Tools : e = Ev("tool.called", ToolTask[x], x)
    BY <2>2, CallEvents
  <2>3. CASE \E x \in Tools : e = Ev("tool.completed", ToolTask[x], [tool |-> x, error |-> FALSE])
    BY <2>3, CallEvents
  <2> QED BY <2>1, <2>2, <2>3, TraceConstantsOK DEF ProgressEvents
<1>2. exec[e.task] = "running" /\ script' = <<e>> /\ exec' = exec
  BY DEF Progress, plan
<1>3. e.task \in Tasks
  BY <1>1 DEF Events, Proper
<1>4. mode = "direct" => e.task = Root
  BY <1>2, <1>3 DEF ExecOK, Children
<1>5. script' \in Seq(Events) /\ Told(script') = {e}
  BY <1>1, <1>2, One
<1>6. Fits(e, mode, exec')
  BY <1>1, <1>2, <1>4 DEF Fits, TerminalType, Endings
<1>7. e.type \notin RunSays \cup Plans
  BY <1>1 DEF RunSays, Plans
<1> QED BY <1>2, <1>3, <1>4, <1>5, <1>6, <1>7

\* What the driver writes of the result of one task.
LEMMA ResultSays ==
  ASSUME NEW t \in Children, NEW again, exec[t] \notin {"none", "running"},
         exec[t] = "approval" => RaisedBy(t) \in Approvals
  PROVE  /\ Result(t, again) \in Seq(Events)
         /\ \A e \in Told(Result(t, again)) :
              /\ e.task = t
              /\ e.type \in {"task.retry_scheduled", "host.plan_revised", "task.evaluated",
                             "approval.required", "message.completed", "task.failed", "task.completed"}
              /\ e.type \in Endings \cup {"message.completed"} => exec[t] # "approval"
              /\ e.type = "approval.required" => exec[t] = "approval"
         /\ exec[t] = "approval" => Asks(t, RaisedBy(t)) \in Told(Result(t, again))
<1> DEFINE text == view.message[t] = "draft" \/ t \in view.progress
           r == Ev("task.retry_scheduled", t, NoData)
           p == Ev("host.plan_revised", t, NoData)
           g == Ev("task.evaluated", t, NoData)
           m == Ev("message.completed", t, NoData)
           f == Ev("task.failed", t, NoData)
           c == Ev("task.completed", t, NoData)
           k == Asks(t, RaisedBy(t))
           a == IF t \in again THEN <<r, p>> ELSE <<>>
           b == <<g>>
           ask == <<k>>
           fail == (IF text THEN <<m>> ELSE <<>>) \o <<f>>
           done == <<m, c>>
           d == IF exec[t] = "approval" THEN ask ELSE IF exec[t] = "failed" THEN fail ELSE done
<1>1. t \in Tasks
  BY DEF Children
<1>2. /\ r \in Events /\ p \in Events /\ g \in Events /\ m \in Events /\ f \in Events /\ c \in Events
      /\ r.task = t /\ p.task = t /\ g.task = t /\ m.task = t /\ f.task = t /\ c.task = t
      /\ r.type = "task.retry_scheduled" /\ p.type = "host.plan_revised" /\ g.type = "task.evaluated"
      /\ m.type = "message.completed" /\ f.type = "task.failed" /\ c.type = "task.completed"
  BY <1>1, PlainEvents DEF Plain, Touches, Endings
<1>3. exec[t] = "approval" => k \in Events /\ k.task = t /\ k.type = "approval.required"
  BY <1>1, CardEvents
<1>4. Result(t, again) = a \o (b \o d)
  BY DEF Result
<1> HIDE DEF r, p, g, m, f, c, k, text
<1>5. a \in Seq(Events) /\ Told(a) \subseteq {r, p}
  <2>1. <<r, p>> \in Seq(Events) /\ Told(<<r, p>>) = {r, p}
    BY <1>2, Two
  <2>2. <<>> \in Seq(Events) /\ Told(<<>>) = {}
    BY Nothing
  <2> QED BY <2>1, <2>2
<1>6. b \in Seq(Events) /\ Told(b) = {g}
  BY <1>2, One
<1>7. exec[t] = "approval" => ask \in Seq(Events) /\ Told(ask) = {k}
  BY <1>3, One
<1>8. fail \in Seq(Events) /\ Told(fail) \subseteq {m, f}
  <2> DEFINE x == IF text THEN <<m>> ELSE <<>>
             y == <<f>>
  <2>1. <<m>> \in Seq(Events) /\ Told(<<m>>) = {m} /\ y \in Seq(Events) /\ Told(y) = {f}
    BY <1>2, One
  <2>2. <<>> \in Seq(Events) /\ Told(<<>>) = {}
    BY Nothing
  <2>3. x \in Seq(Events) /\ Told(x) \subseteq {m}
    BY <2>1, <2>2
  <2>4. fail = x \o y
    OBVIOUS
  <2> HIDE DEF x, y, fail
  <2>5. x \o y \in Seq(Events) /\ Told(x \o y) = Told(x) \cup Told(y)
    BY <2>1, <2>3, ToldTogether
  <2> QED BY <2>1, <2>3, <2>4, <2>5
<1>9. done \in Seq(Events) /\ Told(done) = {m, c}
  BY <1>2, Two
<1>10. /\ d \in Seq(Events)
       /\ exec[t] = "approval" => Told(d) = {k}
       /\ exec[t] # "approval" => Told(d) \subseteq {m, f, c}
  <2> HIDE DEF ask, fail, done
  <2>1. CASE exec[t] = "approval"
    BY <1>7, <2>1
  <2>2. CASE exec[t] = "failed"
    BY <1>8, <2>2
  <2>3. CASE exec[t] \notin {"approval", "failed"}
    BY <1>9, <2>3
  <2> QED BY <2>1, <2>2, <2>3
<1> HIDE DEF a, b, d
<1>11. b \o d \in Seq(Events) /\ Told(b \o d) = Told(b) \cup Told(d)
  BY <1>6, <1>10, ToldTogether
<1> DEFINE bd == b \o d
<1> HIDE DEF bd
<1>12. a \o bd \in Seq(Events) /\ Told(a \o bd) = Told(a) \cup Told(bd)
  <2>1. bd \in Seq(Events)
    BY <1>11 DEF bd
  <2> QED BY <1>5, <2>1, ToldTogether
<1> DEFINE q == Result(t, again)
<1> HIDE DEF q
<1>13. /\ q \in Seq(Events) /\ Told(q) \subseteq {r, p, g} \cup Told(d) /\ Told(d) \subseteq Told(q)
  BY <1>4, <1>5, <1>6, <1>11, <1>12 DEF q, bd
<1>14. exec[t] = "approval" => k \in Told(q)
  BY <1>10, <1>13
<1>15. ASSUME NEW e \in Told(q)
       PROVE  /\ e.task = t
              /\ e.type \in {"task.retry_scheduled", "host.plan_revised", "task.evaluated",
                             "approval.required", "message.completed", "task.failed", "task.completed"}
              /\ e.type \in Endings \cup {"message.completed"} => exec[t] # "approval"
              /\ e.type = "approval.required" => exec[t] = "approval"
  <2>1. CASE e \in {r, p, g}
    BY <1>2, <2>1 DEF Endings
  <2>2. CASE e \in Told(d) /\ exec[t] = "approval"
    BY <1>3, <1>10, <2>2 DEF Endings
  <2>3. CASE e \in Told(d) /\ exec[t] # "approval"
    BY <1>2, <1>10, <2>3
  <2> QED BY <1>13, <2>1, <2>2, <2>3
<1> QED BY <1>13, <1>14, <1>15 DEF q, k

LEMMA RaisedByIs ==
  ASSUME ExecOK, NEW t \in Tasks, exec[t] = "approval"
  PROVE  /\ RaisedBy(t) \in Approvals /\ approval[RaisedBy(t)] # "none"
         /\ TaskOf(RaisedBy(t)) = t
<1>1. \E a \in Approvals : approval[a] # "none" /\ ToolTask[ApprovalTool[a]] = t
  BY DEF ExecOK, TaskOf
<1> QED BY <1>1 DEF RaisedBy, TaskOf

LEMMA AskedAre ==
  ASSUME ControlOK
  PROVE  asked \in Seq(Children) /\ \A i \in DOMAIN asked : asked[i] \in Children /\ asked[i] \in Tasks
<1>1. asked \in Seq(Children)
  <2>1. asked \in Decisions \/ asked = <<>>
    BY DEF ControlOK
  <2>2. Decisions \subseteq Seq(Children)
    BY TraceConstantsOK DEF Children
  <2>3. <<>> \in Seq(Children)
    BY Nothing
  <2> QED BY <2>1, <2>2, <2>3
<1> QED BY <1>1 DEF Children

\* What the driver writes when gather() returned.
LEMMA GatheredSays ==
  ASSUME TypeOK, ControlOK, ExecOK, NEW again, Gathered(again)
  PROVE  /\ script' \in Seq(Events) /\ \A e \in Told(script') : Fits(e, mode, exec')
         /\ \A e \in Told(script') : e.type \notin RunSays \cup Plans
         /\ \/ pc' = "host"
            \/ pc' = "pausing" /\ \E i \in DOMAIN asked :
                 exec[asked[i]] = "approval" /\ Required(script', RaisedBy(asked[i]))
<1> DEFINE n == Len(asked)
           ss == [i \in DOMAIN asked |-> Result(asked[i], again)]
           a == FlattenSeq(ss)
           e1 == Ev("host.round_completed", Root, round)
           e2 == Ev("task.status_changed", Root, "approval_required")
           b == <<e1>>
           paused == \E i \in DOMAIN asked : exec[asked[i]] = "approval"
           c == IF paused THEN <<e2>> ELSE <<>>
<1>1. /\ n \in Nat /\ DOMAIN asked = 1..n
      /\ \A i \in 1..n : asked[i] \in Children /\ asked[i] \in Tasks
  BY AskedAre
<1>2. /\ mode = "auto" /\ round \in Rounds /\ exec' = exec
      /\ \A i \in 1..n : exec[asked[i]] \notin {"none", "running"}
  BY <1>1 DEF TypeOK, ControlOK, ExecOK, Gathered, Ready, plan
<1>3. script' = a \o b \o c /\ pc' = IF paused THEN "pausing" ELSE "host"
  BY DEF Gathered, Says
<1>4. ASSUME NEW i \in 1..n
      PROVE  /\ Result(asked[i], again) \in Seq(Events)
             /\ \A e \in Told(Result(asked[i], again)) :
                  Fits(e, mode, exec') /\ e.type \notin RunSays \cup Plans
             /\ exec[asked[i]] = "approval" =>
                  /\ RaisedBy(asked[i]) \in Approvals
                  /\ Asks(asked[i], RaisedBy(asked[i])) \in Told(Result(asked[i], again))
  <2> DEFINE t == asked[i]
             q == Result(t, again)
  <2>1. t \in Children /\ t \in Tasks /\ exec[t] \notin {"none", "running"}
    BY <1>1, <1>2
  <2>2. exec[t] = "approval" => RaisedBy(t) \in Approvals
    BY <2>1, RaisedByIs
  <2> HIDE DEF t
  <2>3. /\ q \in Seq(Events)
        /\ exec[t] = "approval" => Asks(t, RaisedBy(t)) \in Told(q)
        /\ \A e \in Told(q) :
              /\ e.task = t
              /\ e.type \in {"task.retry_scheduled", "host.plan_revised", "task.evaluated",
                             "approval.required", "message.completed", "task.failed", "task.completed"}
              /\ e.type \in Endings \cup {"message.completed"} => exec[t] # "approval"
              /\ e.type = "approval.required" => exec[t] = "approval"
    BY <2>1, <2>2, ResultSays
  <2> HIDE DEF q
  <2>4. \A e \in Told(q) : Fits(e, mode, exec') /\ e.type \notin RunSays \cup Plans
    BY <1>2, <2>1, <2>3 DEF Fits, TerminalType, RunSays, Plans
  <2> QED BY <2>2, <2>3, <2>4 DEF t, q
<1> HIDE DEF n
<1>5. ss \in [1..n -> Seq(Events)] /\ \A i \in 1..n : ss[i] = Result(asked[i], again)
  BY <1>1, <1>4
<1> HIDE DEF ss
<1>6. a \in Seq(Events) /\ Told(a) = UNION {Told(ss[i]) : i \in 1..n}
  BY <1>1, <1>5, ToldFlat
<1>7. e1 \in Events /\ e1.task = Root /\ e1.type = "host.round_completed"
  BY <1>2, RoundEvents
<1>8. e2 \in Events /\ e2.task = Root /\ e2.type = "task.status_changed"
  BY EventConstantsOK, StatusEvents
<1> HIDE DEF a, e1, e2
<1>9. /\ FromRoot(b) /\ FromRoot(c)
      /\ \A e \in Told(b) \cup Told(c) : e.type \notin Plans
  <2>1. FromRoot(<<e1>>) /\ FromRoot(<<e2>>) /\ FromRoot(<<>>)
    BY <1>7, <1>8, FromRootOne, FromRootPlain DEF TerminalType, RunSays
  <2>2. Told(<<e1>>) = {e1} /\ Told(<<e2>>) = {e2} /\ Told(<<>>) = {}
    BY ToldOf
  <2>3. e1.type \notin Plans /\ e2.type \notin Plans
    BY <1>7, <1>8 DEF Plans
  <2> HIDE DEF paused
  <2> QED BY <2>1, <2>2, <2>3
<1>10. b \in Seq(Events) /\ c \in Seq(Events)
  BY <1>9 DEF FromRoot
<1> HIDE DEF b, c
<1> DEFINE ab == a \o b
<1>11. ab \in Seq(Events) /\ Told(ab) = Told(a) \cup Told(b)
  BY <1>6, <1>10, ToldTogether
<1>12. script' = ab \o c
  BY <1>3
<1> HIDE DEF ab
<1>13. script' \in Seq(Events) /\ Told(script') = Told(a) \cup Told(b) \cup Told(c)
  BY <1>10, <1>11, <1>12, ToldTogether
<1>14. ASSUME NEW e \in Told(script')
       PROVE  Fits(e, mode, exec') /\ e.type \notin RunSays \cup Plans
  <2>1. CASE e \in Told(a)
    <3>1. PICK i \in 1..n : e \in Told(Result(asked[i], again))
      BY <1>5, <1>6, <2>1
    <3> QED BY <1>4, <3>1
  <2>2. CASE e \in Told(b) \cup Told(c)
    <3>1. Fits(e, mode, exec')
      BY <1>9, <2>2, FromRootFits
    <3> QED BY <1>9, <2>2, <3>1 DEF FromRoot
  <2> QED BY <1>13, <2>1, <2>2
<1>15. ASSUME NEW i \in 1..n, exec[asked[i]] = "approval"
       PROVE  Required(script', RaisedBy(asked[i]))
  <2>1. Asks(asked[i], RaisedBy(asked[i])) \in Told(script')
    BY <1>4, <1>5, <1>6, <1>13, <1>15
  <2>2. /\ Asks(asked[i], RaisedBy(asked[i])).type = "approval.required"
        /\ Asks(asked[i], RaisedBy(asked[i])).data = RaisedBy(asked[i])
    BY DEF Asks, Ev
  <2> QED BY <2>1, <2>2 DEF Required
<1> QED BY <1>1, <1>3, <1>13, <1>14, <1>15

-----------------------------------------------------------------------------
(***************************************************************************)
(* What is logged in a step, and what it is about.                         *)
(***************************************************************************)
LEMMA LoggedIs ==
  ASSUME NEW q, Logged(q)
  PROVE  /\ view' = ViewAfter(view, q) /\ stage' = StageAfter(stage, q)
         /\ feed' = FeedAfter(feed, q)
BY DEF Logged, ViewAfter, StageAfter, FeedAfter

LEMMA AfterNothing ==
  ASSUME NEW v, NEW s, NEW f, NEW r
  PROVE  /\ ViewAfter(v, <<>>) = v /\ StageAfter(s, <<>>) = s
         /\ FeedAfter(f, <<>>) = f /\ Applied(r, <<>>) = r
<1>1. Viewing!After(v, <<>>) = v
  BY Viewing!AfterNone
<1>2. Staging!After(s, <<>>) = s
  BY Staging!AfterNone
<1>3. Feeding!After(f, <<>>) = f
  BY Feeding!AfterNone
<1>4. Setting!After(r, <<>>) = r
  BY Setting!AfterNone
<1> QED BY <1>1, <1>2, <1>3, <1>4, AftersAre

LEMMA ToldMore ==
  ASSUME NEW E, NEW s \in Seq(E), NEW e \in E
  PROVE  /\ Append(s, e) \in Seq(E) /\ Told(Append(s, e)) = Told(s) \cup {e}
         /\ Len(Append(s, e)) > 0 /\ Append(s, e)[Len(Append(s, e))] = e
<1> DEFINE w == Append(s, e)
<1>1. /\ w \in Seq(E) /\ Len(s) \in Nat /\ Len(w) = Len(s) + 1
      /\ DOMAIN s = 1..Len(s) /\ DOMAIN w = 1..(Len(s) + 1)
      /\ \A i \in 1..Len(s) : w[i] = s[i]
      /\ w[Len(s) + 1] = e
  OBVIOUS
<1> HIDE DEF w
<1>2. ASSUME NEW i \in DOMAIN w PROVE w[i] \in Told(s) \cup {e}
  <2>1. CASE i = Len(s) + 1
    BY <1>1, <2>1
  <2>2. CASE i # Len(s) + 1
    <3>1. i \in DOMAIN s /\ w[i] = s[i]
      BY <1>1, <2>2
    <3> QED BY <3>1 DEF Told
  <2> QED BY <2>1, <2>2
<1>3. e \in Told(w)
  BY <1>1 DEF Told
<1>4. ASSUME NEW i \in DOMAIN s PROVE s[i] \in Told(w)
  <2>1. i \in DOMAIN w /\ w[i] = s[i]
    BY <1>1
  <2> QED BY <2>1 DEF Told
<1>5. Told(w) = Told(s) \cup {e}
  BY <1>2, <1>3, <1>4 DEF Told
<1> QED BY <1>1, <1>5 DEF w

LEMMA TypeOfIs ==
  ASSUME NEW st \in TerminalStatus
  PROVE  TypeOf(st) \in TerminalType /\ StatusOf(TypeOf(st)) = st
<1>1. \E ty \in TerminalType : StatusOf(ty) = st
  <2>1. /\ StatusOf("run.completed") = "completed" /\ StatusOf("run.partial") = "partial"
        /\ StatusOf("run.evidence_insufficient") = "evidence_insufficient"
        /\ StatusOf("run.failed") = "failed" /\ StatusOf("run.cancelled") = "cancelled"
    BY DEF StatusOf
  <2> QED BY <2>1 DEF TerminalStatus, TerminalType
<1> QED BY <1>1 DEF TypeOf

\* One terminal event of the root.
LEMMA EndEvent ==
  ASSUME NEW ty \in TerminalType
  PROVE  /\ <<RootEv(ty)>> \in Seq(Events) /\ Told(<<RootEv(ty)>>) = {RootEv(ty)}
         /\ RootEv(ty).type = ty /\ RootEv(ty).task = Root
<1>1. RootEv(ty) \in Events /\ RootEv(ty).type = ty /\ RootEv(ty).task = Root
  BY RootEvents
<1> QED BY <1>1, One

\* A driver that emits takes its events from the front of its script.
LEMMA EmitIs ==
  ASSUME script \in Seq(Events), Emit
  PROVE  \E q \in Seq(Events) :
           /\ Logged(q) /\ row' = Applied(row, q)
           /\ Told(script) = Told(q) \cup Told(script')
           /\ script' \in Seq(Events)
           /\ driver = "job" => q = script /\ script' = <<>>
<1>1. CASE driver = "job"
  <2>1. Logged(script) /\ row' = Applied(row, script) /\ script' = <<>>
    BY <1>1 DEF Emit
  <2>2. Told(script') = {} /\ script' \in Seq(Events)
    BY <2>1, Nothing
  <2> QED BY <2>1, <2>2
<1>2. CASE driver # "job"
  <2> DEFINE h == Head(script)
             q == <<h>>
  <2>1. Logged(q) /\ row' = Applied(row, q) /\ script' = Tail(script) /\ script # <<>>
    BY <1>2 DEF Emit
  <2>2. h \in Events /\ script' \in Seq(Events)
    BY <2>1
  <2>3. Told(script) = {h} \cup Told(Tail(script))
    <3>1. /\ Len(script) \in Nat /\ Len(script) > 0 /\ DOMAIN script = 1..Len(script)
          /\ DOMAIN Tail(script) = 1..(Len(script) - 1) /\ h = script[1]
          /\ \A i \in 1..(Len(script) - 1) : Tail(script)[i] = script[i + 1]
      BY <2>1
    <3> DEFINE tl == Tail(script)
    <3> HIDE DEF tl, h
    <3>2. ASSUME NEW i \in DOMAIN script PROVE script[i] \in {h} \cup Told(tl)
      <4>1. CASE i = 1
        BY <3>1, <4>1
      <4>2. CASE i # 1
        <5>1. i - 1 \in 1..(Len(script) - 1) /\ (i - 1) + 1 = i
          BY <3>1, <4>2
        <5>2. tl[i - 1] = script[i] /\ i - 1 \in DOMAIN tl
          BY <3>1, <5>1 DEF tl
        <5> QED BY <5>2 DEF Told
      <4> QED BY <4>1, <4>2
    <3>3. h \in Told(script)
      BY <3>1 DEF Told
    <3>4. ASSUME NEW i \in DOMAIN tl PROVE tl[i] \in Told(script)
      <4>1. i \in 1..(Len(script) - 1) /\ i + 1 \in DOMAIN script
        BY <3>1 DEF tl
      <4>2. tl[i] = script[i + 1]
        BY <3>1, <4>1 DEF tl
      <4> QED BY <4>1, <4>2 DEF Told
    <3>5. Told(script) = {h} \cup Told(tl)
      BY <3>2, <3>3, <3>4 DEF Told
    <3> QED BY <3>5 DEF tl
  <2>4. q \in Seq(Events) /\ Told(q) = {h}
    BY <2>2, One
  <2> HIDE DEF h, q
  <2> QED BY <1>2, <2>1, <2>2, <2>3, <2>4
<1> QED BY <1>1, <1>2

LEMMA FinalStatusIs == FinalStatus \in TerminalStatus
BY DEF FinalStatus, TerminalStatus

\* The task of the decision that is carried out.
LEMMA GatedIs ==
  ASSUME TypeOK, ControlOK, ExecOK, pc \in JobSteps
  PROVE  /\ Gated \in Tasks /\ exec[Gated] \notin {"none", "running"}
         /\ mode = "auto" => Gated \in Children
         /\ mode = "direct" => Gated = Root
<1>1. gate \in Approvals /\ approval[gate] # "none" /\ Gated = TaskOf(gate) /\ Gated \in Tasks
  BY DecidedEvents DEF ControlOK
<1>2. exec[Gated] \notin {"none", "running"}
  BY <1>1 DEF ExecOK
<1> QED BY <1>1, <1>2 DEF ExecOK, Children

\* Nothing in a stretch is about a task.
Silent(q, t) == \A e \in Told(q) : e.task # t

LEMMA AfterApart ==
  ASSUME NEW q \in Seq(Events), NEW r \in Rows, NEW t \in Tasks, Silent(q, t)
  PROVE  LET d == Applied(r, q)
         IN d[t] = r[t] \/ (r[t] = "none" /\ d[t] = "pending")
<1>1. PICK p : Path(p, EmptyView, EmptyStage, EmptyFeed, r, q)
               /\ Ends(p, EmptyView, EmptyStage, EmptyFeed, r, q)
  BY PathExists
<1>0. FeedOK(EmptyFeed) /\ ViewOK(EmptyView)
  BY EmptyViewOK DEF FeedOK, EmptyFeed, FeedNames
<1> DEFINE n == Len(q)
           Same(d) == d[t] = r[t] \/ (r[t] = "none" /\ d[t] = "pending")
           G == {k \in 0..n : Same(p[k].row)}
<1>2. n \in Nat /\ 0 \in 0..n /\ DOMAIN q = 1..n
  OBVIOUS
<1>3. 0 \in G
  <2>1. p[0] = [view |-> EmptyView, stage |-> EmptyStage, feed |-> EmptyFeed, row |-> r]
    BY <1>1 DEF Path
  <2> QED BY <1>2, <2>1
<1>4. ASSUME NEW k \in 0..n, k \in G, k < n
      PROVE  k + 1 \in G
  <2> DEFINE e == q[k + 1]
             d == p[k].row
  <2>1. k \in Nat /\ k < Len(q) /\ k \in 0..Len(q) /\ k + 1 \in DOMAIN q /\ k + 1 \in 0..n
    BY <1>2, <1>4
  <2>2. p[k + 1].row = ApplyEvent(d, e) /\ e \in Events
    BY <1>1, <2>1, PathStep
  <2>3. d \in Rows
    BY <1>0, <1>1, <2>1, PathTypes
  <2>4. Same(d) /\ e \in Told(q)
    BY <1>4, <2>1 DEF Told
  <2> HIDE DEF d, e, n
  <2>5. e.task # t
    BY <2>4 DEF Silent
  <2>6. ApplyEvent(d, e)[t] = d[t] \/ (d[t] = "none" /\ ApplyEvent(d, e)[t] = "pending")
    BY <2>2, <2>3, <2>5, RowIs
  <2>7. Same(ApplyEvent(d, e))
    BY <2>4, <2>6
  <2> QED BY <2>1, <2>2, <2>7
<1>5. n \in G
  <2>1. G \in SUBSET (0..n)
    OBVIOUS
  <2> HIDE DEF G, n
  <2>2. G = 0..n
    BY <1>2, <1>3, <1>4, <2>1, PathKeeps
  <2> QED BY <1>2, <2>2
<1> QED BY <1>1, <1>5 DEF Ends

\* A stretch that leaves a task alone does so whether its row stays as it is or is
\* closed from outside.
LEMMA AfterAside ==
  ASSUME NEW q \in Seq(Events), NEW v, ViewOK(v), NEW s, NEW f, FeedOK(f), NEW r \in Rows,
         NEW t \in Children, TaskOK(v, s, f, r, t), Silent(q, t),
         NEW c, c[t] \in {r[t], "cancelled", "interrupted"}
  PROVE  TaskOK(ViewAfter(v, q), StageAfter(s, q), FeedAfter(f, q), c, t)
<1> DEFINE a == ViewAfter(v, q)  b == StageAfter(s, q)  g == FeedAfter(f, q)  d == Applied(r, q)
<1>1. ~About(q, Waits, t) /\ t \in Tasks
  BY DEF Silent, About, Children
<1>2. TaskOK(a, b, g, d, t)
  BY <1>1, AfterAgrees
<1>3. d[t] = r[t] \/ (r[t] = "none" /\ d[t] = "pending")
  BY <1>1, AfterApart
<1>4. r[t] = "approval_required" => d[t] = "approval_required"
  BY <1>3
<1> HIDE DEF a, b, g, d
<1>5. TaskAgrees(a, b, g, c, t)
  BY <1>2, <1>3 DEF TaskOK, TaskAgrees, Closed
<1>6. c[t] = "approval_required" => t \in b.active
  BY <1>2, <1>4 DEF TaskOK
<1> QED BY <1>5, <1>6 DEF TaskOK, a, b, g

-----------------------------------------------------------------------------
(***************************************************************************)
(* What a step tells: the events it persists, and what they may say.       *)
(***************************************************************************)
Tells(q) ==
  /\ q \in Seq(Events)
  /\ view' = ViewAfter(view, q) /\ stage' = StageAfter(stage, q) /\ feed' = FeedAfter(feed, q)
  /\ mode = "direct" => \A e \in Told(q) : e.type = "run.started" \/ e.task = Root
  /\ \A t \in Children :
       /\ About(q, {"message.completed"}, t) => exec'[t] \notin {"none", "running"}
       /\ About(q, {"message.delta"}, t) => exec[t] = "running"
       /\ About(q, Waits, t) => t \in stage.active /\ ~About(q, Shuts, t)
       /\ About(q, Shuts, t) => exec'[t] \notin {"none", "running", "approval"}
  /\ \A e \in Told(q) : e.type \in Plans => e \in Told(script)
  /\ \/ row' = Applied(row, q)
     \/ /\ \A t \in Children : Silent(q, t) /\ row'[t] \in {row[t], "cancelled", "interrupted"}
        /\ \A e \in Told(q) : e.type \notin Plans

\* Events of the root say nothing of its children.
LEMMA RootTells ==
  ASSUME NEW q \in Seq(Events), Logged(q),
         \A e \in Told(q) : e.task = Root /\ e.type \notin Plans,
         \/ row' = Applied(row, q)
         \/ \A t \in Children : row'[t] \in {row[t], "cancelled", "interrupted"}
  PROVE  Tells(q)
<1>1. \A t \in Children : Silent(q, t)
  BY DEF Silent, Children
<1>2. \A t \in Children : \A S : ~About(q, S, t)
  BY <1>1 DEF Silent, About
<1> QED BY <1>1, <1>2, LoggedIs DEF Tells

\* So does a step that persists nothing.
LEMMA StillTells ==
  ASSUME UNCHANGED views, \A t \in Children : row'[t] = row[t]
  PROVE  Tells(<<>>)
<1>1. <<>> \in Seq(Events) /\ Told(<<>>) = {}
  BY Nothing
<1>2. view' = ViewAfter(view, <<>>) /\ stage' = StageAfter(stage, <<>>) /\ feed' = FeedAfter(feed, <<>>)
  BY AfterNothing DEF views
<1>3. \A t \in Children : Silent(<<>>, t) /\ \A S : ~About(<<>>, S, t)
  BY <1>1 DEF Silent, About
<1> QED BY <1>1, <1>2, <1>3 DEF Tells

LEMMA StillSteps ==
  ASSUME TypeOK,
         \/ UNCHANGED vars
         \/ Start \/ OpenRound \/ Gather \/ HostFails \/ Pause \/ Return \/ Supersede
         \/ \E S \in Decisions : Delegate(S)
         \/ \E action \in {"respond", "complete", "stop"}, breaks \in BOOLEAN :
              HostAnswers(action, breaks)
         \/ \E e \in ProgressEvents : Progress(e)
         \/ \E t \in Tasks, v \in {"sufficient", "insufficient", "failed"} : RemoteReturns(t, v)
         \/ \E t \in Tasks, a \in Approvals : RemoteAsks(t, a)
         \/ \E again \in SUBSET Retried : Gathered(again)
         \/ \E a \in Approvals : DirectAsks(a)
         \/ \E how \in {"answered", "asked", "failed"}, says \in BOOLEAN : DirectEnds(how, says)
         \/ \E res \in {"completed", "failed", "other"} : JobGoesOn(res)
  PROVE  Tells(<<>>)
<1> DEFINE Only == UNCHANGED views /\ \A t \in Children : row'[t] = row[t]
<1> SUFFICES Only
  BY StillTells
<1>1. UNCHANGED <<row, views>> => Only
  OBVIOUS
<1>2. UNCHANGED views /\ (\E st : row' = [row EXCEPT ![Root] = st]) => Only
  BY DEF Children, TypeOK
<1>3. CASE UNCHANGED vars
  BY <1>1, <1>3 DEF vars, views
<1>4. CASE Start \/ Pause
  <2>1. UNCHANGED views /\ \E st : row' = [row EXCEPT ![Root] = st]
    BY <1>4 DEF Start, Pause
  <2> QED BY <1>2, <2>1
<1>5. CASE OpenRound \/ Gather \/ HostFails \/ Return \/ Supersede
  BY <1>1, <1>5 DEF OpenRound, Gather, HostFails, Return, Supersede, rows
<1>6. CASE \E S \in Decisions : Delegate(S)
  BY <1>1, <1>6 DEF Delegate, rows
<1>7. CASE \E action \in {"respond", "complete", "stop"}, breaks \in BOOLEAN :
             HostAnswers(action, breaks)
  BY <1>1, <1>7 DEF HostAnswers, Answer, rows
<1>8. CASE \E e \in ProgressEvents : Progress(e)
  BY <1>1, <1>8 DEF Progress, rows
<1>9. CASE \E t \in Tasks, v \in {"sufficient", "insufficient", "failed"} : RemoteReturns(t, v)
  BY <1>1, <1>9 DEF RemoteReturns, rows
<1>10. CASE \E t \in Tasks, a \in Approvals : RemoteAsks(t, a)
  BY <1>1, <1>10 DEF RemoteAsks, rows
<1>11. CASE \E again \in SUBSET Retried : Gathered(again)
  BY <1>1, <1>11 DEF Gathered, rows
<1>12. CASE \E a \in Approvals : DirectAsks(a)
  BY <1>1, <1>12 DEF DirectAsks, rows
<1>13. CASE \E how \in {"answered", "asked", "failed"}, says \in BOOLEAN : DirectEnds(how, says)
  BY <1>1, <1>13 DEF DirectEnds, rows
<1>14. CASE \E res \in {"completed", "failed", "other"} : JobGoesOn(res)
  BY <1>1, <1>14 DEF JobGoesOn, rows
<1> HIDE DEF Only
<1> QED BY <1>3, <1>4, <1>5, <1>6, <1>7, <1>8, <1>9, <1>10, <1>11, <1>12, <1>13, <1>14

LEMMA EmitTells ==
  ASSUME TypeOK, ScriptOK, ActiveOK, Emit
  PROVE  \E q : /\ Tells(q) /\ row' = Applied(row, q)
                /\ Told(script) = Told(q) \cup Told(script') /\ script' \in Seq(Events)
                /\ driver = "job" => q = script /\ script' = <<>>
<1>1. PICK q \in Seq(Events) :
        /\ Logged(q) /\ row' = Applied(row, q)
        /\ Told(script) = Told(q) \cup Told(script')
        /\ script' \in Seq(Events)
        /\ driver = "job" => q = script /\ script' = <<>>
  BY EmitIs DEF ScriptOK
<1>2. exec' = exec
  BY DEF Emit, plan
<1>3. \A e \in Told(q) : Fits(e, mode, exec)
  BY <1>1 DEF ScriptOK
<1>4. mode = "direct" => \A e \in Told(q) : e.type = "run.started" \/ e.task = Root
  BY <1>3 DEF Fits
<1>5. ASSUME NEW t \in Children
      PROVE  /\ About(q, {"message.completed"}, t) => exec'[t] \notin {"none", "running"}
             /\ About(q, {"message.delta"}, t) => exec[t] = "running"
             /\ About(q, Waits, t) => t \in stage.active /\ ~About(q, Shuts, t)
             /\ About(q, Shuts, t) => exec'[t] \notin {"none", "running", "approval"}
  <2>1. About(q, {"message.completed"}, t) => exec[t] \notin {"none", "running"}
    BY <1>3 DEF About, Fits
  <2>2. About(q, {"message.delta"}, t) => exec[t] = "running"
    BY <1>3 DEF About, Fits
  <2>3. About(q, Shuts, t) => exec[t] \notin {"none", "running", "approval"}
    BY <1>3 DEF About, Fits, Shuts
  <2>4. About(q, Waits, t) => exec[t] = "approval"
    BY <1>3 DEF About, Fits, Waits
  <2>5. exec[t] = "approval" => t \in stage.active
    BY DEF ActiveOK
  <2> QED BY <1>2, <2>1, <2>2, <2>3, <2>4, <2>5
<1>6. Tells(q)
  <2>1. \A e \in Told(q) : e \in Told(script)
    BY <1>1
  <2> QED BY <1>1, <1>4, <1>5, <2>1, LoggedIs DEF Tells
<1> QED BY <1>1, <1>6

\* The last event of a stretch ends the Run.
LastSays(q, ty) == Len(q) > 0 /\ q[Len(q)].type = ty

LEMMA EndTells ==
  ASSUME NEW ty \in TerminalType, Logged(<<RootEv(ty)>>),
         \/ row' = Applied(row, <<RootEv(ty)>>)
         \/ \A t \in Children : row'[t] \in {row[t], "cancelled", "interrupted"}
  PROVE  /\ Tells(<<RootEv(ty)>>) /\ LastSays(<<RootEv(ty)>>, ty)
         /\ \A t \in Children : Silent(<<RootEv(ty)>>, t)
<1>1. /\ <<RootEv(ty)>> \in Seq(Events) /\ Told(<<RootEv(ty)>>) = {RootEv(ty)}
      /\ RootEv(ty).type = ty /\ RootEv(ty).task = Root
  BY EndEvent
<1> DEFINE e == RootEv(ty)
           q == <<e>>
<1>2. Len(q) = 1 /\ q[1] = e
  OBVIOUS
<1>3. q \in Seq(Events) /\ Logged(q) /\ Told(q) = {e} /\ e.type = ty /\ e.task = Root
      /\ (row' = Applied(row, q)
          \/ \A t \in Children : row'[t] \in {row[t], "cancelled", "interrupted"})
  BY <1>1
<1> HIDE DEF e, q
<1>4. Tells(q)
  BY <1>3, RootTells DEF TerminalType, Plans
<1>5. \A t \in Children : Silent(q, t)
  BY <1>3 DEF Silent, Children
<1> QED BY <1>2, <1>3, <1>4, <1>5 DEF LastSays, q, e

LEMMA CloseTells ==
  ASSUME TypeOK, Close
  PROVE  \E q : Tells(q) /\ LastSays(q, TypeOf(FinalStatus))
<1> DEFINE ty == TypeOf(FinalStatus)
<1>1. ty \in TerminalType
  BY FinalStatusIs, TypeOfIs
<1>2. Logged(<<RootEv(ty)>>)
  BY DEF Close
<1>3. \/ row' = Applied(row, <<RootEv(ty)>>)
      \/ \A t \in Children : row'[t] \in {row[t], "cancelled", "interrupted"}
  <2>1. CASE driver = "job"
    BY <2>1 DEF Close
  <2>2. CASE driver # "job"
    <3>1. \E st : row' = [row EXCEPT ![Root] = st]
      BY <2>2 DEF Close
    <3> QED BY <3>1 DEF TypeOK, Children
  <2> QED BY <2>1, <2>2
<1> HIDE DEF ty
<1>4. Tells(<<RootEv(ty)>>) /\ LastSays(<<RootEv(ty)>>, ty)
  BY <1>1, <1>2, <1>3, EndTells
<1> QED BY <1>4 DEF ty

LEMMA CancelTells ==
  ASSUME TypeOK, CancelRun
  PROVE  \E q : /\ Tells(q) /\ LastSays(q, "run.cancelled")
                /\ \A t \in Children : Silent(q, t)
<1>1. "run.cancelled" \in TerminalType
  BY DEF TerminalType
<1>2. Logged(<<RootEv("run.cancelled")>>)
  BY DEF CancelRun
<1>3. \A t \in Children : row'[t] \in {row[t], "cancelled", "interrupted"}
  <2>1. row' = [t \in Tasks |-> IF row[t] \in RunTerminal \cup {"none"} THEN row[t] ELSE "cancelled"]
    BY DEF CancelRun
  <2> QED BY <2>1 DEF Children
<1>4. /\ Tells(<<RootEv("run.cancelled")>>) /\ LastSays(<<RootEv("run.cancelled")>>, "run.cancelled")
      /\ \A t \in Children : Silent(<<RootEv("run.cancelled")>>, t)
  BY <1>1, <1>2, <1>3, EndTells
<1> QED BY <1>4

LEMMA CutOffTells ==
  ASSUME TypeOK, CutOff
  PROVE  \E q : Tells(q)
<1>1. CASE run = "running"
  BY <1>1, CancelTells DEF CutOff
<1>2. CASE run # "running"
  <2>1. UNCHANGED <<row, views>>
    BY <1>2 DEF CutOff
  <2> QED BY <2>1, StillTells
<1> QED BY <1>1, <1>2

LEMMA RestartTells ==
  ASSUME TypeOK, Restart
  PROVE  \E q : Tells(q) /\ (run = "running" => LastSays(q, "run.failed"))
<1>1. CASE run = "running"
  <2>1. "run.failed" \in TerminalType
    BY DEF TerminalType
  <2>2. Logged(<<RootEv("run.failed")>>)
    BY <1>1 DEF Restart
  <2>3. \A t \in Children : row'[t] \in {row[t], "cancelled", "interrupted"}
    <3>1. row' = [t \in Tasks |->
             IF row[t] \in RunTerminal \cup {"none", "approval_required"} THEN row[t]
             ELSE "interrupted"]
      BY <1>1 DEF Restart
    <3> QED BY <3>1 DEF Children
  <2>4. Tells(<<RootEv("run.failed")>>) /\ LastSays(<<RootEv("run.failed")>>, "run.failed")
    BY <2>1, <2>2, <2>3, EndTells
  <2> QED BY <2>4
<1>2. CASE run # "running"
  <2>1. UNCHANGED <<row, views>>
    BY <1>2 DEF Restart
  <2> QED BY <1>2, <2>1, StillTells
<1> QED BY <1>1, <1>2

LEMMA ResumeTells ==
  ASSUME TypeOK, ControlOK, ExecOK, ActiveOK, NEW grade \in {"sufficient", "insufficient"}, Resume(grade)
  PROVE  /\ mode = "auto" /\ Gated \in Children /\ exec' = [exec EXCEPT ![Gated] = "settled"]
         /\ \E q : /\ Tells(q) /\ row' = Applied(row, q)
                   /\ \A e \in Told(q) : e.task \in {Gated, Root}
                   /\ failing => LastSays(q, "run.failed")
<1> DEFINE last == IF failing THEN "task.failed"
                   ELSE IF ~Approved THEN "task.blocked" ELSE "task.completed"
           ended == IF grade = "insufficient"
                    THEN Ev("task.status_changed", Gated, "working")
                    ELSE Ev(last, Gated, NoData)
           m == Ev("message.completed", Gated, NoData)
           cl == CloseCall(last # "task.completed")
           rf == RootEv("run.failed")
           told == <<Decided>> \o cl \o <<m, ended>>
           q == IF failing THEN Append(told, rf) ELSE told
<1>1. pc \in {"evaluating", "resuming"} /\ pc \in JobSteps /\ mode = "auto"
  BY DEF Resume, JobSteps, ControlOK, TypeOK
<1>2. Gated \in Tasks /\ Gated \in Children /\ exec[Gated] \notin {"none", "running"}
  BY <1>1, GatedIs
<1>3. exec' = [exec EXCEPT ![Gated] = "settled"] /\ Logged(q) /\ row' = Applied(row, q)
  BY DEF Resume, Writes
<1>4. Decided \in Events /\ Decided.type = "approval.decided" /\ Decided.task = Gated
  BY <1>1, DecidedEvents
<1>5. cl \in Seq(Events) /\ \A e \in Told(cl) : e.type = "tool.completed" /\ e.task = Gated
  BY <1>1, ClosingEvents
<1>6. m \in Events /\ m.type = "message.completed" /\ m.task = Gated
  BY <1>2, PlainEvents DEF Plain
<1>7. ended \in Events /\ ended.task = Gated
      /\ ended.type \in {"task.status_changed", "task.failed", "task.blocked", "task.completed"}
  <2>1. CASE grade = "insufficient"
    BY <1>2, <2>1, StatusEvents
  <2>2. CASE grade # "insufficient"
    <3>1. last \in {"task.failed", "task.blocked", "task.completed"} /\ last \in Plain
      BY DEF Plain, Endings
    <3> HIDE DEF last
    <3> QED BY <1>2, <2>2, <3>1, PlainEvents
  <2> QED BY <2>1, <2>2
<1>8. rf \in Events /\ rf.type = "run.failed" /\ rf.task = Root
  BY RootEvents DEF TerminalType
<1> DEFINE x == <<Decided>>
           y == <<m, ended>>
           xc == x \o cl
<1>9. told = xc \o y
  OBVIOUS
<1> HIDE DEF m, ended, rf, last, cl, told
<1>10. x \in Seq(Events) /\ Told(x) = {Decided}
  BY <1>4, One
<1>11. y \in Seq(Events) /\ Told(y) = {m, ended}
  BY <1>6, <1>7, Two
<1> HIDE DEF x, y
<1>12. xc \in Seq(Events) /\ Told(xc) = Told(x) \cup Told(cl)
  BY <1>5, <1>10, ToldTogether
<1> HIDE DEF xc
<1>13. told \in Seq(Events) /\ Told(told) = Told(xc) \cup Told(y)
  BY <1>9, <1>11, <1>12, ToldTogether
<1>14. /\ Append(told, rf) \in Seq(Events) /\ Told(Append(told, rf)) = Told(told) \cup {rf}
       /\ LastSays(Append(told, rf), "run.failed")
  BY <1>8, <1>13, ToldMore DEF LastSays
<1>15. /\ q \in Seq(Events) /\ Told(q) \subseteq {Decided, m, ended, rf} \cup Told(cl)
       /\ failing => LastSays(q, "run.failed")
  BY <1>10, <1>11, <1>12, <1>13, <1>14
<1> HIDE DEF q
<1>16. \A e \in Told(q) :
         \/ e.task = Gated /\ e.type \in {"approval.decided", "tool.completed", "message.completed"}
         \/ e = ended
         \/ e.task = Root /\ e.type = "run.failed"
  BY <1>4, <1>5, <1>6, <1>8, <1>15
<1>17. ASSUME NEW t \in Children
       PROVE  /\ About(q, {"message.completed"}, t) => exec'[t] \notin {"none", "running"}
              /\ About(q, {"message.delta"}, t) => exec[t] = "running"
              /\ About(q, Waits, t) => t \in stage.active /\ ~About(q, Shuts, t)
              /\ About(q, Shuts, t) => exec'[t] \notin {"none", "running", "approval"}
  <2>1. CASE t = Gated
    <3>1. exec'[t] = "settled"
      BY <1>2, <1>3, <2>1 DEF TypeOK
    <3>2. t \in stage.active
      BY <1>1, <2>1 DEF ActiveOK
    <3>3. ~About(q, {"message.delta"}, t)
      BY <1>7, <1>16 DEF About, Children
    <3>4. About(q, Waits, t) => ended.type \in Waits
      BY <1>16 DEF About, Waits, Children
    <3>5. About(q, Shuts, t) => ended.type \in Shuts
      BY <1>16 DEF About, Shuts, Endings, Children
    <3>6. ended.type \in Waits => ended.type \notin Shuts
      BY DEF Waits, Shuts, Endings
    <3> QED BY <3>1, <3>2, <3>3, <3>4, <3>5, <3>6
  <2>2. CASE t # Gated
    <3>1. \A S : ~About(q, S, t)
      BY <1>7, <1>16, <2>2 DEF About, Children
    <3> QED BY <3>1
  <2> QED BY <2>1, <2>2
<1>18. Tells(q)
  <2>1. \A e \in Told(q) : e.type \notin Plans
    BY <1>7, <1>16 DEF Plans
  <2> QED BY <1>1, <1>3, <1>15, <1>17, <2>1, LoggedIs DEF Tells
<1>19. \A e \in Told(q) : e.task \in {Gated, Root}
  BY <1>7, <1>16
<1> QED BY <1>1, <1>2, <1>3, <1>15, <1>18, <1>19

\* Two sequences put together end as the second does.
LEMMA LastOf ==
  ASSUME NEW E, NEW s \in Seq(E), NEW q \in Seq(E), Len(q) > 0
  PROVE  Len(s \o q) > 0 /\ (s \o q)[Len(s \o q)] = q[Len(q)]
<1>1. Len(s) \in Nat /\ Len(q) \in Nat /\ Len(s \o q) = Len(s) + Len(q) /\ Len(q) \in 1..Len(q)
  OBVIOUS
<1>2. (s \o q)[Len(s) + Len(q)] = q[Len(q)]
  OBVIOUS
<1> QED BY <1>1, <1>2

LEMMA NextOfBatchTells ==
  ASSUME TypeOK, ControlOK, ExecOK, AgreeOK, NEW b \in Approvals, NextOfBatch(b)
  PROVE  /\ b # gate /\ TaskOf(b) = Gated
         /\ \E q : /\ Tells(q) /\ Required(q, b)
                   /\ mode = "auto" => row' = Applied(row, q)
                   /\ \A a \in Approvals : a # gate => ~Answered(q, a)
                   /\ \A e \in Told(q) : e.type \notin TerminalType \cup RunSays /\ e.task = Gated
<1> DEFINE k == Asks(Gated, b)
           c == Ev("task.status_changed", Gated, "approval_required")
           x == <<Decided>>
           y == <<k, c>>
           cl == CloseCall(FALSE)
           xc == x \o cl
<1>1. pc \in JobSteps /\ b \in Approvals /\ b # gate /\ TaskOf(b) = Gated /\ approval[b] = "none"
  BY DEF NextOfBatch, JobSteps, TaskOf, Approved
<1>2. /\ Gated \in Tasks
      /\ mode = "auto" => Gated \in Children
      /\ mode = "direct" => Gated = Root
  BY <1>1, GatedIs
<1>4. Decided \in Events /\ Decided.type = "approval.decided" /\ Decided.task = Gated
      /\ Decided.data.approval = gate
  BY <1>1, DecidedEvents
<1>5. cl \in Seq(Events) /\ \A e \in Told(cl) : e.type = "tool.completed" /\ e.task = Gated
  BY <1>1, ClosingEvents
<1>6. k \in Events /\ k.type = "approval.required" /\ k.task = Gated /\ k.data = b
  BY <1>1, <1>2, CardEvents
<1>7. c \in Events /\ c.type = "task.status_changed" /\ c.task = Gated
  BY <1>2, StatusEvents
<1>3. /\ mode = "auto" => Logged(xc \o y) /\ row' = Applied(row, xc \o y) /\ row[Gated] = "approval_required"
      /\ mode = "direct" => Logged(x \o y) /\ row' = [row EXCEPT ![Gated] = "working"]
      /\ exec' = exec
  BY DEF NextOfBatch, Writes, plan
<1> HIDE DEF k, c, cl
<1>10. x \in Seq(Events) /\ Told(x) = {Decided}
  BY <1>4, One
<1>11. y \in Seq(Events) /\ Told(y) = {k, c}
  BY <1>6, <1>7, Two
<1> HIDE DEF x, y
<1>12. xc \in Seq(Events) /\ Told(xc) = Told(x) \cup Told(cl)
  BY <1>5, <1>10, ToldTogether
<1> HIDE DEF xc
<1>13. xc \o y \in Seq(Events) /\ Told(xc \o y) = Told(xc) \cup Told(y)
  BY <1>11, <1>12, ToldTogether
<1>14. x \o y \in Seq(Events) /\ Told(x \o y) = Told(x) \cup Told(y)
  BY <1>10, <1>11, ToldTogether
<1> DEFINE q == IF mode = "auto" THEN xc \o y ELSE x \o y
<1>15. /\ q \in Seq(Events) /\ Told(q) \subseteq {Decided, k, c} \cup Told(cl) /\ k \in Told(q)
  BY <1>10, <1>11, <1>12, <1>13, <1>14
<1>16. mode \in {"auto", "direct"} /\ Logged(q)
  BY <1>3 DEF TypeOK
<1>17. mode = "auto" => row' = Applied(row, q) /\ row[Gated] = "approval_required"
  BY <1>3
<1> HIDE DEF q
<1>18. \A e \in Told(q) :
         /\ e.task = Gated
         /\ e.type \in {"approval.decided", "tool.completed", "approval.required", "task.status_changed"}
         /\ e.type = "approval.decided" => e.data.approval = gate
  BY <1>4, <1>5, <1>6, <1>7, <1>15
<1>19. Required(q, b)
  BY <1>6, <1>15 DEF Required
<1>20. \A a \in Approvals : a # gate => ~Answered(q, a)
  BY <1>18 DEF Answered
<1>21. \A e \in Told(q) : e.type \notin TerminalType \cup RunSays /\ e.task = Gated
  BY <1>18 DEF TerminalType, RunSays
<1>22. Tells(q)
  <2>1. CASE mode = "direct"
    <3>1. \A e \in Told(q) : e.task = Root /\ e.type \notin Plans
      BY <1>2, <1>18, <2>1 DEF Plans
    <3>2. \A t \in Children : row'[t] = row[t]
      BY <1>2, <1>3, <2>1 DEF Children, TypeOK
    <3> QED BY <1>15, <1>16, <3>1, <3>2, RootTells
  <2>2. CASE mode = "auto"
    <3>1. ASSUME NEW t \in Children
          PROVE  /\ ~About(q, {"message.completed"}, t) /\ ~About(q, {"message.delta"}, t)
                 /\ ~About(q, Shuts, t)
                 /\ About(q, Waits, t) => t \in stage.active
      <4>1. ~About(q, {"message.completed"}, t) /\ ~About(q, {"message.delta"}, t)
        BY <1>18 DEF About
      <4>2. ~About(q, Shuts, t)
        BY <1>18 DEF About, Shuts, Endings
      <4>3. About(q, Waits, t) => t = Gated
        BY <1>18 DEF About
      <4>4. Gated \in stage.active
        BY <1>2, <1>17, <2>2 DEF AgreeOK, TaskOK
      <4> QED BY <4>1, <4>2, <4>3, <4>4
    <3>2. \A e \in Told(q) : e.type \notin Plans
      BY <1>18 DEF Plans
    <3> QED BY <1>15, <1>16, <1>17, <2>2, <3>1, <3>2, LoggedIs DEF Tells
  <2> QED BY <1>16, <2>1, <2>2
<1> QED BY <1>1, <1>17, <1>19, <1>20, <1>21, <1>22

LEMMA DirectDecidedTells ==
  ASSUME TypeOK, ControlOK, ExecOK, NEW res \in {"completed", "failed"}, DirectDecided(res)
  PROVE  LET last == IF Approved /\ res = "completed" THEN "task.completed"
                     ELSE IF ~Approved THEN "task.blocked" ELSE "task.failed"
             final == IF last = "task.failed" THEN "failed" ELSE "completed"
         IN /\ \E q : Tells(q) /\ LastSays(q, TypeOf(final))
            /\ row' = [row EXCEPT ![Root] = RowStatus(RootEv(last))]
            /\ run' = IF res = "failed" THEN "failed" ELSE final
            /\ RowStatus(RootEv(last)) = CASE last = "task.completed" -> "completed"
                                           [] last = "task.blocked" -> "blocked"
                                           [] last = "task.failed" -> "failed"
<1> DEFINE ok == Approved /\ res = "completed"
           last == IF ok THEN "task.completed"
                   ELSE IF ~Approved THEN "task.blocked" ELSE "task.failed"
           final == IF last = "task.failed" THEN "failed" ELSE "completed"
           ty == TypeOf(final)
           x == <<Decided>>
           cl == CloseCall(~ok)
           mm == RootEv("message.completed")
           m == IF ok THEN <<mm>> ELSE <<>>
           a == RootEv(last)
           z == RootEv(ty)
           xc == x \o cl
           xcm == xc \o m
           y == <<a, z>>
<1>0. last \in {"task.completed", "task.blocked", "task.failed"} /\ ok \in BOOLEAN
  OBVIOUS
<1>1. pc \in JobSteps /\ mode = "direct" /\ Gated = Root /\ Root \in Tasks
  BY GatedIs, EventConstantsOK DEF DirectDecided, JobSteps
<1>2. RowStatus(a) = CASE last = "task.completed" -> "completed"
                       [] last = "task.blocked" -> "blocked"
                       [] last = "task.failed" -> "failed"
  BY DEF RowStatus, RootEv, Ev
<1>3. RowStatus(a) = "failed" <=> last = "task.failed"
  BY <1>2
<1> DEFINE fin == IF RowStatus(a) = "failed" THEN "failed" ELSE "completed"
           mg == IF ok THEN <<Ev("message.completed", Gated, NoData)>> ELSE <<>>
           lg == x \o cl \o mg \o <<a, RootEv(TypeOf(fin))>>
<1>24. row' = [row EXCEPT ![Root] = RowStatus(a)]
  BY DEF DirectDecided
<1>25. run' = IF res = "failed" THEN "failed" ELSE fin
  BY DEF DirectDecided
<1>26. Logged(lg)
  BY DEF DirectDecided
<1>29. mg = m
  BY <1>1 DEF RootEv
<1>27. fin = final
  BY <1>3
<1> HIDE DEF mg
<1>28. lg = x \o cl \o m \o y
  BY <1>27, <1>29
<1> HIDE DEF fin, lg
<1>4. /\ row' = [row EXCEPT ![Root] = RowStatus(a)]
      /\ run' = IF res = "failed" THEN "failed" ELSE final
      /\ Logged(x \o cl \o m \o y)
  <2> HIDE DEF a, x, cl, m, y, final
  <2> QED BY <1>24, <1>25, <1>26, <1>27, <1>28
<1>5. x \o cl \o m \o y = xcm \o y
  OBVIOUS
<1>6. ty \in TerminalType
  BY TypeOfIs DEF TerminalStatus
<1>7. Decided \in Events /\ Decided.task = Root /\ Decided.type \notin Plans
  BY <1>1, DecidedEvents DEF Plans
<1>8. cl \in Seq(Events) /\ \A e \in Told(cl) : e.task = Root /\ e.type \notin Plans
  BY <1>0, <1>1, ClosingEvents DEF Plans
<1>9. mm \in Events /\ mm.task = Root /\ mm.type \notin Plans
  BY RootEvents DEF Plain, Plans
<1>10. a \in Events /\ a.task = Root /\ a.type \notin Plans
  BY <1>0, RootEvents DEF Plain, Endings, Plans
<1>11. z \in Events /\ z.task = Root /\ z.type = ty /\ z.type \notin Plans
  BY <1>6, RootEvents DEF TerminalType, Plans
<1> HIDE DEF cl, mm, a, z, ty, ok, last, final
<1>12. x \in Seq(Events) /\ Told(x) = {Decided}
  BY <1>7, One
<1>13. m \in Seq(Events) /\ Told(m) \subseteq {mm}
  BY <1>9, One, Nothing
<1>14. y \in Seq(Events) /\ Told(y) = {a, z} /\ Len(y) = 2 /\ y[2] = z
  BY <1>10, <1>11, Two
<1> HIDE DEF x, m, y
<1>15. xc \in Seq(Events) /\ Told(xc) = Told(x) \cup Told(cl)
  BY <1>8, <1>12, ToldTogether
<1> HIDE DEF xc
<1>16. xcm \in Seq(Events) /\ Told(xcm) = Told(xc) \cup Told(m)
  BY <1>13, <1>15, ToldTogether
<1> HIDE DEF xcm
<1> DEFINE q == xcm \o y
<1>17. q \in Seq(Events) /\ Told(q) = Told(xcm) \cup Told(y)
  BY <1>14, <1>16, ToldTogether
<1>18. Len(q) > 0 /\ q[Len(q)] = z
  <2>1. y \in Seq(Events) /\ Len(y) > 0 /\ y[Len(y)] = z
    BY <1>14
  <2>2. xcm \in Seq(Events)
    BY <1>16
  <2>3. Len(xcm \o y) > 0 /\ (xcm \o y)[Len(xcm \o y)] = y[Len(y)]
    BY <2>1, <2>2, LastOf
  <2> QED BY <2>1, <2>3
<1>19. Logged(q)
  BY <1>4, <1>5
<1> HIDE DEF q
<1>20. \A e \in Told(q) : e.task = Root /\ e.type \notin Plans
  BY <1>7, <1>8, <1>9, <1>10, <1>11, <1>12, <1>13, <1>14, <1>15, <1>16, <1>17
<1>21. \A t \in Children : row'[t] = row[t]
  BY <1>1, <1>4 DEF Children, TypeOK
<1>22. Tells(q)
  BY <1>17, <1>19, <1>20, <1>21, RootTells
<1>23. LastSays(q, ty)
  BY <1>11, <1>18 DEF LastSays
<1> QED BY <1>2, <1>4, <1>22, <1>23 DEF ty, last, final, ok, a

-----------------------------------------------------------------------------
(***************************************************************************)
(* What telling keeps.                                                     *)
(***************************************************************************)
LEMMA TellsKeepsTypes ==
  ASSUME NEW q, Tells(q), ViewOK(view), FeedOK(feed), row \in Rows
  PROVE  /\ ViewOK(view') /\ FeedOK(feed')
         /\ row' = Applied(row, q) => row' \in Rows
<1>1. q \in Seq(Events) /\ view' = ViewAfter(view, q) /\ feed' = FeedAfter(feed, q)
  BY DEF Tells
<1>2. ViewOK(ViewAfter(view, q)) /\ FeedOK(FeedAfter(feed, q)) /\ Applied(row, q) \in Rows
  BY <1>1, AfterTypes
<1> QED BY <1>1, <1>2

LEMMA TellsKeepsAgreement ==
  ASSUME NEW q, Tells(q), ViewOK(view), FeedOK(feed), row \in Rows, AgreeOK, NEW t \in Children
  PROVE  TaskOK(view', stage', feed', row', t)
<1>1. /\ q \in Seq(Events) /\ view' = ViewAfter(view, q) /\ stage' = StageAfter(stage, q)
      /\ feed' = FeedAfter(feed, q)
      /\ About(q, Waits, t) => t \in stage.active /\ ~About(q, Shuts, t)
      /\ \/ row' = Applied(row, q)
         \/ Silent(q, t) /\ row'[t] \in {row[t], "cancelled", "interrupted"}
  BY DEF Tells
<1>2. TaskOK(view, stage, feed, row, t)
  BY DEF AgreeOK
<1>3. CASE row' = Applied(row, q)
  <2>1. TaskOK(ViewAfter(view, q), StageAfter(stage, q), FeedAfter(feed, q), Applied(row, q), t)
    BY <1>1, <1>2, AfterAgrees
  <2> QED BY <1>1, <1>3, <2>1
<1>4. CASE Silent(q, t) /\ row'[t] \in {row[t], "cancelled", "interrupted"}
  <2>1. TaskOK(ViewAfter(view, q), StageAfter(stage, q), FeedAfter(feed, q), row', t)
    BY <1>1, <1>2, <1>4, AfterAside
  <2> QED BY <1>1, <2>1
<1> QED BY <1>1, <1>3, <1>4

LEMMA TellsKeepsReports ==
  ASSUME NEW q, Tells(q), ViewOK(view), NEW t \in Children
  PROVE  /\ view'.message[t] = "report" => view.message[t] = "report" \/ exec'[t] \notin {"none", "running"}
         /\ view.message[t] = "report" => view'.message[t] = "report" \/ exec[t] = "running"
<1>1. /\ q \in Seq(Events) /\ view' = ViewAfter(view, q)
      /\ About(q, {"message.completed"}, t) => exec'[t] \notin {"none", "running"}
      /\ About(q, {"message.delta"}, t) => exec[t] = "running"
  BY DEF Tells
<1>2. t \in Tasks
  BY DEF Children
<1>3. /\ ViewAfter(view, q).message[t] = "report" =>
           view.message[t] = "report" \/ About(q, {"message.completed"}, t)
      /\ view.message[t] = "report" =>
           ViewAfter(view, q).message[t] = "report" \/ About(q, {"message.delta"}, t)
  BY <1>1, <1>2, AfterMessages
<1> QED BY <1>1, <1>3

LEMMA TellsKeepsActive ==
  ASSUME NEW q, Tells(q), NEW t \in Children, exec'[t] \in {"none", "running", "approval"},
         t \in stage.active \/ About(q, {"task.delegated"}, t)
  PROVE  t \in stage'.active
<1>1. q \in Seq(Events) /\ stage' = StageAfter(stage, q) /\ ~About(q, Shuts, t) /\ t \in Tasks
  BY DEF Tells, Children
<1> QED BY <1>1, AfterActive

LEMMA TellsKeepsCalls ==
  ASSUME NEW q, Tells(q), ViewOK(view), mode = "direct",
         \A x \in Tools : view.tool[x] # "none" => ToolTask[x] = Root,
         NEW x \in Tools, view'.tool[x] # "none"
  PROVE  ToolTask[x] = Root
<1> SUFFICES ASSUME ToolTask[x] # Root PROVE FALSE
  OBVIOUS
<1>1. /\ q \in Seq(Events) /\ view' = ViewAfter(view, q)
      /\ \A e \in Told(q) : e.type = "run.started" \/ e.task # ToolTask[x]
  BY DEF Tells
<1>2. ViewAfter(view, q).tool[x] = view.tool[x]
  BY <1>1, AfterCalls
<1> QED BY <1>1, <1>2

LEMMA NextTells ==
  ASSUME TraceInv, [Next]_vars
  PROVE  \/ \E q : Tells(q)
         \/ \E a \in Approvals, d \in {"approved", "rejected"} : Decide(a, d)
<1> DEFINE Told1 == \E q : Tells(q)
<1>0. TypeOK /\ ControlOK /\ ScriptOK /\ ExecOK /\ ActiveOK /\ AgreeOK
  BY DEF TraceInv
<1>1. CASE Emit
  BY <1>0, <1>1, EmitTells
<1>2. CASE Close
  BY <1>0, <1>2, CloseTells
<1>3. CASE Cancel
  BY <1>0, <1>3, CancelTells DEF Cancel
<1>4. CASE CutOff
  BY <1>0, <1>4, CutOffTells
<1>5. CASE Restart
  BY <1>0, <1>5, RestartTells
<1>6. CASE \E grade \in {"sufficient", "insufficient"} : Resume(grade)
  BY <1>0, <1>6, ResumeTells
<1>7. CASE \E b \in Approvals : NextOfBatch(b)
  BY <1>0, <1>7, NextOfBatchTells
<1>8. CASE \E res \in {"completed", "failed"} : DirectDecided(res)
  BY <1>0, <1>8, DirectDecidedTells
<1>9. ASSUME ~Emit, ~Close, ~Cancel, ~CutOff, ~Restart,
             ~\E grade \in {"sufficient", "insufficient"} : Resume(grade),
             ~\E b \in Approvals : NextOfBatch(b),
             ~\E res \in {"completed", "failed"} : DirectDecided(res),
             ~\E a \in Approvals, d \in {"approved", "rejected"} : Decide(a, d)
      PROVE  Tells(<<>>)
  BY <1>0, <1>9, StillSteps DEF Next
<1> QED BY <1>1, <1>2, <1>3, <1>4, <1>5, <1>6, <1>7, <1>8, <1>9

-----------------------------------------------------------------------------
(***************************************************************************)
(* The parts of the invariant, step by step.                               *)
(***************************************************************************)
LEMMA AppliedIs ==
  ASSUME TypeOK, NEW q \in Seq(Events)
  PROVE  Applied(row, q) \in Rows
<1>1. row \in Rows
  BY DEF TypeOK, Rows, RowStates
<1>2. ViewOK(EmptyView) /\ FeedOK(EmptyFeed)
  BY EmptyViewOK DEF FeedOK, EmptyFeed, FeedNames
<1> QED BY <1>1, <1>2, AfterTypes

\* Where the driver is, in every step that is not about the rows.
LEMMA PlanTypes ==
  ASSUME TypeOK,
         \/ OpenRound \/ Gather \/ HostFails \/ Return
         \/ \E S \in Decisions : Delegate(S)
         \/ \E action \in {"respond", "complete", "stop"}, breaks \in BOOLEAN :
              HostAnswers(action, breaks)
         \/ \E e \in ProgressEvents : Progress(e)
         \/ \E t \in Tasks, v \in {"sufficient", "insufficient", "failed"} : RemoteReturns(t, v)
         \/ \E again \in SUBSET Retried : Gathered(again)
         \/ \E a \in Approvals : DirectAsks(a)
         \/ \E how \in {"answered", "asked", "failed"}, says \in BOOLEAN : DirectEnds(how, says)
  PROVE  TypeOK'
<1>0. Root \in Tasks /\ MaxRounds \in Nat
  BY EventConstantsOK, TraceConstantsOK
<1>1. CASE OpenRound
  BY <1>0, <1>1 DEF OpenRound, Says, Ready, TypeOK, rows, views, back
<1>2. CASE Gather
  BY <1>0, <1>2 DEF Gather, Says, Ready, TypeOK, rows, views, back
<1>3. CASE HostFails
  BY <1>0, <1>3 DEF HostFails, Says, Ready, TypeOK, rows, views, back, plan
<1>4. CASE Return
  BY <1>0, <1>4 DEF Return, Says, Ready, TypeOK, rows, views, back, plan, Resting
<1>5. CASE \E S \in Decisions : Delegate(S)
  BY <1>0, <1>5 DEF Delegate, Says, Ready, TypeOK, rows, views, back
<1>6. CASE \E action \in {"respond", "complete", "stop"}, breaks \in BOOLEAN :
             HostAnswers(action, breaks)
  BY <1>0, <1>6 DEF HostAnswers, Answer, Says, Ready, TypeOK, rows, views, back, plan
<1>7. CASE \E e \in ProgressEvents : Progress(e)
  BY <1>0, <1>7 DEF Progress, Says, Ready, TypeOK, rows, views, back, plan
<1>8. CASE \E t \in Tasks, v \in {"sufficient", "insufficient", "failed"} : RemoteReturns(t, v)
  BY <1>0, <1>8 DEF RemoteReturns, Says, Ready, TypeOK, rows, views, back
<1>9. CASE \E again \in SUBSET Retried : Gathered(again)
  BY <1>0, <1>9 DEF Gathered, Says, Ready, TypeOK, rows, views, back, plan
<1>10. CASE \E a \in Approvals : DirectAsks(a)
  BY <1>0, <1>10 DEF DirectAsks, Says, Ready, TypeOK, rows, views, back
<1>11. CASE \E how \in {"answered", "asked", "failed"}, says \in BOOLEAN : DirectEnds(how, says)
  <2>1. PICK how \in {"answered", "asked", "failed"}, says \in BOOLEAN : DirectEnds(how, says)
    BY <1>11
  <2>2. pc' \in {"pausing", "ending"} /\ failing' \in BOOLEAN
    BY <2>1, DirectEndsSays DEF DirectEnds
  <2>3. exec' \in [Tasks -> {"none", "running", "approval", "sufficient", "insufficient",
                            "failed", "lost", "settled"}]
    BY <1>0, <2>1 DEF DirectEnds, TypeOK
  <2>4. UNCHANGED <<mode, driver, round, run, row, approval, evaluated, gate, fate>>
    BY <2>1 DEF DirectEnds, rows, back
  <2> QED BY <2>2, <2>3, <2>4 DEF TypeOK
<1> QED BY <1>1, <1>2, <1>3, <1>4, <1>5, <1>6, <1>7, <1>8, <1>9, <1>10, <1>11

LEMMA EmitTypes ==
  ASSUME TypeOK, ScriptOK, Emit
  PROVE  TypeOK'
<1> DEFINE now == IF driver = "job" THEN script ELSE <<Head(script)>>
           new == {now[i].task : i \in {j \in DOMAIN now : now[j].type = "task.evaluated"}}
<1>1. \E q \in Seq(Events) : row' = Applied(row, q)
  BY EmitIs DEF ScriptOK
<1>2. row' \in Rows
  BY <1>1, AppliedIs
<1>3. script \in Seq(Events) /\ script # <<>>
  BY DEF ScriptOK, Emit
<1>4. \A j \in DOMAIN now : now[j] \in Events
  <2>1. CASE driver = "job"
    BY <1>3, <2>1
  <2>2. CASE driver # "job"
    <3>1. now = <<Head(script)>> /\ Head(script) \in Events
      BY <1>3, <2>2
    <3> HIDE DEF now
    <3> QED BY <3>1
  <2> QED BY <2>1, <2>2
<1>5. evaluated' = evaluated \cup new
  BY DEF Emit
<1> HIDE DEF now
<1>6. new \subseteq Tasks
  BY <1>4 DEF Events, Proper
<1> HIDE DEF new
<1>7. UNCHANGED <<mode, pc, driver, round, asked, exec, failing, run, approval, gate, fate>>
  BY DEF Emit, plan, back
<1> QED BY <1>2, <1>5, <1>6, <1>7 DEF TypeOK, Rows, RowStates

\* The end of a stretch, and a decision.
LEMMA EndTypes ==
  ASSUME TypeOK,
         \/ UNCHANGED vars \/ Start \/ Close \/ Pause
         \/ \E a \in Approvals, d \in {"approved", "rejected"} : Decide(a, d)
         \/ \E res \in {"completed", "failed", "other"} : JobGoesOn(res)
         \/ \E t \in Tasks, a \in Approvals : RemoteAsks(t, a)
  PROVE  TypeOK'
<1>0. Root \in Tasks /\ FinalStatus \in TerminalStatus /\ FinalStatus \in RunTerminal
  BY EventConstantsOK, FinalStatusIs DEF RunTerminal
<1>1. CASE UNCHANGED vars
  BY <1>1 DEF vars, TypeOK
<1>2. CASE Start
  BY <1>0, <1>2 DEF Start, Says, TypeOK, views, back
<1>3. CASE Close
  <2>1. row' \in Rows
    <3>1. CASE driver = "job"
      <4>1. <<RootEv(TypeOf(FinalStatus))>> \in Seq(Events)
        BY <1>0, TypeOfIs, EndEvent
      <4>2. row' = Applied(row, <<RootEv(TypeOf(FinalStatus))>>)
        BY <1>3, <3>1 DEF Close
      <4> QED BY <4>1, <4>2, AppliedIs
    <3>2. CASE driver # "job"
      <4>1. \E st \in {"completed", "failed"} : row' = [row EXCEPT ![Root] = st]
        BY <1>3, <3>2 DEF Close
      <4> QED BY <1>0, <4>1 DEF TypeOK, Rows, RowStates, RunTerminal, TerminalStatus
    <3> QED BY <3>1, <3>2
  <2>2. run' = FinalStatus /\ pc' = "ended"
        /\ UNCHANGED <<mode, driver, round, asked, exec, failing, approval, evaluated, gate, fate>>
    BY <1>3 DEF Close, plan, back
  <2> QED BY <1>0, <2>1, <2>2 DEF TypeOK, Rows, RowStates, Resting
<1>4. CASE Pause
  BY <1>0, <1>4 DEF Pause, TypeOK, views, back, plan, Resting
<1>5. CASE \E a \in Approvals, d \in {"approved", "rejected"} : Decide(a, d)
  BY <1>5 DEF Decide, TypeOK, plan
<1>6. CASE \E res \in {"completed", "failed", "other"} : JobGoesOn(res)
  BY <1>6 DEF JobGoesOn, TypeOK, views, back, plan, Resting, RunTerminal, TerminalStatus
<1>7. CASE \E t \in Tasks, a \in Approvals : RemoteAsks(t, a)
  BY <1>7 DEF RemoteAsks, TypeOK, views, back
<1> QED BY <1>1, <1>2, <1>3, <1>4, <1>5, <1>6, <1>7

LEMMA JobTypes ==
  ASSUME TypeOK, ControlOK, ExecOK, ActiveOK, AgreeOK,
         \/ \E grade \in {"sufficient", "insufficient"} : Resume(grade)
         \/ \E b \in Approvals : NextOfBatch(b)
         \/ \E res \in {"completed", "failed"} : DirectDecided(res)
  PROVE  TypeOK'
<1>0. Root \in Tasks /\ NoData \in Approvals \cup {NoData}
  BY EventConstantsOK
<1>1. CASE \E grade \in {"sufficient", "insufficient"} : Resume(grade)
  <2>1. PICK grade \in {"sufficient", "insufficient"} : Resume(grade)
    BY <1>1
  <2>2. /\ exec' = [exec EXCEPT ![Gated] = "settled"]
        /\ \E q \in Seq(Events) : row' = Applied(row, q)
    BY <2>1, ResumeTells DEF Tells
  <2>3. row' \in Rows
    BY <2>2, AppliedIs
  <2>4. /\ run' \in {"failed", "running"} /\ pc' \in {"ended", "host"} /\ gate' = NoData
        /\ UNCHANGED <<mode, driver, round, asked, failing, approval, evaluated, fate>>
    BY <2>1 DEF Resume, Says
  <2> QED BY <1>0, <2>2, <2>3, <2>4 DEF TypeOK, Rows, RowStates, Resting, RunTerminal, TerminalStatus
<1>2. CASE \E b \in Approvals : NextOfBatch(b)
  <2>1. PICK b \in Approvals : NextOfBatch(b)
    BY <1>2
  <2>2. row' \in Rows
    <3>1. CASE mode = "auto"
      <4>1. \E q \in Seq(Events) : row' = Applied(row, q)
        BY <2>1, <3>1, NextOfBatchTells DEF Tells
      <4> QED BY <4>1, AppliedIs
    <3>2. CASE mode # "auto"
      <4>1. row' = [row EXCEPT ![Gated] = "working"]
        BY <2>1, <3>2 DEF NextOfBatch
      <4> QED BY <4>1 DEF TypeOK, Rows, RowStates
    <3> QED BY <3>1, <3>2
  <2>3. /\ approval' = [approval EXCEPT ![b] = "pending"] /\ run' = "approval_required"
        /\ pc' = "paused" /\ gate' = NoData
        /\ UNCHANGED <<mode, driver, round, asked, exec, failing, evaluated, fate>>
    BY <2>1 DEF NextOfBatch, plan
  <2> QED BY <1>0, <2>1, <2>2, <2>3 DEF TypeOK, Rows, RowStates, Resting
<1>3. CASE \E res \in {"completed", "failed"} : DirectDecided(res)
  <2>1. PICK res \in {"completed", "failed"} : DirectDecided(res)
    BY <1>3
  <2> DEFINE last == IF Approved /\ res = "completed" THEN "task.completed"
                     ELSE IF ~Approved THEN "task.blocked" ELSE "task.failed"
  <2>2. /\ row' = [row EXCEPT ![Root] = RowStatus(RootEv(last))]
        /\ run' \in {"failed", "completed"}
        /\ RowStatus(RootEv(last)) = CASE last = "task.completed" -> "completed"
                                       [] last = "task.blocked" -> "blocked"
                                       [] last = "task.failed" -> "failed"
    BY <2>1, DirectDecidedTells
  <2>3. RowStatus(RootEv(last)) \in {"completed", "blocked", "failed"}
    BY <2>2
  <2>4. /\ pc' = "ended" /\ gate' = NoData
        /\ UNCHANGED <<mode, driver, round, asked, exec, failing, approval, evaluated, fate>>
    BY <2>1 DEF DirectDecided, plan
  <2> HIDE DEF last
  <2> QED BY <1>0, <2>2, <2>3, <2>4 DEF TypeOK, Resting, RunTerminal, TerminalStatus
<1> QED BY <1>1, <1>2, <1>3

LEMMA OutsideTypes ==
  ASSUME TypeOK, Cancel \/ Supersede \/ CutOff \/ Restart
  PROVE  TypeOK'
<1> DEFINE All == Resting \cup {"host", "deciding", "delegating", "gathering", "direct",
                          "pausing", "ending", "executing", "evaluating", "resuming"}
<1>1. ASSUME CancelRun
      PROVE  row' \in Rows /\ run' \in RunTerminal /\ fate' = fate \cup {"cancelled"}
  <2>1. /\ row' = [t \in Tasks |-> IF row[t] \in RunTerminal \cup {"none"} THEN row[t] ELSE "cancelled"]
        /\ run' = "cancelled" /\ fate' = fate \cup {"cancelled"}
    BY <1>1 DEF CancelRun
  <2> QED BY <2>1 DEF TypeOK, Rows, RowStates, RunTerminal, TerminalStatus
<1>2. CASE Cancel
  <2>1. /\ CancelRun /\ pc' \in All
        /\ UNCHANGED <<mode, driver, round, asked, exec, failing, approval, evaluated, gate>>
    BY <1>2 DEF Cancel, StopsProducer, Says, Resting, TypeOK, plan
  <2> QED BY <1>1, <2>1 DEF TypeOK, Rows, RowStates
<1>3. CASE Supersede
  BY <1>3 DEF Supersede, TypeOK, plan, views, RunTerminal, TerminalStatus
<1>4. CASE CutOff
  <2>1. /\ pc' \in All
        /\ UNCHANGED <<mode, driver, round, asked, exec, failing, approval, evaluated, gate>>
    BY <1>4 DEF CutOff, Says, Resting, plan
  <2>2. CASE run = "running"
    <3>1. CancelRun
      BY <1>4, <2>2 DEF CutOff
    <3> QED BY <1>1, <2>1, <3>1 DEF TypeOK, Rows, RowStates
  <2>3. CASE run # "running"
    <3>1. UNCHANGED <<run, row, fate>>
      BY <1>4, <2>3 DEF CutOff
    <3> QED BY <2>1, <3>1 DEF TypeOK
  <2> QED BY <2>2, <2>3
<1>5. CASE Restart
  <2>1. /\ pc' \in All /\ fate' = fate \cup {"restarted"}
        /\ UNCHANGED <<mode, driver, round, asked, failing, approval, evaluated, gate>>
        /\ exec' = [t \in Tasks |-> IF exec[t] = "running" THEN "lost" ELSE exec[t]]
    BY <1>5 DEF Restart, Says, Resting
  <2>2. exec' \in [Tasks -> {"none", "running", "approval", "sufficient", "insufficient",
                         "failed", "lost", "settled"}]
    BY <2>1 DEF TypeOK
  <2>3. run' \in RunTerminal \cup {"none", "running", "approval_required"} /\ row' \in Rows
    <3>1. CASE run = "running"
      <4>1. /\ run' = "interrupted"
            /\ row' = [t \in Tasks |->
                 IF row[t] \in RunTerminal \cup {"none", "approval_required"} THEN row[t]
                 ELSE "interrupted"]
        BY <1>5, <3>1 DEF Restart
      <4> QED BY <4>1 DEF TypeOK, Rows, RowStates, RunTerminal
    <3>2. CASE run # "running"
      BY <1>5, <3>2 DEF Restart, TypeOK, Rows, RowStates
    <3> QED BY <3>1, <3>2
  <2> QED BY <2>1, <2>2, <2>3 DEF TypeOK, Rows, RowStates
<1> QED BY <1>2, <1>3, <1>4, <1>5

LEMMA NextTypes ==
  ASSUME TraceInv, [Next]_vars
  PROVE  TypeOK'
<1>0. TypeOK /\ ControlOK /\ ScriptOK /\ ExecOK /\ ActiveOK /\ AgreeOK
  BY DEF TraceInv
<1> QED BY <1>0, PlanTypes, EmitTypes, EndTypes, JobTypes, OutsideTypes DEF Next

\* Every step but a stutter leaves the place where a Run begins.
LEMMA NotIdle ==
  ASSUME TypeOK, ControlOK, Next
  PROVE  pc' # "idle" /\ (pc = "idle" => Start)
<1>1. pc = "idle" => /\ run = "none" /\ script = <<>> /\ \A t \in Tasks : exec[t] = "none"
                     /\ \A a \in Approvals : approval[a] = "none"
  BY DEF ControlOK, Resting
<1>2. CASE Start \/ OpenRound \/ Gather \/ HostFails \/ Close \/ Pause \/ Return
  BY <1>2 DEF Start, OpenRound, Gather, HostFails, Close, Pause, Return, Ready, Says, Resting
<1>3. CASE Emit
  BY <1>1, <1>3 DEF Emit
<1>4. CASE \/ \E S \in Decisions : Delegate(S)
           \/ \E action \in {"respond", "complete", "stop"}, breaks \in BOOLEAN :
                HostAnswers(action, breaks)
           \/ \E e \in ProgressEvents : Progress(e)
           \/ \E again \in SUBSET Retried : Gathered(again)
           \/ \E a \in Approvals : DirectAsks(a)
           \/ \E how \in {"answered", "asked", "failed"}, says \in BOOLEAN : DirectEnds(how, says)
  BY <1>4 DEF Delegate, HostAnswers, Answer, Progress, Gathered, DirectAsks, DirectEnds, Ready, Says
<1>5. CASE \/ \E t \in Tasks, v \in {"sufficient", "insufficient", "failed"} : RemoteReturns(t, v)
           \/ \E t \in Tasks, a \in Approvals : RemoteAsks(t, a)
           \/ \E a \in Approvals, d \in {"approved", "rejected"} : Decide(a, d)
           \/ Supersede
  BY <1>1, <1>5 DEF RemoteReturns, RemoteAsks, Decide, Supersede
<1>6. CASE \/ \E res \in {"completed", "failed", "other"} : JobGoesOn(res)
           \/ \E grade \in {"sufficient", "insufficient"} : Resume(grade)
           \/ \E b \in Approvals : NextOfBatch(b)
           \/ \E res \in {"completed", "failed"} : DirectDecided(res)
  BY <1>6 DEF JobGoesOn, Resume, NextOfBatch, DirectDecided, Says
<1>7. CASE Cancel \/ CutOff \/ Restart
  BY <1>1, <1>7 DEF Cancel, StopsProducer, CutOff, Restart, Says, Resting
<1> QED BY <1>2, <1>3, <1>4, <1>5, <1>6, <1>7 DEF Next

\* The parts of ControlOK that are about the driver alone.
Steady ==
  /\ asked \in Decisions \cup {<<>>}
  /\ pc \in {"deciding", "delegating", "gathering"} => round \in Rounds
  /\ pc \in JobSteps => /\ gate \in Approvals /\ approval[gate] \in {"approved", "rejected"}
                        /\ driver = "job"
  /\ pc \in Resting \cup JobSteps => script = <<>>
  /\ mode = "auto" => pc # "direct"
  /\ mode = "direct" =>
       /\ pc \notin {"host", "deciding", "delegating", "gathering", "evaluating", "resuming"}
       /\ driver = "job" => pc \in Resting \cup JobSteps

LEMMA NextSteady ==
  ASSUME TypeOK, ControlOK, Next
  PROVE  Steady'
<1>0. Steady /\ mode \in {"auto", "direct"}
  BY DEF ControlOK, Steady, TypeOK
<1>1. CASE Start
  <2>1. driver = "producer" /\ asked' = asked /\ driver' = driver /\ mode' = mode
        /\ pc' = IF mode = "auto" THEN "host" ELSE "direct"
    BY <1>1 DEF Start, Says, ControlOK
  <2> QED BY <1>0, <2>1 DEF Steady, Resting, JobSteps
<1>2. CASE OpenRound
  <2>1. round' \in Rounds
    BY <1>2, OpenRoundSays DEF OpenRound
  <2> QED BY <1>0, <1>2, <2>1 DEF OpenRound, Ready, Says, rows, views, back, Steady, Resting, JobSteps
<1>3. CASE Gather \/ HostFails
  BY <1>0, <1>3 DEF Gather, HostFails, Ready, Says, rows, views, back, plan, Steady, Resting, JobSteps
<1>4. CASE Close \/ Pause \/ Return
  BY <1>0, <1>4 DEF Close, Pause, Return, Ready, Says, rows, views, back, plan, Steady, Resting, JobSteps
<1>5. CASE Emit
  BY <1>0, <1>5 DEF Emit, plan, back, Steady
<1>6. CASE \E S \in Decisions : Delegate(S)
  BY <1>0, <1>6 DEF Delegate, Ready, Says, rows, views, back, Steady, Resting, JobSteps
<1>7. CASE \E action \in {"respond", "complete", "stop"}, breaks \in BOOLEAN :
             HostAnswers(action, breaks)
  BY <1>0, <1>7 DEF HostAnswers, Answer, Ready, Says, rows, views, back, plan, Steady, Resting, JobSteps
<1>8. CASE \E e \in ProgressEvents : Progress(e)
  BY <1>0, <1>8 DEF Progress, Ready, Says, rows, views, back, plan, Steady, Resting, JobSteps
<1>9. CASE \E again \in SUBSET Retried : Gathered(again)
  <2>1. pc = "gathering" /\ pc' \in {"pausing", "host"}
        /\ UNCHANGED <<mode, driver, round, asked, gate, approval>>
    BY <1>9 DEF Gathered, Ready, Says, plan, rows, back
  <2> QED BY <1>0, <2>1 DEF Steady, Resting, JobSteps
<1>10. CASE \E a \in Approvals : DirectAsks(a)
  <2>1. pc = "direct" /\ pc' = pc /\ UNCHANGED <<mode, driver, round, asked, gate>>
    BY <1>10 DEF DirectAsks, Ready, back
  <2> QED BY <1>0, <2>1 DEF Steady, Resting, JobSteps
<1>11. CASE \E how \in {"answered", "asked", "failed"}, says \in BOOLEAN : DirectEnds(how, says)
  <2>1. pc = "direct" /\ pc' \in {"ending", "pausing"}
        /\ UNCHANGED <<mode, driver, round, asked, gate, approval>>
    BY <1>11 DEF DirectEnds, Ready, Says, rows, back
  <2> QED BY <1>0, <2>1 DEF Steady, Resting, JobSteps
<1>12. CASE \E t \in Tasks, v \in {"sufficient", "insufficient", "failed"} : RemoteReturns(t, v)
  BY <1>0, <1>12 DEF RemoteReturns, rows, back, Steady
<1>13. CASE \E t \in Tasks, a \in Approvals : RemoteAsks(t, a)
  BY <1>0, <1>13 DEF RemoteAsks, back, Steady, TypeOK
<1>14. CASE \E a \in Approvals, d \in {"approved", "rejected"} : Decide(a, d)
  BY <1>0, <1>14 DEF Decide, plan, Steady, JobSteps, Resting, TypeOK
<1>15. CASE \E res \in {"completed", "failed", "other"} : JobGoesOn(res)
  BY <1>0, <1>15 DEF JobGoesOn, plan, back, Steady, JobSteps, Resting
<1>16. CASE \E grade \in {"sufficient", "insufficient"} : Resume(grade)
  BY <1>0, <1>16 DEF Resume, Says, Steady, JobSteps, Resting
<1>17. CASE \E b \in Approvals : NextOfBatch(b)
  BY <1>0, <1>17 DEF NextOfBatch, plan, Steady, JobSteps, Resting
<1>18. CASE \E res \in {"completed", "failed"} : DirectDecided(res)
  BY <1>0, <1>18 DEF DirectDecided, plan, Steady, JobSteps, Resting
<1>19. CASE Cancel
  BY <1>0, <1>19 DEF Cancel, StopsProducer, Says, plan, Steady, JobSteps, Resting
<1>20. CASE Supersede
  BY <1>0, <1>20 DEF Supersede, plan, Steady, JobSteps, Resting, TypeOK
<1>21. CASE CutOff
  BY <1>0, <1>21 DEF CutOff, Says, plan, Steady, JobSteps, Resting
<1>22. CASE Restart
  BY <1>0, <1>22 DEF Restart, Says, Steady, JobSteps, Resting
<1> QED BY <1>1, <1>2, <1>3, <1>4, <1>5, <1>6, <1>7, <1>8, <1>9, <1>10, <1>11, <1>12, <1>13,
           <1>14, <1>15, <1>16, <1>17, <1>18, <1>19, <1>20, <1>21, <1>22 DEF Next

LEMMA NextControl ==
  ASSUME TypeOK, ControlOK, [Next]_vars
  PROVE  ControlOK'
<1>1. CASE Next
  BY <1>1, NotIdle, NextSteady DEF ControlOK, Steady
<1>2. CASE UNCHANGED vars
  BY <1>2 DEF vars, ControlOK
<1> QED BY <1>1, <1>2

LEMMA ModeStays ==
  ASSUME [Next]_vars
  PROVE  mode' = mode
BY DEF Next, vars, Start, OpenRound, Gather, HostFails, Emit, Close, Pause, Return, Delegate,
       HostAnswers, Answer, Progress, RemoteReturns, RemoteAsks, Gathered, DirectAsks, DirectEnds,
       Decide, JobGoesOn, Resume, NextOfBatch, DirectDecided, Cancel, Supersede, CutOff, Restart

\* Says what fits.
LEMMA ScriptSays ==
  ASSUME mode' = mode, script' \in Seq(Events), \A e \in Told(script') : Fits(e, mode, exec')
  PROVE  ScriptOK'
BY DEF ScriptOK

LEMMA ScriptFromRoot ==
  ASSUME mode' = mode, FromRoot(script')
  PROVE  ScriptOK'
<1>1. script' \in Seq(Events)
  BY DEF FromRoot
<1>2. \A e \in Told(script') : Fits(e, mode, exec')
  BY FromRootFits
<1> QED BY <1>1, <1>2, ScriptSays

LEMMA ScriptStays ==
  ASSUME mode' = mode, ScriptOK, script' = <<>> \/ (script' = script /\ exec' = exec)
  PROVE  ScriptOK'
<1>1. CASE script' = <<>>
  <2>1. script' \in Seq(Events) /\ Told(script') = {}
    BY <1>1, Nothing
  <2> QED BY <2>1, ScriptSays
<1>2. CASE script' = script /\ exec' = exec
  <2>1. script' \in Seq(Events) /\ \A e \in Told(script') : Fits(e, mode, exec')
    BY <1>2 DEF ScriptOK
  <2> QED BY <2>1, ScriptSays
<1> QED BY <1>1, <1>2

LEMMA NextScript ==
  ASSUME TraceInv, [Next]_vars
  PROVE  ScriptOK'
<1>0. TypeOK /\ ControlOK /\ ScriptOK /\ ExecOK /\ ActiveOK /\ AgreeOK
  BY DEF TraceInv
<1>m. mode' = mode
  BY ModeStays
<1>1. CASE UNCHANGED vars
  BY <1>0, <1>m, <1>1, ScriptStays DEF vars
<1>2. CASE Start
  BY <1>0, <1>m, <1>2, StartSays, ScriptSays
<1>3. CASE OpenRound
  BY <1>0, <1>m, <1>3, OpenRoundSays, ScriptSays
<1>4. CASE Gather
  BY <1>0, <1>m, <1>4, ScriptStays DEF Gather, Ready
<1>5. CASE HostFails
  BY <1>m, <1>5, HostFailsSays, ScriptFromRoot
<1>6. CASE Emit
  <2>1. exec' = exec
    BY <1>6 DEF Emit, plan
  <2>2. script' \in Seq(Events) /\ Told(script') \subseteq Told(script)
    BY <1>0, <1>6, EmitTells
  <2>3. \A e \in Told(script') : Fits(e, mode, exec')
    BY <1>0, <2>1, <2>2 DEF ScriptOK
  <2> QED BY <1>m, <2>2, <2>3, ScriptSays
<1>7. CASE Close \/ Pause \/ Return
  BY <1>0, <1>m, <1>7, ScriptStays DEF Close, Pause, Return, Ready, Says
<1>8. CASE \E S \in Decisions : Delegate(S)
  BY <1>0, <1>m, <1>8, DelegateSays, ScriptSays
<1>9. CASE \E action \in {"respond", "complete", "stop"}, breaks \in BOOLEAN :
             HostAnswers(action, breaks)
  BY <1>0, <1>m, <1>9, HostAnswersSays, ScriptFromRoot
<1>10. CASE \E e \in ProgressEvents : Progress(e)
  BY <1>0, <1>m, <1>10, ProgressSays, ScriptSays
<1>11. CASE \E t \in Tasks, v \in {"sufficient", "insufficient", "failed"} : RemoteReturns(t, v)
  BY <1>0, <1>m, <1>11, ScriptStays DEF RemoteReturns
<1>12. CASE \E t \in Tasks, a \in Approvals : RemoteAsks(t, a)
  BY <1>0, <1>m, <1>12, ScriptStays DEF RemoteAsks
<1>13. CASE \E again \in SUBSET Retried : Gathered(again)
  BY <1>0, <1>m, <1>13, GatheredSays, ScriptSays
<1>14. CASE \E a \in Approvals : DirectAsks(a)
  BY <1>m, <1>14, DirectAsksSays, ScriptFromRoot
<1>15. CASE \E how \in {"answered", "asked", "failed"}, says \in BOOLEAN : DirectEnds(how, says)
  BY <1>m, <1>15, DirectEndsSays, ScriptFromRoot
<1>16. CASE \E a \in Approvals, d \in {"approved", "rejected"} : Decide(a, d)
  BY <1>0, <1>m, <1>16, ScriptStays DEF Decide, plan
<1>17. CASE \E res \in {"completed", "failed", "other"} : JobGoesOn(res)
  BY <1>0, <1>m, <1>17, ScriptStays DEF JobGoesOn, plan
<1>18. CASE \E grade \in {"sufficient", "insufficient"} : Resume(grade)
  <2>1. script' = <<>> \/ script' = <<RootEv("host.planning")>>
    BY <1>18 DEF Resume, Says
  <2>2. CASE script' = <<>>
    BY <1>0, <1>m, <2>2, ScriptStays
  <2>3. CASE script' = <<RootEv("host.planning")>>
    <3> DEFINE e == RootEv("host.planning")
    <3>1. e \in Events /\ e.type = "host.planning" /\ e.task = Root
      BY RootEvents
    <3>2. script' = <<e>>
      BY <2>3
    <3> HIDE DEF e
    <3>3. script' \in Seq(Events) /\ Told(script') = {e}
      BY <3>1, <3>2, One
    <3>4. Fits(e, mode, exec')
      BY <3>1, RootFits DEF TerminalType
    <3> QED BY <1>m, <3>3, <3>4, ScriptSays
  <2> QED BY <2>1, <2>2, <2>3
<1>19. CASE \E b \in Approvals : NextOfBatch(b)
  BY <1>0, <1>m, <1>19, ScriptStays DEF NextOfBatch, plan
<1>20. CASE \E res \in {"completed", "failed"} : DirectDecided(res)
  BY <1>0, <1>m, <1>20, ScriptStays DEF DirectDecided, plan
<1>21. CASE Cancel
  BY <1>0, <1>m, <1>21, ScriptStays DEF Cancel, StopsProducer, Says, plan
<1>22. CASE Supersede
  BY <1>0, <1>m, <1>22, ScriptStays DEF Supersede, plan
<1>23. CASE CutOff \/ Restart
  BY <1>0, <1>m, <1>23, ScriptStays DEF CutOff, Restart, Says
<1> QED BY <1>1, <1>2, <1>3, <1>4, <1>5, <1>6, <1>7, <1>8, <1>9, <1>10, <1>11, <1>12, <1>13,
           <1>14, <1>15, <1>16, <1>17, <1>18, <1>19, <1>20, <1>21, <1>22, <1>23 DEF Next

\* How an execution moves.
Moves(t) ==
  \/ exec'[t] = exec[t]
  \/ /\ exec[t] = "none" /\ exec'[t] = "running"
     /\ Gather \/ (Start /\ t = Root /\ mode = "direct")
  \/ /\ exec[t] = "running"
     /\ exec'[t] \in {"approval", "sufficient", "insufficient", "failed", "lost"}
     /\ exec'[t] = "approval" => \E a \in Approvals : approval'[a] = "pending" /\ TaskOf(a) = t
  \/ /\ exec'[t] = "settled"
     /\ (t = Root /\ mode = "direct") \/ (exec[t] \notin {"none", "running"} /\ mode = "auto")

LEMMA ExecMoves ==
  ASSUME TypeOK, ControlOK, ExecOK, ActiveOK, [Next]_vars, NEW t \in Tasks
  PROVE  Moves(t)
<1>0. Root \in Tasks /\ mode \in {"auto", "direct"}
  BY EventConstantsOK DEF TypeOK
<1>1. exec' = exec => Moves(t)
  BY DEF Moves
<1>2. CASE Start
  <2>1. mode = "direct" => exec' = [exec EXCEPT ![Root] = "running"]
    BY <1>2 DEF Start
  <2>2. mode = "auto" => exec' = exec
    BY <1>2 DEF Start
  <2>3. exec[t] = "none"
    BY <1>2 DEF Start, ControlOK
  <2> QED BY <1>0, <1>1, <1>2, <2>1, <2>2, <2>3 DEF Moves, TypeOK
<1>3. CASE Gather
  <2>1. exec' = [u \in Tasks |-> IF InSeq(asked, u) THEN "running" ELSE exec[u]]
    BY <1>3 DEF Gather
  <2>2. InSeq(asked, t) => exec[t] = "none"
    BY <1>3 DEF Gather, Ready, ExecOK, InSeq
  <2> QED BY <1>3, <2>1, <2>2 DEF Moves
<1>4. CASE UNCHANGED vars
  BY <1>1, <1>4 DEF vars
<1>5. CASE OpenRound \/ HostFails \/ Emit \/ Close \/ Pause \/ Return \/ Cancel \/ Supersede \/ CutOff
  BY <1>1, <1>5 DEF OpenRound, HostFails, Emit, Close, Pause, Return, Cancel, Supersede, CutOff, plan
<1>6. CASE \/ \E S \in Decisions : Delegate(S)
           \/ \E action \in {"respond", "complete", "stop"}, breaks \in BOOLEAN :
                HostAnswers(action, breaks)
           \/ \E e \in ProgressEvents : Progress(e)
           \/ \E again \in SUBSET Retried : Gathered(again)
           \/ \E a \in Approvals, d \in {"approved", "rejected"} : Decide(a, d)
           \/ \E res \in {"completed", "failed", "other"} : JobGoesOn(res)
           \/ \E b \in Approvals : NextOfBatch(b)
           \/ \E res \in {"completed", "failed"} : DirectDecided(res)
  BY <1>1, <1>6 DEF Delegate, HostAnswers, Answer, Progress, Gathered, Decide, JobGoesOn,
                    NextOfBatch, DirectDecided, plan
<1>7. CASE \E u \in Tasks, v \in {"sufficient", "insufficient", "failed"} : RemoteReturns(u, v)
  BY <1>7 DEF RemoteReturns, Moves, TypeOK
<1>8. CASE \E u \in Tasks, a \in Approvals : RemoteAsks(u, a)
  <2>1. PICK u \in Tasks, a \in Approvals : RemoteAsks(u, a)
    BY <1>8
  <2>2. approval'[a] = "pending" /\ TaskOf(a) = u
    BY <2>1 DEF RemoteAsks, TypeOK, TaskOf
  <2>3. exec[u] = "running" /\ exec' = [exec EXCEPT ![u] = "approval"]
    BY <2>1 DEF RemoteAsks
  <2> QED BY <2>2, <2>3 DEF Moves, TypeOK
<1>9. CASE \E a \in Approvals : DirectAsks(a)
  <2>1. PICK a \in Approvals : DirectAsks(a)
    BY <1>9
  <2>2. /\ approval'[a] = "pending" /\ exec[Root] = "running" /\ exec' = [exec EXCEPT ![Root] = "approval"]
        /\ view.tool[ApprovalTool[a]] = "working" /\ pc = "direct"
    BY <2>1 DEF DirectAsks, Ready, TypeOK
  <2>3. mode = "direct" /\ ApprovalTool[a] \in Tools
    BY <1>0, <2>2, EventConstantsOK DEF ControlOK
  <2>4. TaskOf(a) = Root
    BY <2>2, <2>3 DEF ExecOK, TaskOf
  <2> QED BY <1>0, <2>2, <2>4 DEF Moves, TypeOK
<1>10. CASE \E how \in {"answered", "asked", "failed"}, says \in BOOLEAN : DirectEnds(how, says)
  <2>1. \E st \in {exec[Root], "settled"} : exec' = [exec EXCEPT ![Root] = st]
    BY <1>10 DEF DirectEnds
  <2>2. mode = "direct"
    BY <1>0, <1>10 DEF DirectEnds, Ready, ControlOK
  <2> QED BY <1>0, <2>1, <2>2 DEF Moves, TypeOK
<1>11. CASE \E grade \in {"sufficient", "insufficient"} : Resume(grade)
  <2>1. exec' = [exec EXCEPT ![Gated] = "settled"] /\ mode = "auto"
    BY <1>11, ResumeTells
  <2>2. exec[Gated] \notin {"none", "running"}
    BY <1>11, GatedIs DEF Resume, JobSteps
  <2> QED BY <2>1, <2>2 DEF Moves, TypeOK
<1>12. CASE Restart
  BY <1>12 DEF Restart, Moves, TypeOK
<1> QED BY <1>2, <1>3, <1>4, <1>5, <1>6, <1>7, <1>8, <1>9, <1>10, <1>11, <1>12 DEF Next

\* How an approval moves, and with it the execution that raised it.
LEMMA CardsMove ==
  ASSUME TypeOK, ControlOK, ExecOK, ActiveOK, AgreeOK, [Next]_vars, NEW a \in Approvals
  PROVE  /\ approval[a] # "none" => approval'[a] # "none"
         /\ approval[a] = "none" /\ approval'[a] # "none" =>
              /\ approval'[a] = "pending" /\ exec'[TaskOf(a)] \notin {"none", "running"}
              /\ \/ \E t \in Tasks : RemoteAsks(t, a)
                 \/ DirectAsks(a)
                 \/ NextOfBatch(a)
<1> DEFINE Fine == /\ approval[a] # "none" => approval'[a] # "none"
                   /\ approval[a] = "none" /\ approval'[a] # "none" =>
                        /\ approval'[a] = "pending" /\ exec'[TaskOf(a)] \notin {"none", "running"}
                        /\ \/ \E t \in Tasks : RemoteAsks(t, a)
                           \/ DirectAsks(a)
                           \/ NextOfBatch(a)
<1>0. approval' = approval => Fine
  OBVIOUS
<1>1. CASE UNCHANGED vars
  BY <1>0, <1>1 DEF vars
<1>2. CASE Start \/ OpenRound \/ Gather \/ HostFails \/ Emit \/ Close \/ Pause \/ Return \/ Cancel
           \/ CutOff \/ Restart
  BY <1>0, <1>2 DEF Start, OpenRound, Gather, HostFails, Emit, Close, Pause, Return, Cancel, CutOff,
                    Restart, rows
<1>3. CASE \/ \E S \in Decisions : Delegate(S)
           \/ \E action \in {"respond", "complete", "stop"}, breaks \in BOOLEAN :
                HostAnswers(action, breaks)
           \/ \E e \in ProgressEvents : Progress(e)
           \/ \E t \in Tasks, v \in {"sufficient", "insufficient", "failed"} : RemoteReturns(t, v)
           \/ \E again \in SUBSET Retried : Gathered(again)
           \/ \E how \in {"answered", "asked", "failed"}, says \in BOOLEAN : DirectEnds(how, says)
           \/ \E res \in {"completed", "failed", "other"} : JobGoesOn(res)
           \/ \E grade \in {"sufficient", "insufficient"} : Resume(grade)
           \/ \E res \in {"completed", "failed"} : DirectDecided(res)
  BY <1>0, <1>3 DEF Delegate, HostAnswers, Answer, Progress, RemoteReturns, Gathered, DirectEnds,
                    JobGoesOn, Resume, DirectDecided, rows
<1>4. CASE Supersede
  <2>1. approval' = [c \in Approvals |-> IF approval[c] = "pending" THEN "rejected" ELSE approval[c]]
    BY <1>4 DEF Supersede
  <2> QED BY <2>1
<1>5. CASE \E c \in Approvals, d \in {"approved", "rejected"} : Decide(c, d)
  <2>1. PICK c \in Approvals, d \in {"approved", "rejected"} : Decide(c, d)
    BY <1>5
  <2>2. approval[c] = "pending" /\ approval' = [approval EXCEPT ![c] = d]
    BY <2>1 DEF Decide
  <2> QED BY <2>1, <2>2 DEF TypeOK
<1>6. CASE \E t \in Tasks, c \in Approvals : RemoteAsks(t, c)
  <2>1. PICK t \in Tasks, c \in Approvals : RemoteAsks(t, c)
    BY <1>6
  <2>2. /\ approval' = [approval EXCEPT ![c] = "pending"] /\ exec' = [exec EXCEPT ![t] = "approval"]
        /\ TaskOf(c) = t
    BY <2>1 DEF RemoteAsks, TaskOf
  <2>3. CASE a = c
    <3>1. approval'[a] = "pending" /\ exec'[TaskOf(a)] = "approval"
      BY <2>2, <2>3 DEF TypeOK
    <3> QED BY <2>1, <2>3, <3>1
  <2>4. CASE a # c
    BY <2>2, <2>4 DEF TypeOK
  <2> QED BY <2>3, <2>4
<1>7. CASE \E c \in Approvals : DirectAsks(c)
  <2>1. PICK c \in Approvals : DirectAsks(c)
    BY <1>7
  <2>2. /\ approval' = [approval EXCEPT ![c] = "pending"] /\ exec' = [exec EXCEPT ![Root] = "approval"]
        /\ view.tool[ApprovalTool[c]] = "working" /\ pc = "direct"
    BY <2>1 DEF DirectAsks, Ready
  <2>3. mode = "direct" /\ ApprovalTool[c] \in Tools /\ Root \in Tasks
    BY <2>2, EventConstantsOK DEF ControlOK, TypeOK
  <2>4. TaskOf(c) = Root
    BY <2>2, <2>3 DEF ExecOK, TaskOf
  <2>5. CASE a = c
    <3>1. approval'[a] = "pending" /\ exec'[TaskOf(a)] = "approval"
      BY <2>2, <2>3, <2>4, <2>5 DEF TypeOK
    <3> QED BY <2>1, <2>5, <3>1
  <2>6. CASE a # c
    BY <2>2, <2>6 DEF TypeOK
  <2> QED BY <2>5, <2>6
<1>8. CASE \E b \in Approvals : NextOfBatch(b)
  <2>1. PICK b \in Approvals : NextOfBatch(b)
    BY <1>8
  <2>2. /\ approval' = [approval EXCEPT ![b] = "pending"] /\ exec' = exec
        /\ TaskOf(b) = Gated /\ pc \in JobSteps
    BY <2>1 DEF NextOfBatch, TaskOf, plan, JobSteps
  <2>3. exec[Gated] \notin {"none", "running"}
    BY <2>2, GatedIs
  <2>4. CASE a = b
    <3>1. approval'[a] = "pending" /\ exec'[TaskOf(a)] \notin {"none", "running"}
      BY <2>2, <2>3, <2>4 DEF TypeOK
    <3> QED BY <2>1, <2>4, <3>1
  <2>5. CASE a # b
    BY <2>2, <2>5 DEF TypeOK
  <2> QED BY <2>4, <2>5
<1> QED BY <1>1, <1>2, <1>3, <1>4, <1>5, <1>6, <1>7, <1>8 DEF Next

\* The round that is being opened, and the one that is under way.
LEMMA RoundMoves ==
  ASSUME TypeOK, ControlOK, [Next]_vars
  PROVE  /\ pc' = "delegating" =>
              \/ \E S \in Decisions : Delegate(S)
              \/ pc = "delegating" /\ asked' = asked /\ ~Gather /\ (script' = script \/ Emit)
         /\ pc' = "gathering" => Gather \/ (pc = "gathering" /\ asked' = asked)
<1> DEFINE Fine == /\ pc' = "delegating" =>
                        \/ \E S \in Decisions : Delegate(S)
                        \/ pc = "delegating" /\ asked' = asked /\ ~Gather /\ (script' = script \/ Emit)
                   /\ pc' = "gathering" => Gather \/ (pc = "gathering" /\ asked' = asked)
<1>1. CASE UNCHANGED vars
  BY <1>1 DEF vars, Gather, Ready
<1>2. CASE Start \/ OpenRound \/ HostFails \/ Close \/ Pause \/ Return \/ Restart
  BY <1>2 DEF Start, OpenRound, HostFails, Close, Pause, Return, Restart, Says
<1>3. CASE Gather
  BY <1>3 DEF Gather
<1>4. CASE Emit
  BY <1>4 DEF Emit, plan, Gather, Ready
<1>5. CASE \/ \E S \in Decisions : Delegate(S)
           \/ \E action \in {"respond", "complete", "stop"}, breaks \in BOOLEAN :
                HostAnswers(action, breaks)
           \/ \E again \in SUBSET Retried : Gathered(again)
           \/ \E how \in {"answered", "asked", "failed"}, says \in BOOLEAN : DirectEnds(how, says)
  BY <1>5 DEF Delegate, HostAnswers, Answer, Gathered, DirectEnds, Says
<1>6. CASE \E e \in ProgressEvents : Progress(e)
  BY <1>6 DEF Progress, Ready, plan
<1>7. CASE \/ \E t \in Tasks, v \in {"sufficient", "insufficient", "failed"} : RemoteReturns(t, v)
           \/ \E t \in Tasks, a \in Approvals : RemoteAsks(t, a)
  BY <1>7 DEF RemoteReturns, RemoteAsks, Gather, Ready
<1>8. CASE \E a \in Approvals : DirectAsks(a)
  BY <1>8 DEF DirectAsks, Ready
<1>9. CASE \/ \E a \in Approvals, d \in {"approved", "rejected"} : Decide(a, d)
           \/ \E res \in {"completed", "failed", "other"} : JobGoesOn(res)
           \/ \E grade \in {"sufficient", "insufficient"} : Resume(grade)
           \/ \E b \in Approvals : NextOfBatch(b)
           \/ \E res \in {"completed", "failed"} : DirectDecided(res)
  BY <1>9 DEF Decide, JobGoesOn, Resume, NextOfBatch, DirectDecided, Says
<1>10. CASE Cancel
  BY <1>10 DEF Cancel, CancelRun, StopsProducer, Says, plan, Gather, Ready
<1>11. CASE Supersede
  BY <1>11 DEF Supersede, plan, Gather, Ready
<1>12. CASE CutOff
  BY <1>12 DEF CutOff, Says
<1> QED BY <1>1, <1>2, <1>3, <1>4, <1>5, <1>6, <1>7, <1>8, <1>9, <1>10, <1>11, <1>12 DEF Next

\* The decision that is being carried out.
LEMMA JobMoves ==
  ASSUME TypeOK, ControlOK, [Next]_vars, pc' \in {"evaluating", "resuming"}
  PROVE  /\ gate' = gate
         /\ \/ \E res \in {"completed", "failed", "other"} : JobGoesOn(res)
            \/ pc \in {"evaluating", "resuming"} /\ (CancelRun \/ UNCHANGED views)
<1>1. CASE UNCHANGED vars
  BY <1>1 DEF vars, views
<1>2. CASE Start \/ OpenRound \/ Gather \/ HostFails \/ Close \/ Pause \/ Return \/ Restart
  BY <1>2 DEF Start, OpenRound, Gather, HostFails, Close, Pause, Return, Restart, Says
<1>3. CASE Emit
  BY <1>3 DEF Emit, ControlOK, JobSteps
<1>4. CASE \/ \E S \in Decisions : Delegate(S)
           \/ \E action \in {"respond", "complete", "stop"}, breaks \in BOOLEAN :
                HostAnswers(action, breaks)
           \/ \E again \in SUBSET Retried : Gathered(again)
           \/ \E how \in {"answered", "asked", "failed"}, says \in BOOLEAN : DirectEnds(how, says)
  BY <1>4 DEF Delegate, HostAnswers, Answer, Gathered, DirectEnds, Says
<1>5. CASE \/ \E e \in ProgressEvents : Progress(e)
           \/ \E a \in Approvals : DirectAsks(a)
  BY <1>5 DEF Progress, DirectAsks, Ready
<1>6. CASE \/ \E t \in Tasks, v \in {"sufficient", "insufficient", "failed"} : RemoteReturns(t, v)
           \/ \E t \in Tasks, a \in Approvals : RemoteAsks(t, a)
           \/ Supersede
  BY <1>6 DEF RemoteReturns, RemoteAsks, Supersede, back
<1>7. CASE \E res \in {"completed", "failed", "other"} : JobGoesOn(res)
  BY <1>7 DEF JobGoesOn, back
<1>8. CASE \/ \E a \in Approvals, d \in {"approved", "rejected"} : Decide(a, d)
           \/ \E grade \in {"sufficient", "insufficient"} : Resume(grade)
           \/ \E b \in Approvals : NextOfBatch(b)
           \/ \E res \in {"completed", "failed"} : DirectDecided(res)
  BY <1>8 DEF Decide, Resume, NextOfBatch, DirectDecided, Says
<1>9. CASE Cancel \/ CutOff
  BY <1>9 DEF Cancel, CutOff, StopsProducer, Says
<1> QED BY <1>1, <1>2, <1>3, <1>4, <1>5, <1>6, <1>7, <1>8, <1>9 DEF Next

\* A decision marks its card, and nothing else of the view.
LEMMA DecideIs ==
  ASSUME ViewOK(view), NEW a \in Approvals, NEW d, Decide(a, d)
  PROVE  /\ ViewOK(view') /\ view'.task = view.task /\ view'.tool = view.tool
         /\ view'.round = view.round /\ view'.run = view.run
         /\ view'.message = view.message /\ view'.thinking = view.thinking
         /\ view'.order = view.order /\ view'.rounds = view.rounds /\ view'.mode = view.mode
         /\ stage' = stage /\ feed' = feed /\ row' = row /\ exec' = exec
         /\ \A b \in Approvals : b # a => view'.approval[b] = view.approval[b]
<1>1. /\ view' = [view EXCEPT !.approval[a] = IF mode = "auto" THEN "executing" ELSE @]
      /\ stage' = stage /\ feed' = feed /\ row' = row /\ exec' = exec
  BY DEF Decide, plan
<1>2. RecordOK(view')
  BY <1>1 DEF ViewOK, RecordOK, Fields
<1>3. /\ view'.task = view.task /\ view'.tool = view.tool
      /\ view'.round = view.round /\ view'.run = view.run
      /\ view'.message = view.message /\ view'.thinking = view.thinking
      /\ view'.order = view.order /\ view'.rounds = view.rounds /\ view'.mode = view.mode
  BY <1>1 DEF ViewOK, RecordOK, Fields
<1>4. view'.approval = [view.approval EXCEPT ![a] = IF mode = "auto" THEN "executing" ELSE @]
  BY <1>1 DEF ViewOK, RecordOK, Fields
<1>5. view'.approval \in [Approvals -> CardStates]
  BY <1>4 DEF ViewOK, CardStates
<1>6. ViewOK(view')
  BY <1>2, <1>3, <1>5 DEF ViewOK
<1>7. \A b \in Approvals : b # a => view'.approval[b] = view.approval[b]
  BY <1>4 DEF ViewOK
<1> QED BY <1>1, <1>3, <1>6, <1>7

LEMMA NextViews ==
  ASSUME TraceInv, [Next]_vars
  PROVE  ViewsOK'
<1>1. ViewOK(view) /\ FeedOK(feed) /\ row \in Rows
  BY DEF TraceInv, ViewsOK, TypeOK, Rows, RowStates
<1>2. CASE \E q : Tells(q)
  <2>1. ViewOK(view') /\ FeedOK(feed')
    BY <1>1, <1>2, TellsKeepsTypes
  <2> QED BY <2>1 DEF ViewsOK
<1>3. CASE \E a \in Approvals, d \in {"approved", "rejected"} : Decide(a, d)
  <2>1. ViewOK(view') /\ feed' = feed
    BY <1>1, <1>3, DecideIs
  <2> QED BY <1>1, <2>1 DEF ViewsOK
<1> QED BY <1>2, <1>3, NextTells

LEMMA NextAgrees ==
  ASSUME TraceInv, [Next]_vars
  PROVE  AgreeOK'
<1>1. ViewOK(view) /\ FeedOK(feed) /\ row \in Rows /\ AgreeOK
  BY DEF TraceInv, ViewsOK, TypeOK, Rows, RowStates
<1>2. ASSUME NEW t \in Children
      PROVE  TaskOK(view', stage', feed', row', t)
  <2>1. CASE \E q : Tells(q)
    BY <1>1, <2>1, TellsKeepsAgreement
  <2>2. CASE \E a \in Approvals, d \in {"approved", "rejected"} : Decide(a, d)
    <3>1. /\ view'.task = view.task /\ view'.tool = view.tool /\ view'.thinking = view.thinking
          /\ stage' = stage /\ feed' = feed /\ row' = row
      BY <1>1, <2>2, DecideIs
    <3>2. TaskOK(view, stage, feed, row, t)
      BY <1>1 DEF AgreeOK
    <3> QED BY <3>1, <3>2 DEF TaskOK, TaskAgrees, RunningCalls
  <2> QED BY <2>1, <2>2, NextTells
<1> QED BY <1>2 DEF AgreeOK

LEMMA NextReports ==
  ASSUME TraceInv, [Next]_vars, NEW t \in Children
  PROVE  /\ view'.message[t] = "report" => exec'[t] \notin {"none", "running"}
         /\ view.message[t] = "report" => view'.message[t] = "report"
<1>1. /\ TypeOK /\ ControlOK /\ ExecOK /\ ActiveOK /\ ViewOK(view)
      /\ view.message[t] = "report" => exec[t] \notin {"none", "running"}
  BY DEF TraceInv, ViewsOK, ReportsOK
<1>2. Moves(t) /\ t \in Tasks
  BY <1>1, ExecMoves DEF Children
<1>3. exec[t] \notin {"none", "running"} => exec'[t] \notin {"none", "running"}
  BY <1>2 DEF Moves
<1>4. CASE \E q : Tells(q)
  BY <1>1, <1>3, <1>4, TellsKeepsReports
<1>5. CASE \E a \in Approvals, d \in {"approved", "rejected"} : Decide(a, d)
  <2>1. view'.message = view.message
    BY <1>1, <1>5, DecideIs
  <2> QED BY <1>1, <1>3, <2>1
<1> QED BY <1>4, <1>5, NextTells

LEMMA NextExec ==
  ASSUME TraceInv, [Next]_vars
  PROVE  ExecOK'
<1>0. /\ TypeOK /\ ControlOK /\ ExecOK /\ ActiveOK /\ AgreeOK /\ ViewOK(view)
      /\ mode' = mode /\ Root \in Tasks /\ mode \in {"auto", "direct"}
  BY ModeStays, EventConstantsOK DEF TraceInv, ViewsOK, TypeOK
<1>1. ASSUME NEW t \in Tasks PROVE Moves(t)
  BY <1>0, ExecMoves
<1>2. ASSUME NEW a \in Approvals, approval'[a] # "none"
      PROVE  exec'[TaskOf(a)] \notin {"none", "running"}
  <2>1. TaskOf(a) \in Tasks
    BY TasksOf
  <2>2. CASE approval[a] = "none"
    BY <1>0, <1>2, <2>2, CardsMove
  <2>3. CASE approval[a] # "none"
    <3>1. exec[TaskOf(a)] \notin {"none", "running"}
      BY <1>0, <2>3 DEF ExecOK
    <3>2. Moves(TaskOf(a))
      BY <1>1, <2>1
    <3> QED BY <3>1, <3>2 DEF Moves
  <2> QED BY <2>2, <2>3
<1>3. ASSUME NEW t \in Tasks, exec'[t] = "approval"
      PROVE  \E a \in Approvals : approval'[a] # "none" /\ TaskOf(a) = t
  <2>1. Moves(t)
    BY <1>1
  <2>2. CASE exec[t] = "approval"
    <3>1. PICK a \in Approvals : approval[a] # "none" /\ TaskOf(a) = t
      BY <1>0, <2>2 DEF ExecOK
    <3>2. approval'[a] # "none"
      BY <1>0, <3>1, CardsMove
    <3> QED BY <3>1, <3>2
  <2>3. CASE exec[t] # "approval"
    <3>1. \E a \in Approvals : approval'[a] = "pending" /\ TaskOf(a) = t
      BY <1>3, <2>1, <2>3 DEF Moves
    <3> QED BY <3>1
  <2> QED BY <2>2, <2>3
<1>4. ASSUME NEW t \in Tasks, exec[t] = "none", exec'[t] # "none"
      PROVE  \/ Gather /\ InSeq(asked, t) /\ t \in Children /\ mode = "auto"
             \/ t = Root /\ mode = "direct"
  <2>1. Moves(t)
    BY <1>1
  <2>2. CASE t = Root /\ mode = "direct"
    BY <2>2
  <2>3. CASE ~(t = Root /\ mode = "direct")
    <3>1. Gather
      BY <1>4, <2>1, <2>3 DEF Moves
    <3>2. InSeq(asked, t)
      BY <1>4, <3>1 DEF Gather
    <3>3. t \in Children
      BY <1>0, <3>2, AskedAre DEF InSeq
    <3>4. mode = "auto"
      BY <1>0, <3>1 DEF Gather, Ready, ControlOK
    <3> QED BY <3>1, <3>2, <3>3, <3>4
  <2> QED BY <2>2, <2>3
<1>5. mode = "auto" => exec'[Root] = "none"
  BY <1>0, <1>4 DEF ExecOK, Children
<1>6. ASSUME mode = "direct", NEW t \in Children PROVE exec'[t] = "none"
  BY <1>0, <1>4, <1>6 DEF ExecOK, Children
<1>7. ASSUME mode = "direct", NEW x \in Tools, view'.tool[x] # "none" PROVE ToolTask[x] = Root
  <2>1. \A y \in Tools : view.tool[y] # "none" => ToolTask[y] = Root
    BY <1>0, <1>7 DEF ExecOK
  <2>2. CASE \E q : Tells(q)
    BY <1>0, <1>7, <2>1, <2>2, TellsKeepsCalls
  <2>3. CASE \E a \in Approvals, d \in {"approved", "rejected"} : Decide(a, d)
    <3>1. view'.tool = view.tool
      BY <1>0, <2>3, DecideIs
    <3> QED BY <1>7, <2>1, <3>1
  <2> QED BY <2>2, <2>3, NextTells
<1>8. ASSUME pc' = "delegating", NEW i \in DOMAIN asked'
      PROVE  exec'[asked'[i]] = "none"
  <2>1. CASE \E S \in Decisions : Delegate(S)
    BY <1>8, <2>1 DEF Delegate
  <2>2. CASE pc = "delegating" /\ asked' = asked /\ ~Gather
    <3>1. asked[i] \in Children /\ asked[i] \in Tasks /\ exec[asked[i]] = "none"
      BY <1>0, <1>8, <2>2, AskedAre DEF ExecOK
    <3>2. asked[i] # Root
      BY <3>1 DEF Children
    <3> QED BY <1>4, <2>2, <3>1, <3>2
  <2> QED BY <1>0, <1>8, <2>1, <2>2, RoundMoves
<1>9. ASSUME pc' = "gathering", NEW i \in DOMAIN asked'
      PROVE  exec'[asked'[i]] # "none"
  <2>1. CASE Gather
    <3>1. asked' = asked /\ exec' = [t \in Tasks |-> IF InSeq(asked, t) THEN "running" ELSE exec[t]]
      BY <2>1 DEF Gather
    <3>2. asked[i] \in Tasks /\ InSeq(asked, asked[i])
      BY <1>0, <1>9, <3>1, AskedAre DEF InSeq
    <3> QED BY <3>1, <3>2
  <2>2. CASE pc = "gathering" /\ asked' = asked
    <3>1. asked[i] \in Tasks /\ exec[asked[i]] # "none"
      BY <1>0, <1>9, <2>2, AskedAre DEF ExecOK
    <3>2. Moves(asked[i])
      BY <1>1, <3>1
    <3> QED BY <2>2, <3>1, <3>2 DEF Moves
  <2> QED BY <1>0, <1>9, <2>1, <2>2, RoundMoves
<1> QED BY <1>0, <1>2, <1>3, <1>5, <1>6, <1>7, <1>8, <1>9 DEF ExecOK

LEMMA NextActive ==
  ASSUME TraceInv, [Next]_vars
  PROVE  ActiveOK'
<1>0. /\ TypeOK /\ ControlOK /\ ScriptOK /\ ExecOK /\ ActiveOK /\ AgreeOK /\ ViewOK(view)
      /\ Root \in Tasks /\ mode \in {"auto", "direct"}
  BY EventConstantsOK DEF TraceInv, ViewsOK, TypeOK
<1>1. ASSUME NEW t \in Children, t \in stage.active, exec'[t] \in {"none", "running", "approval"}
      PROVE  t \in stage'.active
  <2>1. CASE \E q : Tells(q)
    BY <1>1, <2>1, TellsKeepsActive
  <2>2. CASE \E a \in Approvals, d \in {"approved", "rejected"} : Decide(a, d)
    BY <1>0, <1>1, <2>2, DecideIs
  <2> QED BY <2>1, <2>2, NextTells
<1>2. ASSUME NEW t \in Children, exec'[t] \in {"running", "approval"}
      PROVE  t \in stage'.active
  <2>1. Moves(t) /\ t # Root /\ t \in Tasks
    BY <1>0, ExecMoves DEF Children
  <2>2. CASE exec[t] \in {"running", "approval"}
    BY <1>0, <1>1, <1>2, <2>2 DEF ActiveOK
  <2>3. CASE exec[t] \notin {"running", "approval"}
    <3>1. Gather /\ exec[t] = "none" /\ exec'[t] = "running"
      BY <1>2, <2>1, <2>3 DEF Moves
    <3>2. pc = "delegating" /\ script = <<>> /\ stage' = stage /\ InSeq(asked, t)
      BY <2>1, <3>1 DEF Gather, Ready, views
    <3>3. Told(script) = {}
      BY <3>2, Nothing
    <3> QED BY <1>0, <3>2, <3>3 DEF ActiveOK, InSeq, About
  <2> QED BY <2>2, <2>3
<1>3. ASSUME pc' = "delegating", NEW i \in DOMAIN asked'
      PROVE  asked'[i] \in stage'.active \/ About(script', {"task.delegated"}, asked'[i])
  <2>1. CASE \E S \in Decisions : Delegate(S)
    <3>1. PICK S \in Decisions : Delegate(S)
      BY <2>1
    <3>2. asked' = S
      BY <3>1 DEF Delegate
    <3> QED BY <1>0, <1>3, <3>1, <3>2, DelegateSays
  <2>2. CASE pc = "delegating" /\ asked' = asked /\ ~Gather /\ (script' = script \/ Emit)
    <3>1. /\ asked[i] \in Children /\ exec[asked[i]] = "none"
          /\ asked[i] \in stage.active \/ About(script, {"task.delegated"}, asked[i])
      BY <1>0, <1>3, <2>2, AskedAre DEF ExecOK, ActiveOK
    <3> DEFINE t == asked[i]
    <3>2. t \in Children /\ exec[t] = "none" /\ t # Root /\ t \in Tasks
          /\ (t \in stage.active \/ About(script, {"task.delegated"}, t)) /\ asked'[i] = t
      BY <2>2, <3>1 DEF Children
    <3> HIDE DEF t
    <3>3. exec'[t] = "none"
      BY <1>0, <2>2, <3>2, ExecMoves DEF Moves
    <3>4. CASE script' = script
      BY <1>1, <3>2, <3>3, <3>4
    <3>5. CASE Emit
      <4>1. PICK q : Tells(q) /\ Told(script) = Told(q) \cup Told(script')
        BY <1>0, <3>5, EmitTells
      <4>2. About(script, {"task.delegated"}, t) =>
              About(q, {"task.delegated"}, t) \/ About(script', {"task.delegated"}, t)
        BY <4>1 DEF About
      <4>3. t \in stage.active \/ About(q, {"task.delegated"}, t) => t \in stage'.active
        BY <3>2, <3>3, <4>1, TellsKeepsActive
      <4> QED BY <3>2, <4>2, <4>3
    <3> QED BY <2>2, <3>4, <3>5
  <2> QED BY <1>0, <1>3, <2>1, <2>2, RoundMoves
<1>4. ASSUME pc' \in {"evaluating", "resuming"}
      PROVE  Gated' \in stage'.active
  <2>1. Gated' = Gated
    BY <1>0, <1>4, JobMoves DEF Gated
  <2>2. CASE \E res \in {"completed", "failed", "other"} : JobGoesOn(res)
    <3>1. /\ pc \in JobSteps /\ mode = "auto" /\ stage' = stage
          /\ row[Gated] = "approval_required"
      BY <1>4, <2>2 DEF JobGoesOn, JobSteps, views
    <3>2. Gated \in Children
      BY <1>0, <3>1, GatedIs
    <3>3. Gated \in stage.active
      BY <1>0, <3>1, <3>2 DEF AgreeOK, TaskOK
    <3> QED BY <2>1, <3>1, <3>3
  <2>3. CASE pc \in {"evaluating", "resuming"} /\ (CancelRun \/ UNCHANGED views)
    <3>1. Gated \in stage.active /\ Gated \in Children
      <4>1. pc \in JobSteps /\ mode = "auto"
        BY <1>0, <2>3 DEF JobSteps, ControlOK
      <4> QED BY <1>0, <2>3, <4>1, GatedIs DEF ActiveOK
    <3>2. CASE UNCHANGED views
      BY <2>1, <3>1, <3>2 DEF views
    <3>3. CASE CancelRun
      <4>1. PICK q : Tells(q) /\ Silent(q, Gated)
        BY <1>0, <3>1, <3>3, CancelTells
      <4>2. q \in Seq(Events) /\ stage' = StageAfter(stage, q) /\ Gated \in Tasks
        BY <3>1, <4>1 DEF Tells, Children
      <4>3. ~About(q, Shuts, Gated)
        BY <4>1 DEF Silent, About
      <4> QED BY <2>1, <3>1, <4>2, <4>3, AfterActive
    <3> QED BY <2>3, <3>2, <3>3
  <2> QED BY <1>0, <1>4, <2>2, <2>3, JobMoves
<1> QED BY <1>2, <1>3, <1>4 DEF ActiveOK

-----------------------------------------------------------------------------
(***************************************************************************)
(* Theorems.                                                               *)
(***************************************************************************)
LEMMA InitInv == Init => TraceInv
<1> SUFFICES ASSUME Init PROVE TraceInv
  OBVIOUS
<1>1. TypeOK
  <2>1. /\ mode \in {"auto", "direct"} /\ pc = "idle" /\ driver = "producer" /\ round = 0
        /\ failing = FALSE /\ run = "none" /\ evaluated = {} /\ gate = NoData /\ fate = {}
        /\ exec = [t \in Tasks |-> "none"] /\ row = [t \in Tasks |-> "none"]
        /\ approval = [a \in Approvals |-> "none"]
    BY DEF Init
  <2>2. 0 \in 0..MaxRounds
    BY TraceConstantsOK
  <2> QED BY <2>1, <2>2 DEF TypeOK, Resting
<1>2. ViewsOK
  <2>1. FeedOK(EmptyFeed)
    BY DEF FeedOK, EmptyFeed, FeedNames
  <2> QED BY <2>1, EmptyViewOK DEF Init, ViewsOK
<1>3. ControlOK
  BY DEF Init, ControlOK, Resting, JobSteps
<1>4. ScriptOK
  BY Nothing DEF Init, ScriptOK
<1>5. ExecOK
  BY EventConstantsOK, TasksOf DEF Init, ExecOK, Children, EmptyView
<1>6. ActiveOK
  BY DEF Init, ActiveOK, Children
<1>7. ReportsOK
  BY DEF Init, ReportsOK, EmptyView, Children
<1>8. AgreeOK
  <2>1. ASSUME NEW t \in Children PROVE TaskOK(view, stage, feed, row, t)
    <3>1. t \in Tasks /\ row[t] = "none" /\ view.task[t] = "none" /\ stage.active = {}
      BY DEF Init, Children, EmptyView, EmptyStage
    <3> QED BY <3>1 DEF TaskOK, TaskAgrees, Closed, InProgress
  <2> QED BY <2>1 DEF AgreeOK
<1> QED BY <1>1, <1>2, <1>3, <1>4, <1>5, <1>6, <1>7, <1>8 DEF TraceInv

LEMMA NextInv == TraceInv /\ [Next]_vars => TraceInv'
<1> SUFFICES ASSUME TraceInv, [Next]_vars PROVE TraceInv'
  OBVIOUS
<1>1. ReportsOK'
  BY NextReports DEF ReportsOK
<1>2. ControlOK'
  BY NextControl DEF TraceInv
<1> QED BY <1>1, <1>2, NextTypes, NextViews, NextScript, NextExec, NextActive, NextAgrees DEF TraceInv

\* The state of a Run keeps its type, and with it the parts of the invariant that
\* tie the drivers, the executions and the views together.
THEOREM TraceIsInvariant == Spec => []TraceInv
BY InitInv, NextInv, PTL DEF Spec

\* A driver, an execution or a row is never in a state the model does not name.
THEOREM TraceTypes == Spec => []TypeOK
<1>1. TraceInv => TypeOK
  BY DEF TraceInv
<1> QED BY <1>1, TraceIsInvariant, PTL

\* When the row of a delegated task is closed, the trace shows no call of it as
\* running and no reasoning, and the event feed the same end: whatever order the
\* events of the round came in, and whoever wrote them.
THEOREM ReportsClose == Spec => []ReportedTasksAreClosed
<1>1. TraceInv => ReportedTasksAreClosed
  BY DEF TraceInv, AgreeOK, TaskOK, TaskAgrees, ReportedTasksAreClosed
<1> QED BY <1>1, TraceIsInvariant, PTL

\* The stage, which keeps an account of its own, names as active every task that
\* the trace shows at work or waiting, and none whose row has ended.
THEOREM StageMatches == Spec => []StageMatchesTrace
<1>1. TraceInv => StageMatchesTrace
  BY DEF TraceInv, AgreeOK, TaskOK, TaskAgrees, StageMatchesTrace, StageActive
<1> QED BY <1>1, TraceIsInvariant, PTL

\* No event that comes after the report of an agent takes it back.
THEOREM ReportsStay == Spec => AgentReportsStay
<1>1. TraceInv /\ [Next]_vars => [VisibleMessages(view) \cap Children \subseteq VisibleMessages(view')]_vars
  <2> SUFFICES ASSUME TraceInv, [Next]_vars
               PROVE  VisibleMessages(view) \cap Children \subseteq VisibleMessages(view')
    OBVIOUS
  <2> QED BY NextReports DEF VisibleMessages
<1> QED BY <1>1, TraceIsInvariant, PTL DEF Spec, AgentReportsStay

-----------------------------------------------------------------------------
(***************************************************************************)
(* How a Run ends: nothing is left in progress in a trace that is over.    *)
(***************************************************************************)

\* A driver that goes on to a step where nothing waits.
LEMMA QuietlyOn ==
  ASSUME QuietOK, UNCHANGED views, driver' = driver, pc \notin Resting \/ view = EmptyView,
         pc' \notin Resting \cup {"pausing", "direct"}
  PROVE  QuietOK'
<1>1. view' = view /\ (driver = "producer" => view.run \notin TerminalStatus)
  BY DEF QuietOK, EmptyView, TerminalStatus, views
<1>2. ~Waiting' /\ ~AtRest' /\ pc' # "pausing"
  BY DEF Waiting, AtRest, Resting
<1> QED BY <1>1, <1>2 DEF QuietOK

\* A step that changes neither the driver nor the views.
LEMMA QuietlyAside ==
  ASSUME QuietOK, UNCHANGED <<view, pc, driver, script>>, pc = "direct" => exec'[Root] = exec[Root]
  PROVE  QuietOK'
<1>1. Waiting' => Waiting
  BY DEF Waiting
<1>2. Asking' <=> Asking
  BY DEF Asking
<1>3. AtRest' <=> AtRest
  BY DEF AtRest
<1> QED BY <1>1, <1>2, <1>3 DEF QuietOK

\* A step that ends the Run in its log.
LEMMA QuietlyOver ==
  ASSUME ViewOK(view), FeedOK(feed), NEW q, Tells(q), NEW ty \in TerminalType, LastSays(q, ty)
  PROVE  /\ view'.run = StatusOf(ty) /\ Settled(view')
         /\ stage'.latest = ty /\ feed'.run = FeedState(ty)
<1>1. /\ q \in Seq(Events) /\ view' = ViewAfter(view, q) /\ stage' = StageAfter(stage, q)
      /\ feed' = FeedAfter(feed, q) /\ Len(q) > 0 /\ q[Len(q)].type = ty
  BY DEF Tells, LastSays
<1>2. /\ ViewAfter(view, q).run = StatusOf(ty) /\ Settled(ViewAfter(view, q))
      /\ StageAfter(stage, q).latest = ty /\ FeedAfter(feed, q).run = FeedState(ty)
  BY <1>1, AfterEnd
<1> QED BY <1>1, <1>2

\* What the driver writes while it is at work does not end the Run.
LEMMA EmitRun ==
  ASSUME TypeOK, ScriptOK, ActiveOK, ViewOK(view), Emit
  PROVE  /\ view.run \notin TerminalStatus => view'.run \notin TerminalStatus
         /\ (\A e \in Told(script) : e.type \notin RunSays) =>
              /\ \A e \in Told(script') : e.type \notin RunSays
              /\ driver = "job" /\ Asking => view'.run = "approval_required"
              /\ view.run = "approval_required" \/ Asking =>
                   view'.run = "approval_required" \/ Asking'
         /\ \A a \in Approvals : view.approval[a] = "pending" \/ Required(script, a) =>
              view'.approval[a] = "pending" \/ Required(script', a)
<1>1. PICK q : /\ Tells(q)
               /\ Told(script) = Told(q) \cup Told(script') /\ script' \in Seq(Events)
               /\ driver = "job" => q = script /\ script' = <<>>
  BY EmitTells
<1>2. q \in Seq(Events) /\ view' = ViewAfter(view, q)
  BY <1>1 DEF Tells
<1>3. \A e \in Told(q) : e.type \notin TerminalType \cup {"approval.decided"}
  BY <1>1 DEF ScriptOK, Fits
<1> DEFINE w == ViewAfter(view, q)
           Asks1 == \E e \in Told(q) : e.type = "approval.required"
           Calm == \A e \in Told(q) : e.type \notin RunSays
<1>4. /\ view.run \notin TerminalStatus => w.run \notin TerminalStatus
      /\ Calm => w.run = IF Asks1 THEN "approval_required" ELSE view.run
  BY <1>2, <1>3, AfterRun
<1>5. ASSUME NEW a \in Approvals, view.approval[a] = "pending" \/ Required(script, a)
      PROVE  w.approval[a] = "pending" \/ Required(script', a)
  <2>1. ~Answered(q, a)
    BY <1>3 DEF Answered
  <2>2. Required(script, a) => Required(q, a) \/ Required(script', a)
    BY <1>1 DEF Required
  <2> QED BY <1>2, <1>5, <2>1, <2>2, AfterCards
<1>6. Asking => Asks1 \/ Asking'
  BY <1>1 DEF Asking
<1>7. driver = "job" /\ Asking => Asks1
  BY <1>1 DEF Asking
<1>8. (\A e \in Told(script) : e.type \notin RunSays) => Calm /\ \A e \in Told(script') : e.type \notin RunSays
  BY <1>1
<1> HIDE DEF w, Asks1, Calm
<1> QED BY <1>2, <1>4, <1>5, <1>6, <1>7, <1>8 DEF w

\* A step of a driver at work that writes nothing to the log.
LEMMA QuietlyTo ==
  ASSUME QuietOK, UNCHANGED views, driver' = driver, pc \notin Resting \/ view = EmptyView,
         pc' \notin Resting,
         Waiting' => \A e \in Told(script') : e.type \notin RunSays,
         driver = "job" /\ pc' = "pausing" => Asking'
  PROVE  QuietOK'
<1>1. view' = view /\ (driver = "producer" => view.run \notin TerminalStatus)
  BY DEF QuietOK, EmptyView, TerminalStatus, views
<1>2. ~AtRest'
  BY DEF AtRest
<1> QED BY <1>1, <1>2 DEF QuietOK

LEMMA QuietPlan ==
  ASSUME TraceInv, QuietOK,
         \/ Start \/ OpenRound \/ Gather \/ HostFails
         \/ \E S \in Decisions : Delegate(S)
         \/ \E action \in {"respond", "complete", "stop"}, breaks \in BOOLEAN :
              HostAnswers(action, breaks)
         \/ \E e \in ProgressEvents : Progress(e)
         \/ \E again \in SUBSET Retried : Gathered(again)
         \/ \E a \in Approvals : DirectAsks(a)
         \/ \E how \in {"answered", "asked", "failed"}, says \in BOOLEAN : DirectEnds(how, says)
  PROVE  QuietOK'
<1>0. TypeOK /\ ControlOK /\ ExecOK /\ Root \in Tasks /\ exec \in [Tasks -> {exec[t] : t \in Tasks}]
  BY EventConstantsOK DEF TraceInv, TypeOK
<1>1. CASE Start
  <2>1. /\ UNCHANGED views /\ driver' = driver /\ view = EmptyView
        /\ pc' \in {"host", "direct"}
        /\ pc' = "direct" => exec'[Root] # "approval"
    BY <1>0, <1>1 DEF Start, Says, ControlOK, TypeOK
  <2> QED BY <2>1, QuietlyTo DEF Waiting, Resting
<1>2. CASE OpenRound \/ Gather \/ HostFails \/ \E S \in Decisions : Delegate(S)
  <2>1. /\ UNCHANGED views /\ driver' = driver /\ pc \notin Resting
        /\ pc' \in {"deciding", "gathering", "ending", "delegating"}
    BY <1>2 DEF OpenRound, Gather, HostFails, Delegate, Says, Ready, Resting
  <2> QED BY <2>1, QuietlyTo DEF Waiting, Resting
<1>3. CASE \E action \in {"respond", "complete", "stop"}, breaks \in BOOLEAN :
             HostAnswers(action, breaks)
  <2>1. UNCHANGED views /\ driver' = driver /\ pc \notin Resting /\ pc' = "ending"
    BY <1>3 DEF HostAnswers, Answer, Says, Ready, Resting
  <2> QED BY <2>1, QuietlyTo DEF Waiting, Resting
<1>4. CASE \E e \in ProgressEvents : Progress(e)
  <2>1. PICK e \in ProgressEvents : Progress(e)
    BY <1>4
  <2>2. Told(script') = {e} /\ e.type \notin RunSays
    BY <1>0, <2>1, ProgressSays
  <2>3. UNCHANGED views /\ driver' = driver /\ pc \in {"gathering", "direct"} /\ pc' = pc
    BY <2>1 DEF Progress, Ready
  <2>4. \A x \in Told(script') : x.type \notin RunSays
    BY <2>2
  <2> QED BY <2>3, <2>4, QuietlyTo DEF Resting
<1>5. CASE \E again \in SUBSET Retried : Gathered(again)
  <2>1. PICK again \in SUBSET Retried : Gathered(again)
    BY <1>5
  <2>2. /\ \A e \in Told(script') : e.type \notin RunSays
        /\ pc' = "host" \/ (pc' = "pausing" /\ \E a : Required(script', a))
    BY <1>0, <2>1, GatheredSays
  <2>3. UNCHANGED views /\ driver' = driver /\ pc = "gathering"
    BY <2>1 DEF Gathered, Ready
  <2>4. pc' = "pausing" => Asking'
    BY <2>2 DEF Required, Asking
  <2> QED BY <2>2, <2>3, <2>4, QuietlyTo DEF Resting
<1>6. CASE \E a \in Approvals : DirectAsks(a)
  <2>1. PICK a \in Approvals : DirectAsks(a)
    BY <1>6
  <2>2. \A e \in Told(script') : e.type \notin RunSays
    BY <2>1, DirectAsksSays DEF FromRoot
  <2>3. UNCHANGED views /\ driver' = driver /\ pc = "direct" /\ pc' = pc
    BY <2>1 DEF DirectAsks, Ready
  <2> QED BY <2>2, <2>3, QuietlyTo DEF Resting
<1>7. CASE \E how \in {"answered", "asked", "failed"}, says \in BOOLEAN : DirectEnds(how, says)
  <2>1. PICK how \in {"answered", "asked", "failed"}, says \in BOOLEAN : DirectEnds(how, says)
    BY <1>7
  <2>2. /\ FromRoot(script') /\ pc' \in {"pausing", "ending"} /\ pc = "direct"
    BY <2>1, DirectEndsSays
  <2>3. \A e \in Told(script') : e.type \notin RunSays
    BY <2>2 DEF FromRoot
  <2>4. UNCHANGED views /\ driver' = driver
    BY <2>1 DEF DirectEnds
  <2>5. driver # "job"
    BY <1>0, <2>2 DEF ControlOK, TypeOK, Resting, JobSteps
  <2> QED BY <2>2, <2>3, <2>4, <2>5, QuietlyTo DEF Resting
<1> QED BY <1>1, <1>2, <1>3, <1>4, <1>5, <1>6, <1>7

LEMMA QuietEmit ==
  ASSUME TraceInv, QuietOK, Emit
  PROVE  QuietOK'
<1>0. TypeOK /\ ControlOK /\ ScriptOK /\ ActiveOK /\ ViewOK(view)
  BY DEF TraceInv, ViewsOK
<1>1. /\ view.run \notin TerminalStatus => view'.run \notin TerminalStatus
      /\ (\A e \in Told(script) : e.type \notin RunSays) =>
           /\ \A e \in Told(script') : e.type \notin RunSays
           /\ driver = "job" /\ Asking => view'.run = "approval_required"
  BY <1>0, EmitRun
<1>2. /\ pc' = pc /\ driver' = driver /\ exec' = exec /\ script # <<>>
      /\ driver = "job" => script' = <<>>
  BY DEF Emit, plan
<1>3. pc \notin Resting
  BY <1>0, <1>2 DEF ControlOK
<1>4. Waiting' <=> Waiting
  BY <1>2 DEF Waiting
<1>5. ~AtRest'
  BY <1>2, <1>3 DEF AtRest
<1>6. driver = "job" /\ pc = "pausing" => view'.run = "approval_required"
  BY <1>1, <1>2 DEF QuietOK, Waiting
<1>7. "approval_required" \notin TerminalStatus
  BY DEF TerminalStatus
<1> QED BY <1>1, <1>2, <1>3, <1>4, <1>5, <1>6, <1>7 DEF QuietOK

LEMMA QuietEnds ==
  ASSUME TraceInv, QuietOK,
         \/ Close \/ Pause \/ Return
         \/ \E a \in Approvals, d \in {"approved", "rejected"} : Decide(a, d)
         \/ \E res \in {"completed", "failed", "other"} : JobGoesOn(res)
         \/ \E grade \in {"sufficient", "insufficient"} : Resume(grade)
         \/ \E b \in Approvals : NextOfBatch(b)
         \/ \E res \in {"completed", "failed"} : DirectDecided(res)
  PROVE  QuietOK'
<1>0. TypeOK /\ ControlOK /\ ExecOK /\ ActiveOK /\ AgreeOK /\ ViewOK(view) /\ FeedOK(feed)
  BY DEF TraceInv, ViewsOK
<1>1. CASE Close
  <2>1. PICK q : Tells(q) /\ LastSays(q, TypeOf(FinalStatus))
    BY <1>0, <1>1, CloseTells
  <2>2. TypeOf(FinalStatus) \in TerminalType
    BY TypeOfIs, FinalStatusIs
  <2>3. Settled(view')
    BY <1>0, <2>1, <2>2, QuietlyOver
  <2>4. pc' = "ended"
    BY <1>1 DEF Close
  <2>5. AtRest' /\ view'.run \in TerminalStatus => Settled(view)'
    BY <2>3 DEF Settled
  <2> QED BY <2>4, <2>5 DEF QuietOK, Waiting, Resting
<1>2. CASE Pause
  <2>1. /\ view' = view /\ script = <<>> /\ script' = <<>> /\ pc = "pausing" /\ pc' = "paused"
        /\ driver' = driver
    BY <1>2 DEF Pause, Ready, views
  <2>2. Told(script) = {} /\ Told(script') = {}
    BY <2>1, Nothing
  <2>3. view.run \in TerminalStatus => Settled(view)
    BY <1>0, <2>1, <2>2 DEF QuietOK, Asking, Resting, TypeOK
  <2> QED BY <2>1, <2>2, <2>3 DEF QuietOK, Resting, Settled
<1>3. CASE Return
  <2>1. view' = view /\ pc' = "stopped" /\ driver = "producer" /\ pc \notin Resting
    BY <1>3 DEF Return, Says, views
  <2>2. view.run \notin TerminalStatus
    BY <2>1 DEF QuietOK
  <2> QED BY <2>1, <2>2 DEF QuietOK, Waiting, Resting
<1>4. CASE \E a \in Approvals, d \in {"approved", "rejected"} : Decide(a, d)
  <2>1. pc' = "executing" /\ driver' = "job"
    BY <1>4 DEF Decide
  <2> QED BY <2>1 DEF QuietOK, Waiting, AtRest, Resting
<1>5. CASE \E res \in {"completed", "failed", "other"} : JobGoesOn(res)
  <2>1. pc' \in {"evaluating", "resuming", "stopped"} /\ driver' = "job"
    BY <1>0, <1>5 DEF JobGoesOn, ControlOK, JobSteps
  <2> QED BY <2>1 DEF QuietOK, Waiting, AtRest, Resting
<1>6. CASE \E grade \in {"sufficient", "insufficient"} : Resume(grade)
  <2>1. PICK grade \in {"sufficient", "insufficient"} : Resume(grade)
    BY <1>6
  <2>2. driver' = "job" /\ pc' = (IF failing THEN "ended" ELSE "host")
    BY <1>0, <2>1 DEF Resume, ControlOK, JobSteps, Says
  <2>3. CASE ~failing
    BY <2>2, <2>3 DEF QuietOK, Waiting, AtRest, Resting
  <2>4. CASE failing
    <3>1. PICK q : Tells(q) /\ LastSays(q, "run.failed")
      BY <1>0, <2>1, <2>4, ResumeTells
    <3>2. "run.failed" \in TerminalType
      BY DEF TerminalType
    <3>3. Settled(view')
      BY <1>0, <3>1, <3>2, QuietlyOver
    <3>4. AtRest' /\ view'.run \in TerminalStatus => Settled(view)'
      BY <3>3 DEF Settled
    <3> QED BY <2>2, <2>4, <3>4 DEF QuietOK, Waiting, Resting
  <2> QED BY <2>3, <2>4
<1>7. CASE \E b \in Approvals : NextOfBatch(b)
  <2>1. PICK b \in Approvals : NextOfBatch(b)
    BY <1>7
  <2>2. PICK q : /\ Tells(q) /\ Required(q, b)
                 /\ \A e \in Told(q) : e.type \notin TerminalType \cup RunSays
    BY <1>0, <2>1, NextOfBatchTells
  <2>3. q \in Seq(Events) /\ view' = ViewAfter(view, q)
    BY <2>2 DEF Tells
  <2>4. \E e \in Told(q) : e.type = "approval.required"
    BY <2>2 DEF Required
  <2>5. view'.run = "approval_required"
    BY <1>0, <2>2, <2>3, <2>4, AfterRun
  <2>6. script' = script /\ driver' = driver /\ pc' = "paused" /\ pc = "executing"
    BY <2>1 DEF NextOfBatch
  <2>7. script' = <<>> /\ Told(script') = {}
    BY <1>0, <2>6, Nothing DEF ControlOK, JobSteps
  <2> QED BY <2>5, <2>6, <2>7 DEF QuietOK, TerminalStatus, Resting
<1>8. CASE \E res \in {"completed", "failed"} : DirectDecided(res)
  <2>1. PICK res \in {"completed", "failed"} : DirectDecided(res)
    BY <1>8
  <2>2. PICK st \in {"failed", "completed"} : \E q : Tells(q) /\ LastSays(q, TypeOf(st))
    BY <1>0, <2>1, DirectDecidedTells
  <2>3. st \in TerminalStatus
    BY DEF TerminalStatus
  <2>4. TypeOf(st) \in TerminalType
    BY <2>3, TypeOfIs
  <2>5. Settled(view')
    BY <1>0, <2>2, <2>4, QuietlyOver
  <2>6. pc' = "ended"
    BY <2>1 DEF DirectDecided
  <2>7. AtRest' /\ view'.run \in TerminalStatus => Settled(view)'
    BY <2>5 DEF Settled
  <2> QED BY <2>6, <2>7 DEF QuietOK, Waiting, Resting
<1> QED BY <1>1, <1>2, <1>3, <1>4, <1>5, <1>6, <1>7, <1>8

LEMMA QuietOutside ==
  ASSUME TraceInv, QuietOK, Cancel \/ CutOff \/ Restart
  PROVE  QuietOK'
<1>0. TypeOK /\ ControlOK /\ ViewOK(view) /\ FeedOK(feed)
  BY DEF TraceInv, ViewsOK
<1>1. ASSUME NEW q, NEW ty \in TerminalType, Tells(q), LastSays(q, ty)
      PROVE  Settled(view)'
  BY <1>0, <1>1, QuietlyOver DEF Settled
<1>2. CancelRun => Settled(view)'
  <2>1. "run.cancelled" \in TerminalType
    BY DEF TerminalType
  <2> QED BY <1>0, <1>1, <2>1, CancelTells
<1>3. CASE Cancel
  <2>1. /\ driver' = driver /\ exec' = exec /\ Settled(view)'
        /\ \/ driver = "producer" /\ pc \notin Resting /\ pc' = "stopped" /\ script' = <<>>
           \/ (driver # "producer" \/ pc \in Resting) /\ pc' = pc /\ script' = script
    BY <1>2, <1>3 DEF Cancel, StopsProducer, Says, plan
  <2>2. CASE pc' = "stopped" /\ driver = "producer"
    BY <2>1, <2>2 DEF QuietOK, Waiting, Resting
  <2>3. CASE pc' = pc /\ script' = script /\ (driver # "producer" \/ pc \in Resting)
    <3>1. (Waiting' <=> Waiting) /\ (Asking' <=> Asking)
      BY <2>1, <2>3 DEF Waiting, Asking
    <3> QED BY <2>1, <2>3, <3>1 DEF QuietOK
  <2> QED BY <2>1, <2>2, <2>3
<1>4. CASE CutOff
  <2>1. pc' = "stopped" /\ driver = "producer" /\ pc \notin Resting /\ (CancelRun \/ view' = view)
    BY <1>4 DEF CutOff, Says, views
  <2>2. CASE CancelRun
    BY <1>2, <2>1, <2>2 DEF QuietOK, Waiting, Resting
  <2>3. CASE view' = view
    <3>1. view.run \notin TerminalStatus
      BY <2>1 DEF QuietOK
    <3> QED BY <2>1, <2>3, <3>1 DEF QuietOK, Waiting, Resting
  <2> QED BY <2>1, <2>2, <2>3
<1>5. CASE Restart
  <2>1. /\ pc' = "stopped" /\ driver' = driver
        /\ run # "running" => view' = view /\ pc \notin Resting
    BY <1>5 DEF Restart, Says, views
  <2>2. CASE driver = "job"
    BY <2>1, <2>2 DEF QuietOK, Waiting, AtRest, Resting
  <2>3. CASE driver # "job" /\ run # "running"
    <3>1. view.run \notin TerminalStatus
      BY <1>0, <2>1, <2>3 DEF QuietOK, TypeOK
    <3> QED BY <2>1, <2>3, <3>1 DEF QuietOK, Waiting, Resting
  <2>4. CASE run = "running"
    <3>1. "run.failed" \in TerminalType
      BY DEF TerminalType
    <3>2. Settled(view)'
      BY <1>0, <1>1, <1>5, <2>4, <3>1, RestartTells
    <3> QED BY <2>1, <3>2 DEF QuietOK, Waiting, Resting
  <2> QED BY <2>2, <2>3, <2>4
<1> QED BY <1>3, <1>4, <1>5

LEMMA NextQuiet ==
  ASSUME TraceInv, QuietOK, [Next]_vars
  PROVE  QuietOK'
<1>0. ControlOK
  BY DEF TraceInv
<1>1. CASE UNCHANGED vars
  BY <1>1, QuietlyAside DEF vars, plan, views
<1>2. CASE \/ \E t \in Tasks, v \in {"sufficient", "insufficient", "failed"} : RemoteReturns(t, v)
           \/ \E t \in Tasks, a \in Approvals : RemoteAsks(t, a)
           \/ Supersede
  <2>1. UNCHANGED <<view, pc, driver, script>> /\ (mode = "auto" \/ exec' = exec)
    BY <1>2 DEF RemoteReturns, RemoteAsks, Supersede, views, plan
  <2> QED BY <1>0, <2>1, QuietlyAside DEF ControlOK
<1> QED BY <1>1, <1>2, QuietPlan, QuietEmit, QuietEnds, QuietOutside DEF Next

\* THEOREM: when no driver is at work on a Run that the trace shows as over, the
\* trace has no task and no round left in progress, whichever event ended it and
\* whatever was written late (runEvents.js, closeRun).
THEOREM TraceTreeSettles == Spec => []TreeSettles
<1>1. Init => QuietOK
  BY DEF Init, QuietOK, EmptyView, TerminalStatus, Waiting, Resting, AtRest
<1>2. TraceInv /\ QuietOK /\ [Next]_vars => QuietOK'
  BY NextQuiet
<1>3. QuietOK => TreeSettles
  BY DEF QuietOK, TreeSettles, Settled
<1> QED BY <1>1, <1>2, <1>3, TraceIsInvariant, PTL DEF Spec

-----------------------------------------------------------------------------
(***************************************************************************)
(* What a Run that waits has to show.                                      *)
(***************************************************************************)

\* What has befallen a Run is not forgotten.
LEMMA NextFate ==
  ASSUME [Next]_vars
  PROVE  fate \subseteq fate'
<1>1. CASE \/ UNCHANGED vars
           \/ Start \/ OpenRound \/ Gather \/ HostFails \/ Emit \/ Close \/ Pause \/ Return
           \/ Cancel \/ Supersede \/ CutOff \/ Restart
  BY <1>1 DEF vars, Start, OpenRound, Gather, HostFails, Emit, Close, Pause, Return, Cancel,
              Supersede, CutOff, Restart, CancelRun, back
<1>2. CASE \/ \E S \in Decisions : Delegate(S)
           \/ \E action \in {"respond", "complete", "stop"}, breaks \in BOOLEAN :
                HostAnswers(action, breaks)
           \/ \E e \in ProgressEvents : Progress(e)
           \/ \E t \in Tasks, v \in {"sufficient", "insufficient", "failed"} : RemoteReturns(t, v)
           \/ \E t \in Tasks, a \in Approvals : RemoteAsks(t, a)
           \/ \E again \in SUBSET Retried : Gathered(again)
           \/ \E a \in Approvals : DirectAsks(a)
  BY <1>2 DEF Delegate, HostAnswers, Answer, Progress, RemoteReturns, RemoteAsks, Gathered,
              DirectAsks, back
<1>3. CASE \/ \E how \in {"answered", "asked", "failed"}, says \in BOOLEAN : DirectEnds(how, says)
           \/ \E a \in Approvals, d \in {"approved", "rejected"} : Decide(a, d)
           \/ \E res \in {"completed", "failed", "other"} : JobGoesOn(res)
           \/ \E grade \in {"sufficient", "insufficient"} : Resume(grade)
           \/ \E b \in Approvals : NextOfBatch(b)
           \/ \E res \in {"completed", "failed"} : DirectDecided(res)
  BY <1>3 DEF DirectEnds, Decide, JobGoesOn, Resume, NextOfBatch, DirectDecided, back
<1> QED BY <1>1, <1>2, <1>3 DEF Next

\* An approval leaves "pending" by a decision or by a message that supersedes it.
LEMMA PendingStays ==
  ASSUME TypeOK, [Next]_vars, NEW a \in Approvals, approval[a] \in {"none", "pending"}
  PROVE  \/ approval'[a] \in {approval[a], "pending"}
         \/ "superseded" \in fate'
         \/ pc' = "executing"
<1>0. approval \in [Approvals -> {"none", "pending", "approved", "rejected"}]
  BY DEF TypeOK
<1>1. CASE UNCHANGED vars
  BY <1>1 DEF vars, back
<1>2. CASE Start \/ OpenRound \/ Gather \/ HostFails \/ Emit \/ Close \/ Pause \/ Return \/ Cancel
           \/ CutOff \/ Restart
  BY <1>2 DEF Start, OpenRound, Gather, HostFails, Emit, Close, Pause, Return, Cancel, CutOff,
              Restart, CancelRun, rows, back
<1>3. CASE \/ \E S \in Decisions : Delegate(S)
           \/ \E action \in {"respond", "complete", "stop"}, breaks \in BOOLEAN :
                HostAnswers(action, breaks)
           \/ \E e \in ProgressEvents : Progress(e)
           \/ \E t \in Tasks, v \in {"sufficient", "insufficient", "failed"} : RemoteReturns(t, v)
           \/ \E again \in SUBSET Retried : Gathered(again)
           \/ \E how \in {"answered", "asked", "failed"}, says \in BOOLEAN : DirectEnds(how, says)
           \/ \E res \in {"completed", "failed", "other"} : JobGoesOn(res)
           \/ \E grade \in {"sufficient", "insufficient"} : Resume(grade)
           \/ \E res \in {"completed", "failed"} : DirectDecided(res)
  BY <1>3 DEF Delegate, HostAnswers, Answer, Progress, RemoteReturns, Gathered, DirectEnds,
              JobGoesOn, Resume, DirectDecided, rows, back
<1>4. CASE Supersede
  BY <1>4 DEF Supersede
<1>5. CASE \E c \in Approvals, d \in {"approved", "rejected"} : Decide(c, d)
  BY <1>5 DEF Decide
<1>6. CASE \/ \E t \in Tasks, c \in Approvals : RemoteAsks(t, c)
           \/ \E c \in Approvals : DirectAsks(c)
           \/ \E c \in Approvals : NextOfBatch(c)
  <2>1. fate' = fate /\ \E c \in Approvals : approval' = [approval EXCEPT ![c] = "pending"]
    BY <1>6 DEF RemoteAsks, DirectAsks, NextOfBatch, back
  <2> QED BY <1>0, <2>1
<1> QED BY <1>1, <1>2, <1>3, <1>4, <1>5, <1>6 DEF Next

\* A task of the round was not asked for an approval before it ran.
LEMMA NextGathering ==
  ASSUME TraceInv, OwedOK, [Next]_vars, "superseded" \notin fate', pc' = "gathering",
         NEW i \in DOMAIN asked', NEW a \in Approvals, TaskOf(a) = asked'[i]
  PROVE  approval'[a] \in {"none", "pending"}
<1>0. TypeOK /\ ControlOK /\ ExecOK
  BY DEF TraceInv
<1>1. approval[a] \in {"none", "pending"} => approval'[a] \in {"none", "pending"}
  BY <1>0, PendingStays
<1>2. CASE Gather
  <2>1. asked' = asked /\ pc = "delegating"
    BY <1>2 DEF Gather, Ready
  <2>2. exec[TaskOf(a)] = "none"
    BY <1>0, <2>1 DEF ExecOK
  <2> QED BY <1>0, <1>1, <2>2 DEF ExecOK
<1>3. CASE pc = "gathering" /\ asked' = asked
  <2>1. "superseded" \notin fate
    BY NextFate
  <2>2. approval[a] \in {"none", "pending"}
    BY <1>3, <2>1 DEF OwedOK
  <2> QED BY <1>1, <2>2
<1> QED BY <1>0, <1>2, <1>3, RoundMoves

\* A step in which a driver that waits goes on waiting, and the log is as it was.
LEMMA OwedAside ==
  ASSUME TraceInv, OwedOK, [Next]_vars, UNCHANGED <<view, script>>, Waiting' => Waiting
  PROVE  OwedOK'
<1>0. TypeOK /\ fate \subseteq fate'
  BY NextFate DEF TraceInv
<1>1. (Asking' <=> Asking) /\ \A a : Required(script', a) <=> Required(script, a)
  BY DEF Asking
<1>2. Waiting' => "cancelled" \in fate' \/ view'.run = "approval_required" \/ Asking'
  BY <1>0, <1>1 DEF OwedOK
<1>3. ASSUME Waiting', "superseded" \notin fate'
      PROVE  \E a \in Approvals :
               approval'[a] = "pending" /\ (view'.approval[a] = "pending" \/ Required(script', a))
  <2>1. PICK a \in Approvals :
               approval[a] = "pending" /\ (view.approval[a] = "pending" \/ Required(script, a))
    BY <1>0, <1>3 DEF OwedOK
  <2>2. approval'[a] = "pending"
    BY <1>0, <1>3, <2>1, PendingStays DEF Waiting
  <2> QED BY <1>1, <2>1, <2>2
<1>4. "superseded" \notin fate' /\ pc' = "gathering" =>
        \A i \in DOMAIN asked' : \A a \in Approvals : TaskOf(a) = asked'[i] => approval'[a] \in {"none", "pending"}
  BY NextGathering
<1> QED BY <1>2, <1>3, <1>4 DEF OwedOK, Required

\* A step after which no driver waits.
LEMMA OwedIdle ==
  ASSUME TraceInv, OwedOK, [Next]_vars, ~Waiting'
  PROVE  OwedOK'
<1>1. "superseded" \notin fate' /\ pc' = "gathering" =>
        \A i \in DOMAIN asked' : \A a \in Approvals : TaskOf(a) = asked'[i] => approval'[a] \in {"none", "pending"}
  BY NextGathering
<1> QED BY <1>1 DEF OwedOK, Required

\* A step that makes a driver wait shows, or has in hand, an approval.
LEMMA OwedShown ==
  ASSUME TraceInv, OwedOK, [Next]_vars, pc' # "gathering",
         "cancelled" \in fate' \/ view'.run = "approval_required" \/ Asking',
         "superseded" \notin fate' => \E a \in Approvals :
           approval'[a] = "pending" /\ (view'.approval[a] = "pending" \/ Required(script', a))
  PROVE  OwedOK'
BY DEF OwedOK, Required

LEMMA OwedPlan ==
  ASSUME TraceInv, OwedOK, [Next]_vars,
         \/ Start \/ OpenRound \/ Gather \/ HostFails \/ Close \/ Return \/ CutOff \/ Restart
         \/ \E S \in Decisions : Delegate(S)
         \/ \E action \in {"respond", "complete", "stop"}, breaks \in BOOLEAN :
              HostAnswers(action, breaks)
         \/ \E e \in ProgressEvents : Progress(e)
         \/ \E a \in Approvals, d \in {"approved", "rejected"} : Decide(a, d)
         \/ \E res \in {"completed", "failed", "other"} : JobGoesOn(res)
         \/ \E grade \in {"sufficient", "insufficient"} : Resume(grade)
         \/ \E res \in {"completed", "failed"} : DirectDecided(res)
  PROVE  OwedOK'
<1>0. TypeOK /\ ControlOK /\ ExecOK /\ Root \in Tasks
  BY EventConstantsOK DEF TraceInv
<1>1. CASE Start
  <2>1. pc' \in {"host", "direct"} /\ (pc' = "direct" => exec'[Root] = "running")
    BY <1>0, <1>1 DEF Start, Says, TypeOK
  <2> QED BY <2>1, OwedIdle DEF Waiting
<1>2. CASE OpenRound \/ Gather \/ HostFails \/ Close \/ Return \/ CutOff \/ Restart
  BY <1>2, OwedIdle DEF OpenRound, Gather, HostFails, Close, Return, CutOff, Restart, Says, Waiting
<1>3. CASE \/ \E S \in Decisions : Delegate(S)
           \/ \E action \in {"respond", "complete", "stop"}, breaks \in BOOLEAN :
                HostAnswers(action, breaks)
  BY <1>3, OwedIdle DEF Delegate, HostAnswers, Answer, Says, Waiting
<1>4. CASE \E e \in ProgressEvents : Progress(e)
  <2>1. PICK e \in ProgressEvents : Progress(e)
    BY <1>4
  <2>2. exec[e.task] = "running" /\ (mode = "direct" => e.task = Root)
    BY <1>0, <2>1, ProgressSays
  <2>3. pc' = pc /\ pc \in {"gathering", "direct"} /\ exec' = exec
    BY <2>1 DEF Progress, Ready, plan
  <2>4. pc = "direct" => mode = "direct"
    BY <1>0 DEF ControlOK, TypeOK
  <2> QED BY <2>2, <2>3, <2>4, OwedIdle DEF Waiting
<1>5. CASE \/ \E a \in Approvals, d \in {"approved", "rejected"} : Decide(a, d)
           \/ \E res \in {"completed", "failed", "other"} : JobGoesOn(res)
           \/ \E grade \in {"sufficient", "insufficient"} : Resume(grade)
           \/ \E res \in {"completed", "failed"} : DirectDecided(res)
  BY <1>5, OwedIdle DEF Decide, JobGoesOn, Resume, DirectDecided, Says, Waiting
<1> QED BY <1>1, <1>2, <1>3, <1>4, <1>5

LEMMA OwedEmit ==
  ASSUME TraceInv, OwedOK, QuietOK, [Next]_vars, Emit
  PROVE  OwedOK'
<1>0. TypeOK /\ ControlOK /\ ScriptOK /\ ActiveOK /\ ViewOK(view)
  BY DEF TraceInv, ViewsOK
<1>1. /\ pc' = pc /\ exec' = exec /\ approval' = approval /\ fate' = fate
  BY DEF Emit, plan, back
<1>2. Waiting' <=> Waiting
  BY <1>1 DEF Waiting
<1>3. CASE ~Waiting
  BY <1>2, <1>3, OwedIdle
<1>4. CASE Waiting
  <2>1. /\ view.run = "approval_required" \/ Asking =>
             view'.run = "approval_required" \/ Asking'
        /\ \A a \in Approvals : view.approval[a] = "pending" \/ Required(script, a) =>
             view'.approval[a] = "pending" \/ Required(script', a)
    BY <1>0, <1>4, EmitRun DEF QuietOK
  <2>2. pc' # "gathering"
    BY <1>1, <1>4 DEF Waiting
  <2>3. "cancelled" \in fate \/ view.run = "approval_required" \/ Asking
    BY <1>4 DEF OwedOK
  <2>4. "superseded" \notin fate => \E a \in Approvals :
           approval[a] = "pending" /\ (view.approval[a] = "pending" \/ Required(script, a))
    BY <1>4 DEF OwedOK
  <2> QED BY <1>1, <2>1, <2>2, <2>3, <2>4, OwedShown
<1> QED BY <1>3, <1>4

LEMMA OwedGathered ==
  ASSUME TraceInv, OwedOK, [Next]_vars, NEW again \in SUBSET Retried, Gathered(again)
  PROVE  OwedOK'
<1>0. TypeOK /\ ControlOK /\ ExecOK
  BY DEF TraceInv
<1>1. /\ pc = "gathering" /\ approval' = approval /\ fate' = fate /\ view' = view
      /\ pc' = "host" \/ pc' = "pausing"
  BY DEF Gathered, Ready, rows, back, views, Says
<1>2. CASE pc' = "host"
  BY <1>2, OwedIdle DEF Waiting
<1>3. CASE pc' = "pausing"
  <2>1. PICK i \in DOMAIN asked : exec[asked[i]] = "approval" /\ Required(script', RaisedBy(asked[i]))
    BY <1>0, <1>3, GatheredSays
  <2> DEFINE a == RaisedBy(asked[i])
  <2>2. asked[i] \in Tasks
    BY <1>0, AskedAre
  <2>3. a \in Approvals /\ approval[a] # "none" /\ TaskOf(a) = asked[i]
    BY <1>0, <2>1, <2>2, RaisedByIs
  <2>4. Required(script', a)
    BY <2>1
  <2> HIDE DEF a
  <2>5. Asking'
    BY <2>4 DEF Required, Asking
  <2>6. "superseded" \notin fate => approval[a] = "pending"
    BY <1>1, <2>3 DEF OwedOK
  <2> QED BY <1>1, <1>3, <2>3, <2>4, <2>5, <2>6, OwedShown
<1> QED BY <1>1, <1>2, <1>3

LEMMA OwedDirect ==
  ASSUME TraceInv, OwedOK, [Next]_vars,
         \/ \E a \in Approvals : DirectAsks(a)
         \/ \E how \in {"answered", "asked", "failed"}, says \in BOOLEAN : DirectEnds(how, says)
  PROVE  OwedOK'
<1>0. TypeOK /\ ControlOK /\ ExecOK
  BY DEF TraceInv
<1>1. CASE \E a \in Approvals : DirectAsks(a)
  <2>1. PICK a \in Approvals : DirectAsks(a)
    BY <1>1
  <2>2. Required(script', a)
    BY <2>1, DirectAsksSays
  <2>3. pc' # "gathering" /\ approval'[a] = "pending"
    BY <1>0, <2>1 DEF DirectAsks, Ready, TypeOK
  <2>4. Asking'
    BY <2>2 DEF Required, Asking
  <2> QED BY <2>2, <2>3, <2>4, OwedShown
<1>2. CASE \E how \in {"answered", "asked", "failed"}, says \in BOOLEAN : DirectEnds(how, says)
  <2>1. PICK how \in {"answered", "asked", "failed"}, says \in BOOLEAN : DirectEnds(how, says)
    BY <1>2
  <2>2. /\ pc' = IF how = "asked" THEN "pausing" ELSE "ending"
        /\ pc = "direct" /\ script = <<>>
    BY <2>1, DirectEndsSays
  <2>3. CASE how # "asked"
    BY <2>2, <2>3, OwedIdle DEF Waiting
  <2>4. CASE how = "asked"
    <3>1. Waiting
      BY <2>1, <2>2, <2>4 DEF DirectEnds, Waiting
    <3>2. Told(script) = {}
      BY <2>2, Nothing
    <3>3. ~Asking /\ \A a : ~Required(script, a)
      BY <3>2 DEF Asking, Required
    <3>4. view' = view /\ approval' = approval /\ fate' = fate
      BY <2>1 DEF DirectEnds, views, rows, back
    <3>5. "cancelled" \in fate \/ view.run = "approval_required"
      BY <3>1, <3>3 DEF OwedOK
    <3>6. "superseded" \notin fate => \E a \in Approvals : approval[a] = "pending" /\ view.approval[a] = "pending"
      BY <3>1, <3>3 DEF OwedOK
    <3> QED BY <2>2, <2>4, <3>4, <3>5, <3>6, OwedShown
  <2> QED BY <2>3, <2>4
<1> QED BY <1>1, <1>2

LEMMA OwedBatch ==
  ASSUME TraceInv, OwedOK, [Next]_vars, NEW b \in Approvals, NextOfBatch(b)
  PROVE  OwedOK'
<1>0. TypeOK /\ ControlOK /\ ExecOK /\ AgreeOK /\ ViewOK(view)
  BY DEF TraceInv, ViewsOK
<1>1. PICK q : /\ Tells(q) /\ Required(q, b) /\ ~Answered(q, b)
               /\ \A e \in Told(q) : e.type \notin TerminalType \cup RunSays
  BY <1>0, NextOfBatchTells
<1>2. q \in Seq(Events) /\ view' = ViewAfter(view, q)
  BY <1>1 DEF Tells
<1>3. \E e \in Told(q) : e.type = "approval.required"
  BY <1>1 DEF Required
<1>4. view'.run = "approval_required"
  BY <1>0, <1>1, <1>2, <1>3, AfterRun
<1>5. view'.approval[b] = "pending"
  BY <1>0, <1>1, <1>2, AfterCards
<1>6. approval'[b] = "pending" /\ pc' = "paused"
  BY <1>0 DEF NextOfBatch, TypeOK
<1> QED BY <1>4, <1>5, <1>6, OwedShown

LEMMA OwedCancel ==
  ASSUME TraceInv, OwedOK, [Next]_vars, Cancel
  PROVE  OwedOK'
<1>0. TypeOK /\ ViewOK(view)
  BY DEF TraceInv, ViewsOK
<1>1. /\ exec' = exec /\ approval' = approval /\ fate' = fate \cup {"cancelled"}
      /\ Logged(<<RootEv("run.cancelled")>>)
      /\ \/ pc' = "stopped"
         \/ pc' = pc /\ script' = script
  BY DEF Cancel, CancelRun, StopsProducer, Says, plan
<1>2. CASE ~Waiting'
  BY <1>2, OwedIdle
<1>3. CASE Waiting'
  <2>1. pc' = pc /\ script' = script /\ Waiting /\ pc' # "gathering"
    BY <1>1, <1>3 DEF Waiting
  <2> DEFINE q == <<RootEv("run.cancelled")>>
  <2>2. q \in Seq(Events) /\ Told(q) = {RootEv("run.cancelled")} /\ RootEv("run.cancelled").type = "run.cancelled"
    BY EndEvent DEF TerminalType
  <2>3. view' = ViewAfter(view, q)
    BY <1>1, LoggedIs
  <2> HIDE DEF q
  <2>4. \A a \in Approvals : ~Answered(q, a)
    BY <2>2 DEF Answered
  <2>5. \A a \in Approvals : view.approval[a] = "pending" => view'.approval[a] = "pending"
    BY <1>0, <2>2, <2>3, <2>4, AfterCards
  <2>6. "superseded" \notin fate => \E a \in Approvals :
           approval[a] = "pending" /\ (view.approval[a] = "pending" \/ Required(script, a))
    BY <2>1 DEF OwedOK
  <2> QED BY <1>1, <2>1, <2>5, <2>6, OwedShown
<1> QED BY <1>2, <1>3

LEMMA NextOwed ==
  ASSUME TraceInv, OwedOK, QuietOK, [Next]_vars
  PROVE  OwedOK'
<1>0. ControlOK
  BY DEF TraceInv
<1>1. CASE UNCHANGED vars
  BY <1>1, OwedAside DEF vars, plan, views, Waiting
<1>2. CASE \/ \E t \in Tasks, v \in {"sufficient", "insufficient", "failed"} : RemoteReturns(t, v)
           \/ \E t \in Tasks, a \in Approvals : RemoteAsks(t, a)
           \/ Supersede
  <2>1. UNCHANGED <<view, pc, script>> /\ (mode = "auto" \/ exec' = exec)
    BY <1>2 DEF RemoteReturns, RemoteAsks, Supersede, views, plan
  <2> QED BY <1>0, <2>1, OwedAside DEF ControlOK, Waiting
<1>3. CASE Pause
  <2>1. UNCHANGED <<view, script>> /\ Waiting
    BY <1>3 DEF Pause, Ready, Waiting, views
  <2> QED BY <2>1, OwedAside
<1> QED BY <1>1, <1>2, <1>3, OwedPlan, OwedEmit, OwedGathered, OwedDirect, OwedBatch, OwedCancel DEF Next

\* THEOREM: a Run that was left waiting for a decision, and that no message has
\* superseded, shows an approval that is still to be decided, and is shown as
\* waiting unless it was cancelled (runEvents.js, ApprovalCard.jsx).
THEOREM PausedRunsAskForIt == Spec => []PausedRunShowsItsApproval
<1>1. Init => QuietOK /\ OwedOK
  BY DEF Init, QuietOK, OwedOK, EmptyView, TerminalStatus, Waiting, Resting, AtRest
<1>2. TraceInv /\ QuietOK /\ OwedOK /\ [Next]_vars => QuietOK' /\ OwedOK'
  BY NextQuiet, NextOwed
<1>3. TraceInv /\ OwedOK => PausedRunShowsItsApproval
  <2> SUFFICES ASSUME TraceInv, OwedOK, pc = "paused", "superseded" \notin fate
               PROVE  /\ \E a \in Approvals : approval[a] = "pending" /\ view.approval[a] = "pending"
                      /\ "cancelled" \in fate \/ view.run = "approval_required"
    BY DEF PausedRunShowsItsApproval
  <2>1. script = <<>> /\ Waiting
    BY DEF TraceInv, ControlOK, Resting, Waiting
  <2>2. Told(script) = {}
    BY <2>1, Nothing
  <2>3. ~Asking /\ \A a : ~Required(script, a)
    BY <2>2 DEF Asking, Required
  <2> QED BY <2>1, <2>3 DEF OwedOK
<1> QED BY <1>1, <1>2, <1>3, TraceIsInvariant, PTL DEF Spec

-----------------------------------------------------------------------------
(***************************************************************************)
(* How the views and the row of a Run that is over agree.                  *)
(***************************************************************************)

\* The three views say "ty", and so does the row that holds st.
Matches(st, v, s, f, m) ==
  v.run = TraceName(st) /\ StageState(s, m) = TraceName(st) /\ f.run = FeedName(st)

LEMMA NamesMatch ==
  ASSUME NEW st \in RunTerminal, NEW ty \in TerminalType, StatusOf(ty) = TraceName(st),
         NEW v, v.run = StatusOf(ty), NEW s, s.latest = ty, NEW f, f.run = FeedState(ty), NEW m
  PROVE  Matches(st, v, s, f, m)
<1>1. st \in {"completed", "partial", "evidence_insufficient", "failed", "cancelled", "interrupted"}
  BY DEF RunTerminal, TerminalStatus
<1>2. \/ ty = "run.completed" /\ StatusOf(ty) = "completed" /\ FeedState(ty) = "completed"
      \/ ty = "run.partial" /\ StatusOf(ty) = "partial" /\ FeedState(ty) = "partial"
      \/ ty = "run.evidence_insufficient" /\ StatusOf(ty) = "evidence_insufficient"
         /\ FeedState(ty) = "evidence_insufficient"
      \/ ty = "run.failed" /\ StatusOf(ty) = "failed" /\ FeedState(ty) = "failed"
      \/ ty = "run.cancelled" /\ StatusOf(ty) = "cancelled" /\ FeedState(ty) = "canceled"
  BY DEF TerminalType, StatusOf, FeedState
<1>3. StageState(s, m) = StatusOf(ty)
  BY DEF StageState, TerminalType, NoData
<1>4. FeedState(ty) = FeedName(st)
  BY <1>1, <1>2 DEF TraceName, FeedName
<1> QED BY <1>3, <1>4 DEF Matches

\* A step that ends the Run in its log as it does in its row.
LEMMA OverAlike ==
  ASSUME ViewOK(view), FeedOK(feed), NEW q, Tells(q), NEW ty \in TerminalType, LastSays(q, ty),
         run' \in RunTerminal, StatusOf(ty) = TraceName(run')
  PROVE  Matches(run, view, stage, feed, mode)'
<1>1. view'.run = StatusOf(ty) /\ stage'.latest = ty /\ feed'.run = FeedState(ty)
  BY QuietlyOver
<1>2. Matches(run', view', stage', feed', mode')
  BY <1>1, NamesMatch
<1>3. Matches(run, view, stage, feed, mode)' <=> Matches(run', view', stage', feed', mode')
  BY DEF Matches, TraceName, FeedName
<1> QED BY <1>2, <1>3

LEMMA AlikeMatches == Matches(run, view, stage, feed, mode) => ViewsSettleAlike
BY DEF Matches, ViewsSettleAlike

\* A step after which the Run is over in its row and in its views.
LEMMA EndMatched ==
  ASSUME pc' \in Resting, Matches(run, view, stage, feed, mode)'
  PROVE  EndOK'
BY DEF EndOK, Matches, ViewsSettleAlike

\* A step after which the Run is not over, or superseded.
LEMMA EndOpen ==
  ASSUME run' \notin RunTerminal \/ "superseded" \in fate'
  PROVE  EndOK'
BY DEF EndOK, ViewsSettleAlike

\* A step that leaves a Run that is not at rest as it is.
LEMMA EndUnder ==
  ASSUME EndOK, "superseded" \in fate => "superseded" \in fate',
         ~AtRest', run' = run, driver = "producer" => pc \notin Resting \/ run = "none",
         driver' = driver
  PROVE  EndOK'
BY DEF EndOK, ViewsSettleAlike, RunTerminal, TerminalStatus

\* A step of a job that is not at rest.
LEMMA EndJob ==
  ASSUME driver' = "job", ~AtRest'
  PROVE  EndOK'
BY DEF EndOK, ViewsSettleAlike

LEMMA EndPlan ==
  ASSUME TraceInv, EndOK, [Next]_vars,
         \/ OpenRound \/ Gather \/ HostFails \/ Emit
         \/ \E S \in Decisions : Delegate(S)
         \/ \E action \in {"respond", "complete", "stop"}, breaks \in BOOLEAN :
              HostAnswers(action, breaks)
         \/ \E e \in ProgressEvents : Progress(e)
         \/ \E again \in SUBSET Retried : Gathered(again)
         \/ \E how \in {"answered", "asked", "failed"}, says \in BOOLEAN : DirectEnds(how, says)
  PROVE  EndOK'
<1>0. ControlOK /\ fate \subseteq fate'
  BY NextFate DEF TraceInv
<1>1. driver' = driver /\ run' = run /\ pc \notin Resting /\ pc' \notin Resting
  <2>1. CASE OpenRound \/ Gather \/ HostFails \/ \E S \in Decisions : Delegate(S)
    BY <2>1 DEF OpenRound, Gather, HostFails, Delegate, Says, Ready, Resting, rows
  <2>2. CASE Emit
    BY <1>0, <2>2 DEF Emit, ControlOK
  <2>3. CASE \E action \in {"respond", "complete", "stop"}, breaks \in BOOLEAN :
              HostAnswers(action, breaks)
    BY <2>3 DEF HostAnswers, Answer, Says, Ready, Resting, rows
  <2>4. CASE \E e \in ProgressEvents : Progress(e)
    BY <2>4 DEF Progress, Ready, Resting, rows
  <2>5. CASE \E again \in SUBSET Retried : Gathered(again)
    BY <2>5 DEF Gathered, Says, Ready, Resting, rows
  <2>6. CASE \E how \in {"answered", "asked", "failed"}, says \in BOOLEAN : DirectEnds(how, says)
    <3>1. PICK how \in {"answered", "asked", "failed"}, says \in BOOLEAN : DirectEnds(how, says)
      BY <2>6
    <3>2. pc' \in {"pausing", "ending"} /\ pc = "direct"
      BY <3>1, DirectEndsSays
    <3>3. UNCHANGED <<driver, run>>
      BY <3>1 DEF DirectEnds, rows
    <3> QED BY <3>2, <3>3 DEF Resting
  <2> QED BY <2>1, <2>2, <2>3, <2>4, <2>5, <2>6
<1>2. ~AtRest'
  BY <1>1 DEF AtRest
<1> QED BY <1>0, <1>1, <1>2, EndUnder

LEMMA EndOver ==
  ASSUME TraceInv, EndOK, [Next]_vars,
         \/ Close
         \/ \E res \in {"completed", "failed", "other"} : JobGoesOn(res)
         \/ \E grade \in {"sufficient", "insufficient"} : Resume(grade)
  PROVE  EndOK'
<1>0. TypeOK /\ ControlOK /\ ExecOK /\ ActiveOK /\ ViewOK(view) /\ FeedOK(feed)
  BY DEF TraceInv, ViewsOK
<1>1. CASE Close
  <2>1. PICK q : Tells(q) /\ LastSays(q, TypeOf(FinalStatus))
    BY <1>0, <1>1, CloseTells
  <2>2. /\ TypeOf(FinalStatus) \in TerminalType /\ StatusOf(TypeOf(FinalStatus)) = FinalStatus
        /\ FinalStatus \in TerminalStatus
    BY TypeOfIs, FinalStatusIs
  <2>3. pc' = "ended" /\ run' = FinalStatus
    BY <1>1 DEF Close
  <2> DEFINE ty == TypeOf(FinalStatus)
             st == FinalStatus
  <2>4. /\ ty \in TerminalType /\ StatusOf(ty) = st /\ st \in TerminalStatus
        /\ LastSays(q, ty) /\ run' = st
    BY <2>1, <2>2, <2>3
  <2> HIDE DEF ty, st
  <2>5. run' \in RunTerminal /\ TraceName(run') = st
    BY <2>4 DEF RunTerminal, TerminalStatus, TraceName
  <2>6. Matches(run, view, stage, feed, mode)'
    BY <1>0, <2>1, <2>4, <2>5, OverAlike
  <2> QED BY <2>3, <2>6, EndMatched DEF Resting
<1>2. CASE \E res \in {"completed", "failed", "other"} : JobGoesOn(res)
  <2>1. pc' \in {"evaluating", "resuming", "stopped"} /\ driver' = "job"
    BY <1>0, <1>2 DEF JobGoesOn, ControlOK, JobSteps
  <2>2. ~AtRest'
    BY <2>1 DEF AtRest, Resting
  <2> QED BY <2>1, <2>2, EndJob
<1>3. CASE \E grade \in {"sufficient", "insufficient"} : Resume(grade)
  <2>1. PICK grade \in {"sufficient", "insufficient"} : Resume(grade)
    BY <1>3
  <2>2. /\ pc' = (IF failing THEN "ended" ELSE "host")
        /\ run' = (IF failing THEN "failed" ELSE "running")
    BY <2>1 DEF Resume, Says
  <2>3. CASE ~failing
    BY <2>2, <2>3, EndOpen DEF RunTerminal, TerminalStatus
  <2>4. CASE failing
    <3>1. PICK q : Tells(q) /\ LastSays(q, "run.failed")
      BY <1>0, <2>1, <2>4, ResumeTells
    <3>2. "run.failed" \in TerminalType /\ StatusOf("run.failed") = "failed"
      BY DEF TerminalType, StatusOf
    <3>3. run' \in RunTerminal /\ TraceName(run') = "failed"
      BY <2>2, <2>4 DEF RunTerminal, TerminalStatus, TraceName
    <3>4. Matches(run, view, stage, feed, mode)'
      BY <1>0, <3>1, <3>2, <3>3, OverAlike
    <3> QED BY <2>2, <2>4, <3>4, EndMatched DEF Resting
  <2> QED BY <2>3, <2>4
<1> QED BY <1>1, <1>2, <1>3

LEMMA EndDirect ==
  ASSUME TraceInv, NEW res \in {"completed", "failed"}, DirectDecided(res)
  PROVE  EndOK'
<1>0. TypeOK /\ ControlOK /\ ExecOK /\ ViewOK(view) /\ FeedOK(feed) /\ Root \in Tasks
  BY EventConstantsOK DEF TraceInv, ViewsOK
<1> DEFINE last == IF Approved /\ res = "completed" THEN "task.completed"
                   ELSE IF ~Approved THEN "task.blocked" ELSE "task.failed"
           final == IF last = "task.failed" THEN "failed" ELSE "completed"
<1>1. /\ \E q : Tells(q) /\ LastSays(q, TypeOf(final))
      /\ row' = [row EXCEPT ![Root] = RowStatus(RootEv(last))]
      /\ run' = IF res = "failed" THEN "failed" ELSE final
      /\ RowStatus(RootEv(last)) = CASE last = "task.completed" -> "completed"
                                     [] last = "task.blocked" -> "blocked"
                                     [] last = "task.failed" -> "failed"
  BY <1>0, DirectDecidedTells
<1>2. last \in {"task.completed", "task.blocked", "task.failed"}
  OBVIOUS
<1>3. last # "task.blocked" => run' = final
  BY <1>1
<1>4. final \in {"failed", "completed"} /\ run' \in {final, "failed"}
  BY <1>1
<1>5. last = "task.blocked" => RowStatus(RootEv(last)) = "blocked"
  BY <1>1
<1>6. last = "task.blocked" => row'[Root] = "blocked"
  BY <1>0, <1>1, <1>5 DEF TypeOK
<1>7. pc' = "ended" /\ mode' = "direct"
  BY DEF DirectDecided
<1>8. PICK q : Tells(q) /\ LastSays(q, TypeOf(final))
  BY <1>1
<1> HIDE DEF final, last
<1>9. CASE run' = final
  <2>1. final \in TerminalStatus
    BY <1>4 DEF TerminalStatus
  <2>2. TypeOf(final) \in TerminalType /\ StatusOf(TypeOf(final)) = final
    BY <2>1, TypeOfIs
  <2>3. run' \in RunTerminal /\ TraceName(run') = final
    BY <1>4, <1>9 DEF RunTerminal, TerminalStatus, TraceName
  <2>4. Matches(run, view, stage, feed, mode)'
    BY <1>0, <1>8, <2>2, <2>3, OverAlike
  <2> QED BY <1>7, <2>4, EndMatched DEF Resting
<1>10. CASE run' # final
  <2>1. last = "task.blocked" /\ run' = "failed"
    BY <1>3, <1>4, <1>10
  <2>2. row'[Root] = "blocked"
    BY <1>6, <2>1
  <2> QED BY <1>7, <2>1, <2>2 DEF EndOK, ViewsSettleAlike, Resting
<1> QED BY <1>9, <1>10

LEMMA EndOutside ==
  ASSUME TraceInv, EndOK, [Next]_vars, Return \/ Cancel \/ CutOff \/ Restart
  PROVE  EndOK'
<1>0. TypeOK /\ ControlOK /\ ViewOK(view) /\ FeedOK(feed) /\ fate \subseteq fate'
  BY NextFate DEF TraceInv, ViewsOK
<1>1. ASSUME driver = "producer", pc \notin Resting, run' = run
      PROVE  EndOK'
  BY <1>0, <1>1, EndOpen DEF EndOK
<1>2. CancelRun => Matches(run, view, stage, feed, mode)'
  <2>1. "run.cancelled" \in TerminalType /\ StatusOf("run.cancelled") = "cancelled"
    BY DEF TerminalType, StatusOf
  <2>2. CancelRun => run' \in RunTerminal /\ TraceName(run') = "cancelled"
    BY DEF CancelRun, RunTerminal, TerminalStatus, TraceName
  <2>3. CancelRun => \E q : Tells(q) /\ LastSays(q, "run.cancelled")
    BY <1>0, CancelTells
  <2> QED BY <1>0, <2>1, <2>2, <2>3, OverAlike
<1>3. CASE Return
  BY <1>1, <1>3 DEF Return, rows
<1>4. CASE Cancel
  <2>1. /\ driver' = driver /\ Matches(run, view, stage, feed, mode)'
        /\ driver = "producer" => pc' \in Resting
    BY <1>2, <1>4 DEF Cancel, StopsProducer, Says, Resting
  <2> QED BY <2>1 DEF EndOK, Matches, ViewsSettleAlike
<1>5. CASE CutOff
  <2>1. /\ driver = "producer" /\ pc \notin Resting /\ pc' = "stopped"
        /\ run' = run \/ CancelRun
    BY <1>5 DEF CutOff, Says
  <2>2. CASE run' = run
    BY <1>1, <2>1, <2>2
  <2>3. CASE CancelRun
    BY <1>2, <2>1, <2>3, EndMatched DEF Resting
  <2> QED BY <2>1, <2>2, <2>3
<1>6. CASE Restart
  <2>1. /\ pc' = "stopped" /\ driver' = driver
        /\ run = "running" => run' = "interrupted"
        /\ run # "running" => run' = run /\ pc \notin Resting
    BY <1>6 DEF Restart, Says
  <2>2. CASE driver = "job"
    BY <2>1, <2>2, EndJob DEF AtRest, Resting
  <2>3. CASE driver # "job" /\ run # "running"
    <3>1. driver = "producer"
      BY <1>0, <2>3 DEF TypeOK
    <3> QED BY <1>1, <2>1, <2>3, <3>1
  <2>4. CASE run = "running"
    <3>1. PICK q : Tells(q) /\ LastSays(q, "run.failed")
      BY <1>0, <1>6, <2>4, RestartTells
    <3>2. "run.failed" \in TerminalType /\ StatusOf("run.failed") = "failed"
      BY DEF TerminalType, StatusOf
    <3>3. run' \in RunTerminal /\ TraceName(run') = "failed"
      BY <2>1, <2>4 DEF RunTerminal, TerminalStatus, TraceName
    <3>4. Matches(run, view, stage, feed, mode)'
      BY <1>0, <3>1, <3>2, <3>3, OverAlike
    <3> QED BY <2>1, <3>4, EndMatched DEF Resting
  <2> QED BY <2>2, <2>3, <2>4
<1> QED BY <1>3, <1>4, <1>5, <1>6

LEMMA NextEnd ==
  ASSUME TraceInv, EndOK, [Next]_vars
  PROVE  EndOK'
<1>0. ControlOK
  BY DEF TraceInv
<1>1. CASE UNCHANGED vars
  <2>1. ViewsSettleAlike' <=> ViewsSettleAlike
    BY <1>1 DEF vars, views, rows, back, ViewsSettleAlike, AtRest, StageState
  <2> QED BY <1>1, <2>1 DEF vars, rows, back, EndOK
<1>2. CASE \/ Start \/ Pause \/ Supersede
           \/ \E t \in Tasks, a \in Approvals : RemoteAsks(t, a)
           \/ \E a \in Approvals : DirectAsks(a)
           \/ \E b \in Approvals : NextOfBatch(b)
  <2>1. run' \in {"running", "approval_required"} \/ "superseded" \in fate'
    BY <1>2 DEF Start, Pause, Supersede, RemoteAsks, DirectAsks, NextOfBatch
  <2> QED BY <2>1, EndOpen DEF RunTerminal, TerminalStatus
<1>3. CASE \E t \in Tasks, v \in {"sufficient", "insufficient", "failed"} : RemoteReturns(t, v)
  <2>1. UNCHANGED <<mode, pc, driver, script, run, row, view, stage, feed, fate>>
    BY <1>3 DEF RemoteReturns, rows, views, back
  <2>2. ViewsSettleAlike' <=> ViewsSettleAlike
    BY <2>1 DEF ViewsSettleAlike, AtRest, StageState
  <2> QED BY <2>1, <2>2 DEF EndOK
<1>4. CASE \E a \in Approvals, d \in {"approved", "rejected"} : Decide(a, d)
  <2>1. pc' = "executing" /\ driver' = "job"
    BY <1>4 DEF Decide
  <2> QED BY <2>1, EndJob DEF AtRest, Resting
<1> QED BY <1>1, <1>2, <1>3, <1>4, EndPlan, EndOver, EndDirect, EndOutside DEF Next

\* THEOREM: when every driver of a Run is done and its row says that it is over,
\* the trace, the stage and the event feed say the same as the row, but for the
\* two kinds of Run whose row changes without an event (runEvents.js closeRun and
\* deriveRunStage; runs.py; the events of the event feed).
THEOREM RunsSettleAlike == Spec => []ViewsSettleAlike
<1>1. Init => EndOK
  BY DEF Init, EndOK, ViewsSettleAlike, RunTerminal, TerminalStatus, Resting
<1>2. TraceInv /\ EndOK /\ [Next]_vars => EndOK'
  BY NextEnd
<1>3. EndOK => ViewsSettleAlike
  BY DEF EndOK, ViewsSettleAlike
<1> QED BY <1>1, <1>2, <1>3, TraceIsInvariant, PTL DEF Spec

-----------------------------------------------------------------------------
(***************************************************************************)
(* The time line of a Run: each task once, in the rounds and in the list.  *)
(***************************************************************************)

\* The tasks a round lists have rows.
Rowed(v, r) == \A n \in Rounds : \A t \in Told(v.round[n].tasks) : r[t] # "none"

\* What a driver is about to tell names tasks that no other round lists.
PlanOK ==
  /\ \A c, d \in DecisionsIn(script) : Apart(c, d)
  /\ \A d \in DecisionsIn(script) : NewTo(d, view)
  /\ mode = "direct" => \A d \in DecisionsIn(script) : d.tasks = <<>>
  /\ \A e \in Told(script) : e.type = "run.started" => e.data = mode

LineOK ==
  /\ Lined(view) /\ Rowed(view, row)
  /\ view.mode = "direct" => mode = "direct"
  /\ mode = "direct" => \A n \in Rounds : view.round[n].tasks = <<>>
  /\ PlanOK

LEMMA InitLine == Init => LineOK
<1> SUFFICES ASSUME Init PROVE LineOK
  OBVIOUS
<1>1. /\ view.order = <<>> /\ view.rounds = <<>> /\ view.mode = "auto"
      /\ \A n \in Rounds : view.round[n].tasks = <<>>
      /\ \A t \in Tasks : view.task[t] = "none"
      /\ script = <<>>
  BY DEF Init, EmptyView
<1>2. Told(<<>>) = {}
  BY ToldOf
<1>3. Lists(<<>>, {})
  BY DEF Lists, Listing!Lists
<1>4. Named(view) = {}
  BY <1>1 DEF Named
<1>5. Lined(view) /\ Rowed(view, row)
  BY <1>1, <1>2, <1>3, <1>4 DEF Lined, Rowed, Numbered, Disjoint
<1>6. DecisionsIn(script) = {}
  BY <1>1, <1>2 DEF DecisionsIn
<1> QED BY <1>1, <1>2, <1>5, <1>6 DEF LineOK, PlanOK

\* What the drivers put into their scripts.
LEMMA ScriptPlans ==
  ASSUME TraceInv, [Next]_vars
  PROVE  \/ Told(script') \subseteq Told(script)
         \/ /\ \A e \in Told(script') : e.type = "run.started" => e.data = mode
            /\ \/ \A e \in Told(script') :
                    e.type = "host.decision_created" => e.data.tasks = <<>>
               \/ \E S \in Decisions :
                    /\ Delegate(S)
                    /\ \A e \in Told(script') :
                         e.type = "host.decision_created" => e = Decision("delegate", S)
<1> DEFINE Same == Told(script') \subseteq Told(script)
           Starts == \A e \in Told(script') : e.type = "run.started" => e.data = mode
           Says0 == \A e \in Told(script') :
                      e.type = "host.decision_created" => e.data.tasks = <<>>
<1>0. TypeOK /\ ControlOK /\ ScriptOK /\ ExecOK /\ ActiveOK /\ AgreeOK
  BY DEF TraceInv
<1>1. script' = <<>> \/ script' = script => Same
  BY ToldOf
<1>2. (\A e \in Told(script') : e.type \notin Plans) => Starts /\ Says0
  BY DEF Plans
<1>3. FromRoot(script') => Starts /\ Says0
  BY DEF FromRoot, RunSays
<1>4. CASE Start
  BY <1>0, <1>4, StartSays
<1>5. CASE OpenRound
  <2>1. \A e \in Told(script') : e.type \notin Plans
    BY <1>0, <1>5, OpenRoundSays
  <2> QED BY <1>2, <2>1
<1>6. CASE HostFails
  BY <1>3, <1>6, HostFailsSays
<1>7. CASE \E S \in Decisions : Delegate(S)
  <2>1. PICK S \in Decisions : Delegate(S)
    BY <1>7
  <2>2. \A e \in Told(script') :
          /\ e.type # "run.started"
          /\ e.type = "host.decision_created" => e = Decision("delegate", S)
    BY <1>0, <2>1, DelegateSays
  <2> QED BY <2>1, <2>2
<1>8. CASE \E action \in {"respond", "complete", "stop"}, breaks \in BOOLEAN :
             HostAnswers(action, breaks)
  <2>1. FromRoot(script')
    BY <1>0, <1>8, HostAnswersSays
  <2> QED BY <1>3, <2>1
<1>9. CASE \E e \in ProgressEvents : Progress(e)
  <2>1. \A e \in Told(script') : e.type \notin Plans
    BY <1>0, <1>9, ProgressSays
  <2> QED BY <1>2, <2>1
<1>10. CASE \E again \in SUBSET Retried : Gathered(again)
  <2>1. \A e \in Told(script') : e.type \notin Plans
    BY <1>0, <1>10, GatheredSays
  <2> QED BY <1>2, <2>1
<1>11. CASE \E a \in Approvals : DirectAsks(a)
  BY <1>3, <1>11, DirectAsksSays
<1>12. CASE \E how \in {"answered", "asked", "failed"}, says \in BOOLEAN : DirectEnds(how, says)
  BY <1>3, <1>12, DirectEndsSays
<1>13. CASE \E grade \in {"sufficient", "insufficient"} : Resume(grade)
  <2>1. script' = <<>> \/ script' = <<RootEv("host.planning")>>
    BY <1>13 DEF Resume, Says
  <2>2. ASSUME script' = <<RootEv("host.planning")>>
        PROVE  \A e \in Told(script') : e.type \notin Plans
    <3>1. Told(script') = {RootEv("host.planning")} /\ RootEv("host.planning").type = "host.planning"
      BY <2>2, ToldOf DEF RootEv, Ev
    <3> QED BY <3>1 DEF Plans
  <2> QED BY <1>1, <1>2, <2>1, <2>2
<1>14. CASE Emit
  BY <1>0, <1>14, EmitTells
<1>15. CASE UNCHANGED vars \/ Gather \/ Close \/ Pause \/ Return
  BY <1>1, <1>15 DEF vars, Gather, Close, Pause, Return, Says
<1>16. CASE \E t \in Tasks, v \in {"sufficient", "insufficient", "failed"} : RemoteReturns(t, v)
  BY <1>1, <1>16 DEF RemoteReturns
<1>17. CASE \E t \in Tasks, a \in Approvals : RemoteAsks(t, a)
  BY <1>1, <1>17 DEF RemoteAsks
<1>18. CASE \E a \in Approvals, d \in {"approved", "rejected"} : Decide(a, d)
  BY <1>1, <1>18 DEF Decide
<1>19. CASE \E res \in {"completed", "failed", "other"} : JobGoesOn(res)
  BY <1>1, <1>19 DEF JobGoesOn
<1>20. CASE \E b \in Approvals : NextOfBatch(b)
  BY <1>1, <1>20 DEF NextOfBatch
<1>21. CASE \E res \in {"completed", "failed"} : DirectDecided(res)
  BY <1>1, <1>21 DEF DirectDecided
<1>22. CASE Cancel \/ Supersede \/ CutOff \/ Restart
  BY <1>1, <1>22 DEF Cancel, StopsProducer, Supersede, CutOff, Restart, Says
<1> QED BY <1>4, <1>5, <1>6, <1>7, <1>8, <1>9, <1>10, <1>11, <1>12, <1>13, <1>14, <1>15, <1>16,
           <1>17, <1>18, <1>19, <1>20, <1>21, <1>22 DEF Next

LEMMA ToldLess ==
  ASSUME NEW a, NEW b, \A e \in Told(a) : e.type \in Plans => e \in Told(b)
  PROVE  DecisionsIn(a) \subseteq DecisionsIn(b)
BY DEF DecisionsIn, Plans

\* What is told keeps the lists, and the rows of the tasks in them.
LEMMA TellsLine ==
  ASSUME ViewOK(view), row \in Rows, LineOK, NEW q, Tells(q)
  PROVE  /\ Lined(view') /\ Rowed(view', row')
         /\ view'.mode = "direct" => mode = "direct"
         /\ mode = "direct" => \A n \in Rounds : view'.round[n].tasks = <<>>
         /\ \A d \in DecisionsIn(script) : NewTo(d, view')
<1>1. /\ q \in Seq(Events) /\ view' = ViewAfter(view, q)
      /\ \A e \in Told(q) : e.type \in Plans => e \in Told(script)
      /\ \/ row' = Applied(row, q)
         \/ /\ \A t \in Children : Silent(q, t) /\ row'[t] \in {row[t], "cancelled", "interrupted"}
            /\ \A e \in Told(q) : e.type \notin Plans
  BY DEF Tells
<1>2. DecisionsIn(q) \subseteq DecisionsIn(script)
  BY <1>1, ToldLess
<1>3. /\ Lined(view) /\ Rowed(view, row) /\ PlanOK
      /\ view.mode = "direct" => mode = "direct"
      /\ mode = "direct" => \A n \in Rounds : view.round[n].tasks = <<>>
  BY DEF LineOK
<1>4. /\ \A c, d \in DecisionsIn(q) : Apart(c, d)
      /\ \A d \in DecisionsIn(q) : NewTo(d, view)
      /\ \A d \in DecisionsIn(script) : \A c \in DecisionsIn(q) : Apart(c, d)
      /\ mode = "direct" => \A d \in DecisionsIn(q) : d.tasks = <<>>
  BY <1>2, <1>3 DEF PlanOK
<1>5. /\ Lined(view')
      /\ \A d : NewTo(d, view) /\ (\A c \in DecisionsIn(q) : Apart(c, d)) => NewTo(d, view')
      /\ DecisionsIn(q) = {} => \A n \in Rounds : view'.round[n].tasks = view.round[n].tasks
  BY <1>1, <1>3, <1>4, AfterLined
<1>6. \A d \in DecisionsIn(script) : NewTo(d, view')
  BY <1>3, <1>4, <1>5 DEF PlanOK
<1>7. /\ \A n \in Rounds :
           \/ view'.round[n].tasks = view.round[n].tasks
           \/ \E d \in DecisionsIn(q) : view'.round[n].tasks = d.tasks
      /\ view'.mode = view.mode \/ \E e \in Told(q) : e.type = "run.started" /\ view'.mode = e.data
  BY <1>1, <1>3, AfterAdds DEF Lined
<1>8. view'.mode = "direct" => mode = "direct"
  BY <1>1, <1>3, <1>7 DEF PlanOK, Plans
<1>9. mode = "direct" => \A n \in Rounds : view'.round[n].tasks = <<>>
  BY <1>3, <1>4, <1>7
<1>10. ASSUME NEW n \in Rounds, NEW t \in Told(view'.round[n].tasks)
       PROVE  row'[t] # "none"
  <2>1. t \in Tasks
    BY <1>5 DEF Lined, Named
  <2>2. CASE row' = Applied(row, q)
    <3>1. row[t] # "none" \/ \E d \in DecisionsIn(q) : t \in Told(d.tasks)
      BY <1>3, <1>7 DEF Rowed
    <3> QED BY <1>1, <2>1, <2>2, <3>1, AfterRows
  <2>3. CASE /\ \A u \in Children : row'[u] \in {row[u], "cancelled", "interrupted"}
             /\ \A e \in Told(q) : e.type \notin Plans
    <3>1. DecisionsIn(q) = {}
      BY <2>3 DEF DecisionsIn, Plans
    <3>2. t \in Told(view.round[n].tasks)
      BY <1>5, <3>1
    <3>3. t \in Children
      <4> DEFINE s == view.round[n].tasks
      <4>1. s \in Decisions \cup {<<>>} /\ t \in Told(s)
        BY <3>2 DEF ViewOK, RoundStates
      <4> HIDE DEF s
      <4>2. CASE s \in Decisions
        <5>1. s \in Seq(Children)
          BY <4>2, TraceConstantsOK DEF Children
        <5> QED BY <4>1, <5>1 DEF Told
      <4>3. CASE s = <<>>
        BY <4>1, <4>3, ToldOf
      <4> QED BY <4>1, <4>2, <4>3
    <3> QED BY <1>3, <2>3, <3>2, <3>3 DEF Rowed
  <2> QED BY <1>1, <2>2, <2>3
<1> QED BY <1>5, <1>6, <1>8, <1>9, <1>10 DEF Rowed

LEMMA NextLine ==
  ASSUME TraceInv, LineOK, [Next]_vars
  PROVE  LineOK'
<1>1. ViewOK(view) /\ row \in Rows /\ ControlOK
  BY DEF TraceInv, ViewsOK, TypeOK, Rows, RowStates
<1>2. mode' = mode
  BY ModeStays
<1>3. /\ Lined(view') /\ Rowed(view', row')
      /\ view'.mode = "direct" => mode = "direct"
      /\ mode = "direct" => \A n \in Rounds : view'.round[n].tasks = <<>>
      /\ \A d \in DecisionsIn(script) : NewTo(d, view')
  <2>1. CASE \E q : Tells(q)
    BY <1>1, <2>1, TellsLine
  <2>2. CASE \E a \in Approvals, d \in {"approved", "rejected"} : Decide(a, d)
    <3>1. /\ view'.order = view.order /\ view'.rounds = view.rounds /\ view'.mode = view.mode
          /\ view'.round = view.round /\ view'.task = view.task /\ row' = row
      BY <1>1, <2>2, DecideIs
    <3> QED BY <3>1 DEF LineOK, PlanOK, Lined, Named, Numbered, Rowed, NewTo
  <2> QED BY <2>1, <2>2, NextTells
<1>4. PlanOK'
  <2>1. PlanOK
    BY DEF LineOK
  <2>2. CASE Told(script') \subseteq Told(script)
    <3>1. DecisionsIn(script') \subseteq DecisionsIn(script)
      BY <2>2, ToldLess
    <3> QED BY <1>2, <1>3, <2>1, <2>2, <3>1 DEF PlanOK
  <2>3. CASE /\ \A e \in Told(script') : e.type = "run.started" => e.data = mode
             /\ \A e \in Told(script') : e.type = "host.decision_created" => e.data.tasks = <<>>
    <3>1. \A d \in DecisionsIn(script') : d.tasks = <<>> /\ Told(d.tasks) = {}
      BY <2>3, ToldOf DEF DecisionsIn
    <3> QED BY <1>2, <2>3, <3>1 DEF PlanOK, Apart, NewTo, Disjoint
  <2>4. ASSUME \A e \in Told(script') : e.type = "run.started" => e.data = mode,
               NEW S \in Decisions, Delegate(S),
               \A e \in Told(script') :
                 e.type = "host.decision_created" => e = Decision("delegate", S)
        PROVE  PlanOK'
    <3>1. \A d \in DecisionsIn(script') : d.tasks = S /\ d.round = round
      BY <2>4 DEF DecisionsIn, Decision, Ev
    <3>2. view' = view /\ \A i \in DOMAIN S : row[S[i]] = "none"
      BY <2>4 DEF Delegate, views
    <3>3. \A n \in Rounds : Disjoint(S, view'.round[n].tasks)
      BY <3>2 DEF LineOK, Rowed, Disjoint, Told
    <3>4. mode # "direct"
      BY <1>1, <2>4 DEF Delegate, Ready, ControlOK
    <3> QED BY <1>2, <2>4, <3>1, <3>3, <3>4 DEF PlanOK, Apart, NewTo
  <2> QED BY <2>2, <2>3, <2>4, ScriptPlans
<1> QED BY <1>2, <1>3, <1>4 DEF LineOK

\* THEOREM: the time line of the workspace and the flow of the task page show the same
\* tasks in the same order, every task of the trace once, whatever rounds the Host
\* opened, answered in or left half way (roundTimeline.js buildRoundTimeline;
\* taskExplorer.js buildTaskFlow; runEvents.js reduceNormalizedEvent).
THEOREM TimelineIsWhole == Spec => []TimelineShowsEachTaskOnce
<1>1. Init => LineOK
  BY InitLine
<1>2. TraceInv /\ LineOK /\ [Next]_vars => LineOK'
  BY NextLine
<1>3. TraceInv /\ LineOK => TimelineShowsEachTaskOnce
  <2> SUFFICES ASSUME TraceInv, LineOK PROVE TimelineShowsEachTaskOnce
    OBVIOUS
  <2>1. ViewOK(view)
    BY DEF TraceInv, ViewsOK
  <2>2. /\ Lined(view)
        /\ view.mode = "direct" => \A n \in Rounds : view.round[n].tasks = <<>>
    BY DEF LineOK
  <2>3. Timeline(view) = TaskFlow(view) /\ Lists(Timeline(view), Named(view))
    BY <2>1, <2>2, LineIs
  <2> DEFINE line == Timeline(view)
  <2>4. line = TaskFlow(view) /\ Lists(line, Named(view))
    BY <2>3
  <2> HIDE DEF line
  <2>5. /\ \A t \in Named(view) : InSeq(line, t)
        /\ \A i, j \in DOMAIN line : line[i] = line[j] => i = j
    BY <2>4 DEF Lists, Listing!Lists, InSeq
  <2> QED BY <2>4, <2>5 DEF TimelineShowsEachTaskOnce, line, Named
<1> QED BY <1>1, <1>2, <1>3, TraceIsInvariant, PTL DEF Spec
=============================================================================
