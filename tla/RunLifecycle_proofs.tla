------------------------ MODULE RunLifecycle_proofs ------------------------
(***************************************************************************)
(* Theorems about RunLifecycle, for any number of Runs, tasks, approvals   *)
(* and restarts: types, decisions, the Host's loop; then what the log says *)
(* of a success, what a producer whose Run was cancelled may still do, and *)
(* which writes may be shown as completed.                                 *)
(***************************************************************************)
EXTENDS RunLifecycle, TLAPS

-----------------------------------------------------------------------------
(***************************************************************************)
(* Type correctness.                                                       *)
(***************************************************************************)

\* Every status the drivers can write is a status of a Run: a terminal one, or
\* approval_required.
LEMMA FinalStatusType ==
  ASSUME NEW d, NEW how \in {"complete", "stop", "error", "awaiting"},
         NEW evals, NEW hasFailed \in BOOLEAN
  PROVE  FinalStatus(d, how, evals, hasFailed) \in Terminal \cup {"approval_required"}
BY DEF FinalStatus, Terminal

\* The words the actions write.
LEMMA StatusWords ==
  /\ {"running", "approval_required", "failed", "completed"} \subseteq RunStatus
  /\ {"working", "approval_required", "completed", "failed", "blocked"} \subseteq TaskStatus
BY DEF RunStatus, TaskStatus, Terminal

\* The Run a driver works for is a Run, and its root a task.
LEMMA DriverRunType ==
  ASSUME NEW d \in Drivers
  PROVE  DriverRun(d) \in Runs /\ Root[DriverRun(d)] \in Tasks
BY ConstantsOK DEF Drivers, DriverRun, ApRun

\* The step that ends a driver keeps the types of what it writes.
LEMMA FinishType ==
  ASSUME TypeOK, NEW d \in Drivers,
         NEW how \in {"complete", "stop", "error", "awaiting"},
         NEW tasks \in [Tasks -> TaskStatus], NEW evals,
         NEW hasFailed \in BOOLEAN, Finish(d, how, tasks, evals, hasFailed)
  PROVE  /\ status' \in [Runs -> RunStatus]
         /\ task' \in [Tasks -> TaskStatus]
         /\ outcome' \in [Runs -> Seq(Terminal)]
         /\ driver' \in [Drivers -> DriverStates]
<1> DEFINE r == DriverRun(d)
           final == FinalStatus(d, how, evals, hasFailed)
<1>1. r \in Runs /\ Root[r] \in Tasks
  BY DriverRunType
<1>2. final \in Terminal \cup {"approval_required"}
  BY FinalStatusType
<1>3. RootStatus(d, final) \in TaskStatus
  BY DEF RootStatus, TaskStatus
<1> HIDE DEF r, final
<1>4. /\ status' = [status EXCEPT ![r] = final]
      /\ task' = [tasks EXCEPT ![Root[r]] = RootStatus(d, final)]
      /\ outcome' = IF final = "approval_required" THEN outcome
                    ELSE [outcome EXCEPT ![r] = Append(@, final)]
      /\ driver' = [driver EXCEPT ![d] = "ended"]
  BY DEF Finish, r, final
<1>5. status' \in [Runs -> RunStatus]
  BY <1>2, <1>4 DEF TypeOK, RunStatus
<1>6. task' \in [Tasks -> TaskStatus]
  BY <1>3, <1>4
<1>7. outcome' \in [Runs -> Seq(Terminal)]
  <2>1. CASE final = "approval_required"
    BY <2>1, <1>4 DEF TypeOK
  <2>2. CASE final # "approval_required"
    <3>1. final \in Terminal
      BY <2>2, <1>2
    <3>2. Append(outcome[r], final) \in Seq(Terminal)
      BY <3>1, <1>1 DEF TypeOK
    <3> QED BY <3>2, <2>2, <1>4 DEF TypeOK
  <2> QED BY <2>1, <2>2
<1>8. driver' \in [Drivers -> DriverStates]
  BY <1>4 DEF TypeOK, DriverStates
<1> QED BY <1>5, <1>6, <1>7, <1>8

\* The helpers that rewrite several rows at once keep the types.
LEMMA WithTasksType ==
  ASSUME TypeOK, NEW S, NEW v \in TaskStatus
  PROVE  WithTasks(S, v) \in [Tasks -> TaskStatus]
BY DEF TypeOK, WithTasks

\* Cancelling a Run keeps the types of its rows.
LEMMA CancelRowsType ==
  ASSUME TypeOK, NEW r \in Runs, CancelRows(r)
  PROVE  /\ status' \in [Runs -> RunStatus]
         /\ task' \in [Tasks -> TaskStatus]
         /\ outcome' \in [Runs -> Seq(Terminal)]
<1>1. status' \in [Runs -> RunStatus]
  BY DEF CancelRows, TypeOK, RunStatus, Terminal
<1>2. task' \in [Tasks -> TaskStatus]
  BY WithTasksType DEF CancelRows, TaskStatus
<1>3. outcome' \in [Runs -> Seq(Terminal)]
  <2>1. Append(outcome[r], "cancelled") \in Seq(Terminal)
    BY DEF TypeOK, Terminal
  <2> QED BY <2>1 DEF CancelRows, TypeOK
<1> QED BY <1>1, <1>2, <1>3

\* So does ending its producer task.
LEMMA EndProducerType ==
  ASSUME TypeOK, NEW r \in Runs, EndProducer(r)
  PROVE  /\ driver' \in [Drivers -> DriverStates]
         /\ exec' \in [Tasks -> ExecStatus]
BY ConstantsOK DEF EndProducer, TypeOK, Drivers, DriverStates, ExecStatus

\* The variables the start of a resume writes.
ResumeRows ==
  /\ status \in [Runs -> RunStatus]
  /\ task \in [Tasks -> TaskStatus]
  /\ outcome \in [Runs -> Seq(Terminal)]
  /\ driver \in [Drivers -> DriverStates]
  /\ verdicts \in [Approvals -> Nat]
  /\ paused \in [Approvals -> Tasks \cup {NoTask}]

\* They keep their types, whichever of its returns it takes.
LEMMA SettleType ==
  ASSUME TypeOK, NEW a \in Approvals, NEW t,
         NEW stat \in [Runs -> RunStatus],
         NEW settled \in TaskStatus, Settle(a, t, stat, settled)
  PROVE  ResumeRows'
<1>1. ApRun(a) \in Runs /\ a \in Drivers
  BY ConstantsOK DEF ApRun, Drivers
<1>2. Append(outcome[ApRun(a)], "failed") \in Seq(Terminal)
  BY <1>1 DEF TypeOK, Terminal
<1>3. task' \in [Tasks -> TaskStatus]
  BY DEF Settle, TypeOK, TaskStatus
<1>4. outcome' \in [Runs -> Seq(Terminal)]
  BY <1>2 DEF Settle, TypeOK
<1>5. status' \in [Runs -> RunStatus]
  BY DEF Settle, TypeOK, RunStatus, Terminal
<1>6. driver' \in [Drivers -> DriverStates]
  BY DEF Settle, TypeOK, DriverStates, ResumeStates
<1>7. verdicts' \in [Approvals -> Nat] /\ paused' \in [Approvals -> Tasks \cup {NoTask}]
  BY DEF Settle, TypeOK
<1> QED BY <1>3, <1>4, <1>5, <1>6, <1>7 DEF ResumeRows

\* Whichever way a resume returns, the rows it writes keep their types.
LEMMA ResumeType ==
  ASSUME TypeOK, NEW a \in Approvals, NEW stat \in [Runs -> RunStatus],
         NEW res, Resume(a, stat, res)
  PROVE  ResumeRows'
<1>1. CASE NothingToResume(a, stat, res)
  BY <1>1 DEF NothingToResume, TypeOK, DriverStates, ResumeRows
<1>2. ASSUME NEW t \in Tasks, RecordFollowup(a, t, stat)
      PROVE  ResumeRows'
  <2>1. /\ status' \in [Runs -> RunStatus]
        /\ task' \in [Tasks -> TaskStatus]
    BY <1>2, StatusWords DEF RecordFollowup, TypeOK
  <2>2. driver' \in [Drivers -> DriverStates]
    BY <1>2 DEF RecordFollowup, TypeOK, DriverStates
  <2>5. verdicts' \in [Approvals -> Nat]
    BY <1>2 DEF RecordFollowup, TypeOK
  <2> QED BY <1>2, <2>1, <2>2, <2>5 DEF RecordFollowup, TypeOK, ResumeRows
<1>3. ASSUME NEW t \in Tasks, Evaluate(a, t, stat)
      PROVE  ResumeRows'
  BY <1>3 DEF Evaluate, TypeOK, DriverStates, ResumeStates, ResumeRows
<1>4. ASSUME NEW t \in Tasks, NEW settled \in {"blocked", "failed", "completed"},
             Settle(a, t, stat, settled)
      PROVE  ResumeRows'
  BY <1>4, SettleType DEF TaskStatus
<1> QED BY <1>1, <1>2, <1>3, <1>4 DEF Resume

\* The same for a job that may have to wait for the lock first.
LEMMA ResumeOrWaitType ==
  ASSUME TypeOK, NEW a \in Approvals, NEW stat \in [Runs -> RunStatus],
         NEW res \in Results, ResumeOrWait(a, stat, res)
  PROVE  ResumeRows' /\ result' \in [Approvals -> Results]
<1>1. CASE LockFree(a)
  BY <1>1, ResumeType DEF ResumeOrWait, TypeOK
<1>2. CASE ~LockFree(a)
  BY <1>2 DEF ResumeOrWait, TypeOK, DriverStates, ResumeRows
<1> QED BY <1>1, <1>2

-----------------------------------------------------------------------------
(***************************************************************************)
(* One lemma per group of actions.                                         *)
(***************************************************************************)
\* A new message keeps the types, of the Runs it supersedes too.
LEMMA StartRunType ==
  ASSUME TypeOK, NEW r \in Runs, StartRun(r)
  PROVE  TypeOK'
<1>1. Root[r] \in Tasks /\ r \in Drivers
  BY ConstantsOK DEF Drivers
<1>2. /\ approval' \in [Approvals -> ApprovalStatus]
      /\ status' \in [Runs -> RunStatus]
      /\ task' \in [Tasks -> TaskStatus]
  BY <1>1 DEF StartRun, TypeOK, ApprovalStatus, RunStatus, Terminal, TaskStatus
<1>3. /\ driver' \in [Drivers -> DriverStates]
      /\ round' \in [Drivers -> SUBSET Tasks]
      /\ exec' \in [Tasks -> ExecStatus]
  <2>1. CASE Mode[r] = "auto"
    BY <1>1, <2>1 DEF StartRun, TypeOK, DriverStates, ResumeStates
  <2>2. CASE Mode[r] # "auto"
    <3>1. {Root[r]} \in SUBSET Tasks
      BY <1>1
    <3> QED BY <2>2, <3>1 DEF StartRun, TypeOK, DriverStates, ResumeStates, ExecStatus
  <2> QED BY <2>1, <2>2
<1> QED BY <1>2, <1>3 DEF StartRun, TypeOK

\* So does every step of the Host loop, for the producer and for a resume.
LEMMA HostLoopType ==
  ASSUME TypeOK, NEW d \in Drivers, HostLoop(d)
  PROVE  TypeOK'
<1>1. DriverRun(d) \in Runs /\ Root[DriverRun(d)] \in Tasks
  BY DriverRunType
<1>2. ASSUME NEW S \in SUBSET Delegable(DriverRun(d)), HostDelegates(d, S)
      PROVE  TypeOK'
  <2>1. S \subseteq Tasks
    BY <1>1 DEF Delegable
  <2>2. task' \in [Tasks -> TaskStatus]
    BY <1>2, WithTasksType DEF HostDelegates, TaskStatus
  <2>3. /\ exec' \in [Tasks -> ExecStatus]
        /\ round' \in [Drivers -> SUBSET Tasks]
        /\ driver' \in [Drivers -> DriverStates]
    BY <1>2, <2>1 DEF HostDelegates, TypeOK, ExecStatus, DriverStates, ResumeStates
  <2> QED BY <1>2, <2>2, <2>3 DEF HostDelegates, TypeOK
<1>3. ASSUME NEW how \in {"complete", "stop", "error"}, HostStops(d, how)
      PROVE  TypeOK'
  <2>1. task \in [Tasks -> TaskStatus] /\ (d \in failed) \in BOOLEAN
    BY DEF TypeOK
  <2>2. Finish(d, how, task, evaluated, d \in failed)
    BY <1>3 DEF HostStops
  <2>3. /\ status' \in [Runs -> RunStatus]
        /\ task' \in [Tasks -> TaskStatus]
        /\ outcome' \in [Runs -> Seq(Terminal)]
        /\ driver' \in [Drivers -> DriverStates]
    BY <2>1, <2>2, FinishType
  <2> QED BY <1>3, <2>3 DEF HostStops, TypeOK
<1>4. CASE RoundEnds(d)
  <2> DEFINE S == round[d]
             observed == [t \in Tasks |->
               IF t \notin S THEN task[t]
               ELSE IF exec[t] = "approval" THEN "approval_required"
               ELSE IF exec[t] = "failed" THEN "failed" ELSE "completed"]
             hasFailed == d \in failed \/ \E t \in S : exec[t] = "failed"
  <2>1. S \subseteq Tasks
    BY DEF TypeOK
  <2>2. observed \in [Tasks -> TaskStatus]
    BY DEF TypeOK, TaskStatus
  <2>3. hasFailed \in BOOLEAN
    OBVIOUS
  <2>4. /\ evaluated' = evaluated \cup S
        /\ failed' = IF hasFailed THEN failed \cup {d} ELSE failed
        /\ round' = [round EXCEPT ![d] = {}]
        /\ IF \E t \in S : exec[t] = "approval"
           THEN Finish(d, "awaiting", observed, evaluated \cup S, hasFailed)
           ELSE /\ task' = [observed EXCEPT ![Root[DriverRun(d)]] = "working"]
                /\ driver' = [driver EXCEPT ![d] = "deciding"]
                /\ UNCHANGED <<status, outcome>>
        /\ UNCHANGED <<approval, result, paused, exec, executed, verdicts, crashes>>
    BY <1>4 DEF RoundEnds
  <2> HIDE DEF S, observed, hasFailed
  <2>5. /\ status' \in [Runs -> RunStatus]
        /\ task' \in [Tasks -> TaskStatus]
        /\ outcome' \in [Runs -> Seq(Terminal)]
        /\ driver' \in [Drivers -> DriverStates]
    <3>1. CASE \E t \in S : exec[t] = "approval"
      BY <3>1, <2>2, <2>3, <2>4, FinishType
    <3>2. CASE ~ \E t \in S : exec[t] = "approval"
      BY <3>2, <2>2, <2>4 DEF TypeOK, TaskStatus, DriverStates, ResumeStates
    <3> QED BY <3>1, <3>2
  <2>6. /\ evaluated' \subseteq Tasks
        /\ failed' \subseteq Drivers
        /\ round' \in [Drivers -> SUBSET Tasks]
    BY <2>1, <2>4 DEF TypeOK
  <2> QED BY <2>4, <2>5, <2>6 DEF TypeOK
<1> QED BY <1>2, <1>3, <1>4 DEF HostLoop

\* So does every step of a producer.
LEMMA ProducerType ==
  ASSUME TypeOK, NEW r \in Runs, Producer(r)
  PROVE  TypeOK'
<1>1. r \in Drivers /\ DriverRun(r) = r /\ Root[r] \in Tasks
  BY ConstantsOK DEF Drivers, DriverRun
<1>2. CASE HostLoop(r)
  BY <1>1, <1>2, HostLoopType
<1>3. CASE ProducerNoticesCancel(r)
  BY <1>1, <1>3 DEF ProducerNoticesCancel, TypeOK, DriverStates
<1>4. ASSUME NEW a \in Approvals, DirectAsks(r, a)
      PROVE  TypeOK'
  <2>1. /\ approval' \in [Approvals -> ApprovalStatus]
        /\ status' \in [Runs -> RunStatus]
        /\ task' \in [Tasks -> TaskStatus]
        /\ exec' \in [Tasks -> ExecStatus]
    BY <1>1, <1>4
       DEF DirectAsks, TypeOK, ApprovalStatus, RunStatus, TaskStatus, ExecStatus
  <2> QED BY <1>4, <2>1 DEF DirectAsks, TypeOK
<1>5. ASSUME NEW how \in {"complete", "error"}, DirectEnds(r, how)
      PROVE  TypeOK'
  <2> DEFINE asked == exec[Root[r]] = "approval" /\ how = "complete"
  <2>1. Finish(r, IF asked THEN "awaiting" ELSE how, task, evaluated, FALSE)
    BY <1>5 DEF DirectEnds
  <2>2. (IF asked THEN "awaiting" ELSE how) \in {"complete", "stop", "error", "awaiting"}
    OBVIOUS
  <2>3. task \in [Tasks -> TaskStatus]
    BY DEF TypeOK
  <2>4. /\ status' \in [Runs -> RunStatus]
        /\ task' \in [Tasks -> TaskStatus]
        /\ outcome' \in [Runs -> Seq(Terminal)]
        /\ driver' \in [Drivers -> DriverStates]
    BY <1>1, <2>1, <2>2, <2>3, FinishType
  <2>5. /\ round' \in [Drivers -> SUBSET Tasks]
        /\ exec' \in [Tasks -> ExecStatus]
    BY <1>1, <1>5 DEF DirectEnds, TypeOK, ExecStatus
  <2> QED BY <1>5, <2>4, <2>5 DEF DirectEnds, TypeOK
<1> QED BY <1>2, <1>3, <1>4, <1>5 DEF Producer

\* So does every step of the job that works off a decision.
LEMMA JobType ==
  ASSUME TypeOK, NEW a \in Approvals, Job(a)
  PROVE  TypeOK'
<1>1. a \in Drivers /\ ApRun(a) \in Runs /\ Root[ApRun(a)] \in Tasks
  BY ConstantsOK DEF Drivers, ApRun
<1>2. CASE Deliver(a)
  BY <1>1, <1>2 DEF Deliver, TypeOK, DriverStates
<1>3. ASSUME NEW res \in {"completed", "failed", "other"}, AutoReturn(a, res)
      PROVE  TypeOK'
  <2> DEFINE stat == [status EXCEPT ![ApRun(a)] =
                        IF res = "failed" THEN "failed" ELSE "running"]
  <2>1. stat \in [Runs -> RunStatus] /\ res \in Results
    BY DEF TypeOK, RunStatus, Terminal, Results
  <2>2. ResumeOrWait(a, stat, res)
    BY <1>3 DEF AutoReturn
  <2> HIDE DEF stat
  <2> QED BY <1>3, <2>1, <2>2, ResumeOrWaitType DEF AutoReturn, TypeOK, ResumeRows
<1>4. ASSUME NEW res \in {"completed", "failed", "other"}, DirectReturn(a, res)
      PROVE  TypeOK'
  <2>1. \A v \in {"failed", "completed"} : Append(outcome[ApRun(a)], v) \in Seq(Terminal)
    BY <1>1 DEF TypeOK, Terminal
  <2>2. outcome' \in [Runs -> Seq(Terminal)]
    BY <1>4, <2>1 DEF DirectReturn, TypeOK
  <2>3. /\ status' \in [Runs -> RunStatus]
        /\ task' \in [Tasks -> TaskStatus]
    BY <1>4 DEF DirectReturn, TrailingStatus, TypeOK, RunStatus, TaskStatus, Terminal
  <2>4. driver' \in [Drivers -> DriverStates]
    BY <1>4 DEF DirectReturn, TypeOK, DriverStates
  <2>5. verdicts' \in [Approvals -> Nat]
    BY <1>4 DEF DirectReturn, TypeOK
  <2> QED BY <1>4, <2>2, <2>3, <2>4, <2>5 DEF DirectReturn, TypeOK
<1>5. ASSUME NEW b \in Approvals, AutoFollowup(a, b)
      PROVE  TypeOK'
  <2> DEFINE stat == [status EXCEPT ![ApRun(a)] = "approval_required"]
  <2>1. stat \in [Runs -> RunStatus] /\ "followup" \in Results
    BY DEF TypeOK, RunStatus, Results
  <2>2. ResumeOrWait(a, stat, "followup")
    BY <1>5 DEF AutoFollowup
  <2>3. approval' \in [Approvals -> ApprovalStatus]
    BY <1>5 DEF AutoFollowup, TypeOK, ApprovalStatus
  <2> HIDE DEF stat
  <2> QED BY <1>5, <2>1, <2>2, <2>3, ResumeOrWaitType DEF AutoFollowup, TypeOK, ResumeRows
<1>6. ASSUME NEW b \in Approvals, DirectFollowup(a, b)
      PROVE  TypeOK'
  <2>1. /\ task' \in [Tasks -> TaskStatus]
        /\ status' \in [Runs -> RunStatus]
    BY <1>6, StatusWords DEF DirectFollowup, TypeOK
  <2>3. approval' \in [Approvals -> ApprovalStatus]
    BY <1>6 DEF DirectFollowup, TypeOK, ApprovalStatus
  <2>2. driver' \in [Drivers -> DriverStates]
    BY <1>6 DEF DirectFollowup, TypeOK, DriverStates
  <2>5. verdicts' \in [Approvals -> Nat]
    BY <1>6 DEF DirectFollowup, TypeOK
  <2> QED BY <1>6, <2>1, <2>2, <2>3, <2>5 DEF DirectFollowup, TypeOK
<1>7. CASE AutoRaises(a)
  <2>1. status \in [Runs -> RunStatus] /\ "failed" \in Results
    BY DEF TypeOK, Results
  <2> QED BY <1>7, <2>1, ResumeOrWaitType DEF AutoRaises, TypeOK, ResumeRows
<1>8. CASE DirectRaises(a)
  BY <1>8 DEF DirectRaises, TypeOK, DriverStates
<1>9. CASE ResumeBegin(a)
  <2>1. status \in [Runs -> RunStatus]
    BY DEF TypeOK
  <2>2. result' \in [Approvals -> Results]
    BY <1>9 DEF ResumeBegin, TypeOK, Results
  <2> QED BY <1>9, <2>1, <2>2, ResumeType DEF ResumeBegin, TypeOK, ResumeRows
<1>10. ASSUME NEW settled \in {"completed", "working"}, Evaluated(a, settled)
       PROVE  TypeOK'
  <2>1. status \in [Runs -> RunStatus] /\ settled \in TaskStatus
    BY DEF TypeOK, TaskStatus
  <2> QED BY <1>10, <2>1, SettleType DEF Evaluated, TypeOK, ResumeRows
<1>11. CASE EvaluationRaises(a)
  BY <1>11 DEF EvaluationRaises, TypeOK, DriverStates
<1>12. CASE HostLoop(a)
  BY <1>1, <1>12, HostLoopType
<1> QED BY <1>2, <1>3, <1>4, <1>5, <1>6, <1>7, <1>8, <1>9, <1>10, <1>11, <1>12 DEF Job

\* So does every answer of a remote agent.
LEMMA ExecutionType ==
  ASSUME TypeOK, NEW t \in Tasks, Execution(t)
  PROVE  TypeOK'
<1>1. ASSUME NEW v \in {"sufficient", "insufficient", "failed"}, RemoteReturns(t, v)
      PROVE  TypeOK'
  BY <1>1 DEF RemoteReturns, TypeOK, ExecStatus
<1>2. ASSUME NEW a \in Approvals, RemoteAsksApproval(t, a)
      PROVE  TypeOK'
  <2>1. /\ approval' \in [Approvals -> ApprovalStatus]
        /\ status' \in [Runs -> RunStatus]
        /\ exec' \in [Tasks -> ExecStatus]
    BY <1>2 DEF RemoteAsksApproval, TypeOK, ApprovalStatus, RunStatus, ExecStatus
  <2> QED BY <1>2, <2>1 DEF RemoteAsksApproval, TypeOK
<1> QED BY <1>1, <1>2 DEF Execution

\* So does a restart of the backend.
LEMMA CrashType ==
  ASSUME TypeOK, Crash
  PROVE  TypeOK'
<1>1. crashes' \in 0..MaxCrashes
  BY ConstantsOK DEF Crash, TypeOK
<1>2. /\ driver' \in [Drivers -> DriverStates]
      /\ exec' \in [Tasks -> ExecStatus]
      /\ status' \in [Runs -> RunStatus]
      /\ task' \in [Tasks -> TaskStatus]
  BY DEF Crash, TypeOK, DriverStates, ExecStatus, RunStatus, Terminal, TaskStatus
<1>3. outcome' \in [Runs -> Seq(Terminal)]
  <2>1. \A r \in Runs : Append(outcome[r], "failed") \in Seq(Terminal)
    BY DEF TypeOK, Terminal
  <2> QED BY <2>1 DEF Crash, TypeOK
<1>4. /\ round' \in [Drivers -> SUBSET Tasks]
      /\ failed' \subseteq Drivers
      /\ result' \in [Approvals -> Results]
      /\ paused' \in [Approvals -> Tasks \cup {NoTask}]
  BY DEF Crash, Results
<1> QED BY <1>1, <1>2, <1>3, <1>4 DEF Crash, TypeOK

\* Every row and every piece of process state keeps its type, whatever the
\* requests, agents and restarts do.
THEOREM TypeCorrect == Spec => []TypeOK
<1>1. Init => TypeOK
  <2> SUFFICES ASSUME Init PROVE TypeOK
    OBVIOUS
  <2>1. crashes \in 0..MaxCrashes
    BY ConstantsOK DEF Init
  <2>2. outcome \in [Runs -> Seq(Terminal)]
    BY DEF Init
  <2> QED
    BY <2>1, <2>2 DEF Init, TypeOK, RunStatus, TaskStatus, ApprovalStatus, DriverStates,
                      Results, ExecStatus
<1>2. TypeOK /\ [Next]_vars => TypeOK'
  <2> SUFFICES ASSUME TypeOK, [Next]_vars PROVE TypeOK'
    OBVIOUS
  <2>1. ASSUME NEW r \in Runs, StartRun(r) PROVE TypeOK'
    BY <2>1, StartRunType
  <2>2. ASSUME NEW r \in Runs, Cancel(r) PROVE TypeOK'
    BY <2>2, CancelRowsType, EndProducerType DEF Cancel, TypeOK
  <2>3. ASSUME NEW a \in Approvals, NEW decision \in {"approved", "rejected"},
               Decide(a, decision)
        PROVE  TypeOK'
    <3>1. /\ approval' \in [Approvals -> ApprovalStatus]
          /\ status' \in [Runs -> RunStatus]
          /\ driver' \in [Drivers -> DriverStates]
      BY <2>3 DEF Decide, TypeOK, ApprovalStatus, RunStatus, DriverStates
    <3> QED BY <2>3, <3>1 DEF Decide, TypeOK
  <2>4. ASSUME NEW r \in Runs, Producer(r) PROVE TypeOK'
    BY <2>4, ProducerType
  <2>5. ASSUME NEW r \in Runs, ProducerAborts(r) PROVE TypeOK'
    BY <2>5, CancelRowsType, EndProducerType DEF ProducerAborts, TypeOK
  <2>6. ASSUME NEW a \in Approvals, Job(a) PROVE TypeOK'
    BY <2>6, JobType
  <2>7. ASSUME NEW t \in Tasks, Execution(t) PROVE TypeOK'
    BY <2>7, ExecutionType
  <2>8. CASE Crash
    BY <2>8, CrashType
  <2>9. CASE UNCHANGED vars
    BY <2>9 DEF vars, TypeOK
  <2> QED BY <2>1, <2>2, <2>3, <2>4, <2>5, <2>6, <2>7, <2>8, <2>9 DEF Next, Request
<1> QED BY <1>1, <1>2, PTL DEF Spec

-----------------------------------------------------------------------------
(***************************************************************************)
(* What the steps do to the drivers.                                       *)
(***************************************************************************)

\* A step of the Host loop moves its own driver only, inside the loop or out of
\* it for good, and touches no approval and no job bookkeeping.
LEMMA HostLoopDriver ==
  ASSUME NEW d \in Drivers, HostLoop(d)
  PROVE  /\ driver[d] \in {"deciding", "delegating"}
         /\ \E v \in {"deciding", "delegating", "ended"} :
              driver' = [driver EXCEPT ![d] = v]
         /\ UNCHANGED <<approval, result, paused, executed, verdicts, crashes>>
<1>1. ASSUME NEW S, HostDelegates(d, S)
      PROVE  /\ driver[d] = "deciding"
             /\ driver' = [driver EXCEPT ![d] = "delegating"]
             /\ UNCHANGED <<approval, result, paused, executed, verdicts, crashes>>
  BY <1>1 DEF HostDelegates
<1>2. ASSUME NEW how, HostStops(d, how)
      PROVE  /\ driver[d] = "deciding"
             /\ driver' = [driver EXCEPT ![d] = "ended"]
             /\ UNCHANGED <<approval, result, paused, executed, verdicts, crashes>>
  BY <1>2 DEF HostStops, Finish
<1>3. ASSUME RoundEnds(d)
      PROVE  /\ driver[d] = "delegating"
             /\ \/ driver' = [driver EXCEPT ![d] = "deciding"]
                \/ driver' = [driver EXCEPT ![d] = "ended"]
             /\ UNCHANGED <<approval, result, paused, executed, verdicts, crashes>>
  BY <1>3 DEF RoundEnds, Finish
<1> QED BY <1>1, <1>2, <1>3 DEF HostLoop

\* The start of a resume moves its own job only; it enters the loop, or waits
\* for the grading with no decision recorded yet, or ends.
LEMMA ResumeDriver ==
  ASSUME NEW a \in Approvals, NEW stat, NEW res, Resume(a, stat, res)
  PROVE  \E v \in {"evaluating", "deciding", "ended"} :
           /\ driver' = [driver EXCEPT ![a] = v]
           /\ \/ verdicts' = verdicts
              \/ v # "evaluating" /\ verdicts' = [verdicts EXCEPT ![a] = @ + 1]
           /\ v # "ended" => \E t \in Tasks : IsPaused(a, t)
BY DEF Resume, NothingToResume, RecordFollowup, Settle, Evaluate

\* The same when the job first waits for the lock.
LEMMA ResumeOrWaitDriver ==
  ASSUME NEW a \in Approvals, NEW stat, NEW res, ResumeOrWait(a, stat, res)
  PROVE  \E v \in {"returned", "evaluating", "deciding", "ended"} :
           /\ driver' = [driver EXCEPT ![a] = v]
           /\ \/ verdicts' = verdicts
              \/ /\ v \in {"deciding", "ended"}
                 /\ verdicts' = [verdicts EXCEPT ![a] = @ + 1]
           /\ v \in ResumeStates => LockFree(a) /\ \E t \in Tasks : IsPaused(a, t)
<1>1. CASE LockFree(a)
  <2>1. Resume(a, stat, res)
    BY <1>1 DEF ResumeOrWait
  <2>2. PICK v \in {"evaluating", "deciding", "ended"} :
          /\ driver' = [driver EXCEPT ![a] = v]
          /\ \/ verdicts' = verdicts
             \/ v # "evaluating" /\ verdicts' = [verdicts EXCEPT ![a] = @ + 1]
          /\ v # "ended" => \E t \in Tasks : IsPaused(a, t)
    BY <2>1, ResumeDriver
  <2>3. v \in ResumeStates => v # "ended"
    BY DEF ResumeStates
  <2> QED BY <1>1, <2>2, <2>3
<1>2. CASE ~LockFree(a)
  BY <1>2 DEF ResumeOrWait, ResumeStates
<1> QED BY <1>1, <1>2

-----------------------------------------------------------------------------
(***************************************************************************)
(* A decision is executed and recorded at most once.                       *)
(*                                                                         *)
(* The counters alone are not inductive: the invariant ties them to where  *)
(* the job of the decision is. No job exists before the claim, and the     *)
(* claim is the only step that starts one.                                 *)
(***************************************************************************)
DecisionInv ==
  \A a \in Approvals :
    /\ approval[a] \in {"unused", "pending"} => driver[a] = "idle"
    /\ driver[a] \in {"idle", "claimed"} => executed[a] = 0
    /\ executed[a] <= 1
    /\ driver[a] \in {"idle", "claimed", "executing", "returned", "evaluating"}
         => verdicts[a] = 0
    /\ verdicts[a] <= 1

\* A step that leaves the approvals and the counters alone and moves a driver
\* inside or out of the Host loop.
LEMMA DecisionInvHostLoop ==
  ASSUME TypeOK, DecisionInv, NEW d \in Drivers, HostLoop(d)
  PROVE  DecisionInv'
BY HostLoopDriver DEF DecisionInv, TypeOK, Drivers

\* A job counts a delivery and a decision once, in that order.
LEMMA DecisionInvJob ==
  ASSUME TypeOK, DecisionInv, NEW a \in Approvals, Job(a)
  PROVE  DecisionInv'
<1>1. a \in Drivers /\ Approvals \subseteq Drivers
  BY DEF Drivers
<1>2. CASE Deliver(a)
  BY <1>1, <1>2 DEF Deliver, DecisionInv, TypeOK
<1>3. ASSUME NEW stat, NEW res, ResumeOrWait(a, stat, res),
             driver[a] \in {"claimed", "executing"}, executed' = executed,
             \A b \in Approvals :
               approval'[b] \in {"unused", "pending"} => approval[b] \in {"unused", "pending"}
      PROVE  DecisionInv'
  BY <1>1, <1>3, ResumeOrWaitDriver DEF DecisionInv, TypeOK
<1>4. ASSUME NEW res, AutoReturn(a, res)
      PROVE  DecisionInv'
  BY <1>3, <1>4 DEF AutoReturn
<1>5. ASSUME NEW b \in Approvals, AutoFollowup(a, b)
      PROVE  DecisionInv'
  <2>1. \A c \in Approvals :
          approval'[c] \in {"unused", "pending"} => approval[c] \in {"unused", "pending"}
    BY <1>5 DEF AutoFollowup, TypeOK
  <2> QED BY <1>3, <1>5, <2>1 DEF AutoFollowup
<1>6. CASE AutoRaises(a)
  BY <1>3, <1>6 DEF AutoRaises
<1>7. ASSUME NEW res, DirectReturn(a, res)
      PROVE  DecisionInv'
  BY <1>1, <1>7 DEF DirectReturn, DecisionInv, TypeOK
<1>8. ASSUME NEW b \in Approvals, DirectFollowup(a, b)
      PROVE  DecisionInv'
  BY <1>1, <1>8 DEF DirectFollowup, DecisionInv, TypeOK
<1>9. CASE DirectRaises(a)
  BY <1>1, <1>9 DEF DirectRaises, DecisionInv, TypeOK
<1>10. CASE ResumeBegin(a)
  <2>1. /\ driver[a] = "returned"
        /\ Resume(a, status, result[a])
        /\ approval' = approval /\ executed' = executed
    BY <1>10 DEF ResumeBegin
  <2>2. PICK v \in {"evaluating", "deciding", "ended"} :
          /\ driver' = [driver EXCEPT ![a] = v]
          /\ \/ verdicts' = verdicts
             \/ v # "evaluating" /\ verdicts' = [verdicts EXCEPT ![a] = @ + 1]
    BY <2>1, ResumeDriver
  <2> QED BY <1>1, <2>1, <2>2 DEF DecisionInv, TypeOK
<1>11. ASSUME NEW settled, Evaluated(a, settled)
       PROVE  DecisionInv'
  BY <1>1, <1>11 DEF Evaluated, Settle, DecisionInv, TypeOK
<1>12. CASE EvaluationRaises(a)
  BY <1>1, <1>12 DEF EvaluationRaises, DecisionInv, TypeOK
<1>13. CASE HostLoop(a)
  BY <1>1, <1>13, DecisionInvHostLoop
<1> QED BY <1>2, <1>4, <1>5, <1>6, <1>7, <1>8, <1>9, <1>10, <1>11, <1>12, <1>13 DEF Job

\* Every step keeps the bookkeeping of the decisions.
LEMMA DecisionInvNext ==
  ASSUME TypeOK, DecisionInv, [Next]_vars
  PROVE  DecisionInv'
<1>1. Approvals \subseteq Drivers /\ Runs \subseteq Drivers /\ Runs \cap Approvals = {}
  BY ConstantsOK DEF Drivers
<1>2. ASSUME NEW r \in Runs, StartRun(r) PROVE DecisionInv'
  BY <1>1, <1>2 DEF StartRun, Superseded, DecisionInv, TypeOK
<1>3. ASSUME NEW r \in Runs, Cancel(r) PROVE DecisionInv'
  BY <1>1, <1>3 DEF Cancel, EndProducer, DecisionInv, TypeOK
<1>4. ASSUME NEW a \in Approvals, NEW decision \in {"approved", "rejected"},
             Decide(a, decision)
      PROVE  DecisionInv'
  BY <1>1, <1>4 DEF Decide, Claimable, DecisionInv, TypeOK
<1>5. ASSUME NEW r \in Runs, Producer(r) PROVE DecisionInv'
  <2>1. CASE HostLoop(r)
    BY <1>1, <2>1, DecisionInvHostLoop
  <2>2. CASE ProducerNoticesCancel(r)
    BY <1>1, <2>2 DEF ProducerNoticesCancel, DecisionInv, TypeOK
  <2>3. ASSUME NEW a \in Approvals, DirectAsks(r, a) PROVE DecisionInv'
    BY <1>1, <2>3 DEF DirectAsks, DecisionInv, TypeOK
  <2>4. ASSUME NEW how, DirectEnds(r, how) PROVE DecisionInv'
    BY <1>1, <2>4 DEF DirectEnds, Finish, DecisionInv, TypeOK
  <2> QED BY <1>5, <2>1, <2>2, <2>3, <2>4 DEF Producer
<1>6. ASSUME NEW r \in Runs, ProducerAborts(r) PROVE DecisionInv'
  BY <1>1, <1>6 DEF ProducerAborts, EndProducer, DecisionInv, TypeOK
<1>7. ASSUME NEW a \in Approvals, Job(a) PROVE DecisionInv'
  BY <1>7, DecisionInvJob
<1>8. ASSUME NEW t \in Tasks, Execution(t) PROVE DecisionInv'
  BY <1>8 DEF Execution, RemoteReturns, RemoteAsksApproval, DecisionInv, TypeOK
<1>9. CASE Crash
  BY <1>1, <1>9 DEF Crash, Active, DecisionInv, TypeOK
<1>10. CASE UNCHANGED vars
  BY <1>10 DEF vars, DecisionInv
<1> QED BY <1>2, <1>3, <1>4, <1>5, <1>6, <1>7, <1>8, <1>9, <1>10 DEF Next, Request

\* No sequence of repeated requests, superseding messages, cancellations and
\* restarts delivers a decision to its agent twice or records it twice.
THEOREM ExecutedAtMostOnce == Spec => []AtMostOneExecution
<1>1. Init => DecisionInv
  BY DEF Init, DecisionInv, Drivers
<1>2. TypeOK /\ DecisionInv /\ [Next]_vars => DecisionInv'
  BY DecisionInvNext
<1>3. TypeOK /\ DecisionInv => AtMostOneExecution
  BY DEF DecisionInv, AtMostOneExecution
<1> QED BY <1>1, <1>2, <1>3, TypeCorrect, PTL DEF Spec

-----------------------------------------------------------------------------
(***************************************************************************)
(* A decision is final.                                                    *)
(***************************************************************************)

\* A producer's steps leave the decided approvals and the jobs alone.
LEMMA ProducerDecisions ==
  ASSUME TypeOK, NEW r \in Runs, Producer(r), NEW a \in Approvals
  PROVE  /\ driver'[a] = driver[a]
         /\ approval[a] \in {"approved", "rejected"} => approval'[a] = approval[a]
<1>1. r \in Drivers /\ a \in Drivers /\ a # r
  BY ConstantsOK DEF Drivers
<1>2. CASE HostLoop(r)
  BY <1>1, <1>2, HostLoopDriver DEF TypeOK
<1>3. CASE ProducerNoticesCancel(r)
  BY <1>1, <1>3 DEF ProducerNoticesCancel, TypeOK
<1>4. ASSUME NEW b \in Approvals, DirectAsks(r, b)
      PROVE  /\ driver'[a] = driver[a]
             /\ approval[a] \in {"approved", "rejected"} => approval'[a] = approval[a]
  BY <1>4 DEF DirectAsks, TypeOK
<1>5. ASSUME NEW how, DirectEnds(r, how)
      PROVE  driver'[a] = driver[a] /\ approval'[a] = approval[a]
  BY <1>1, <1>5 DEF DirectEnds, Finish, TypeOK
<1> QED BY <1>2, <1>3, <1>4, <1>5 DEF Producer

\* A job exists only for a claimed decision, moves no other job and may only
\* add a follow-up to the approvals.
LEMMA JobDecisions ==
  ASSUME TypeOK, NEW b \in Approvals, Job(b), NEW a \in Approvals
  PROVE  /\ driver[b] # "idle"
         /\ a # b => driver'[a] = driver[a]
         /\ \A r \in Runs : driver'[r] = driver[r]
         /\ approval[a] # "unused" => approval'[a] = approval[a]
         /\ approval'[a] = "unused" => approval[a] = "unused"
<1> DEFINE Untouched ==
         /\ driver[b] # "idle"
         /\ a # b => driver'[a] = driver[a]
         /\ \A r \in Runs : driver'[r] = driver[r]
         /\ approval[a] # "unused" => approval'[a] = approval[a]
         /\ approval'[a] = "unused" => approval[a] = "unused"
<1>1. a \in Drivers /\ b \in Drivers /\ Runs \subseteq Drivers /\ b \notin Runs
  BY ConstantsOK DEF Drivers
<1>2. ASSUME NEW v, driver' = [driver EXCEPT ![b] = v], driver[b] # "idle",
             approval' = approval
      PROVE  Untouched
  BY <1>1, <1>2 DEF TypeOK
<1>3. ASSUME NEW v, NEW c \in Approvals, driver' = [driver EXCEPT ![b] = v],
             driver[b] # "idle", approval[c] = "unused",
             approval' = [approval EXCEPT ![c] = "pending"]
      PROVE  Untouched
  BY <1>1, <1>3 DEF TypeOK
<1> HIDE DEF Untouched
<1>4. ASSUME Deliver(b) PROVE Untouched
  BY <1>2, <1>4 DEF Deliver
<1>5. ASSUME NEW res, AutoReturn(b, res) PROVE Untouched
  BY <1>2, <1>5, ResumeOrWaitDriver DEF AutoReturn
<1>6. ASSUME NEW res, DirectReturn(b, res) PROVE Untouched
  BY <1>2, <1>6 DEF DirectReturn
<1>7. ASSUME NEW c \in Approvals, AutoFollowup(b, c) PROVE Untouched
  BY <1>3, <1>7, ResumeOrWaitDriver DEF AutoFollowup
<1>8. ASSUME NEW c \in Approvals, DirectFollowup(b, c) PROVE Untouched
  BY <1>3, <1>8 DEF DirectFollowup
<1>9. ASSUME AutoRaises(b) PROVE Untouched
  BY <1>2, <1>9, ResumeOrWaitDriver DEF AutoRaises
<1>10. ASSUME DirectRaises(b) PROVE Untouched
  BY <1>2, <1>10 DEF DirectRaises
<1>11. ASSUME ResumeBegin(b) PROVE Untouched
  BY <1>2, <1>11, ResumeDriver DEF ResumeBegin
<1>12. ASSUME NEW settled, Evaluated(b, settled) PROVE Untouched
  BY <1>2, <1>12 DEF Evaluated, Settle
<1>13. ASSUME EvaluationRaises(b) PROVE Untouched
  BY <1>2, <1>13 DEF EvaluationRaises
<1>14. ASSUME HostLoop(b) PROVE Untouched
  BY <1>1, <1>2, <1>14, HostLoopDriver
<1> QED
  BY <1>4, <1>5, <1>6, <1>7, <1>8, <1>9, <1>10, <1>11, <1>12, <1>13, <1>14
     DEF Job, Untouched

\* No step changes a decided approval, and a rejection that nobody works off stays
\* without a job.
LEMMA DecisionKept ==
  ASSUME TypeOK, [Next]_vars, NEW a \in Approvals
  PROVE  /\ approval[a] \in {"approved", "rejected"} => approval'[a] = approval[a]
         /\ (approval[a] = "rejected" /\ driver[a] = "idle") => driver'[a] = "idle"
<1> DEFINE Kept ==
      /\ approval[a] \in {"approved", "rejected"} => approval'[a] = approval[a]
      /\ (approval[a] = "rejected" /\ driver[a] = "idle") => driver'[a] = "idle"
<1>0. a \in Drivers /\ Runs \subseteq Drivers /\ Approvals \subseteq Drivers /\ a \notin Runs
  BY ConstantsOK DEF Drivers
<1>1. ASSUME NEW r \in Runs, StartRun(r) PROVE Kept
  BY <1>0, <1>1 DEF StartRun, Superseded, TypeOK
<1>2. ASSUME NEW r \in Runs, Cancel(r) PROVE Kept
  BY <1>0, <1>2 DEF Cancel, EndProducer, TypeOK
<1>3. ASSUME NEW b \in Approvals, NEW decision, Decide(b, decision) PROVE Kept
  BY <1>0, <1>3 DEF Decide, Claimable, TypeOK
<1>4. ASSUME NEW r \in Runs, Producer(r) PROVE Kept
  BY <1>4, ProducerDecisions
<1>5. ASSUME NEW r \in Runs, ProducerAborts(r) PROVE Kept
  BY <1>0, <1>5 DEF ProducerAborts, EndProducer, TypeOK
<1>6. ASSUME NEW b \in Approvals, Job(b) PROVE Kept
  BY <1>6, JobDecisions
<1>7. ASSUME NEW t \in Tasks, Execution(t) PROVE Kept
  BY <1>7 DEF Execution, RemoteReturns, RemoteAsksApproval, TypeOK
<1>8. CASE Crash
  BY <1>0, <1>8 DEF Crash, Active, TypeOK
<1>9. CASE UNCHANGED vars
  BY <1>9 DEF vars
<1> QED BY <1>1, <1>2, <1>3, <1>4, <1>5, <1>6, <1>7, <1>8, <1>9 DEF Next, Request

\* No step revises a decision, whether a user made it or a superseding message,
\* and no request picks up a rejection that a message made.
THEOREM DecisionsAreFinal == Spec => DecisionIsFinal
<1> DEFINE Kept(a) ==
      /\ approval[a] \in {"approved", "rejected"} => approval'[a] = approval[a]
      /\ (approval[a] = "rejected" /\ driver[a] = "idle") => driver'[a] = "idle"
<1>1. TypeOK /\ [Next]_vars => [\A a \in Approvals : Kept(a)]_vars
  BY DecisionKept
<1> QED BY <1>1, TypeCorrect, PTL DEF Spec, DecisionIsFinal

-----------------------------------------------------------------------------
(***************************************************************************)
(* One loop at a time.                                                     *)
(*                                                                         *)
(* The lock keeps two resumes apart. What keeps a resume apart from the    *)
(* producer is not a lock but the row it looks for: a child task waits for *)
(* an approval only once the producer has ended, because the producer      *)
(* writes that status in the very step in which it ends. That is the first *)
(* conjunct; the others make it inductive.                                 *)
(***************************************************************************)
PausedAfterProducer ==
  \A t \in Tasks :
    Mode[RunOf[t]] = "auto" /\ task[t] = "approval_required" => driver[RunOf[t]] = "ended"

ResumesAfterProducer ==
  \A a \in Approvals :
    /\ driver[a] \in ResumeStates \cup {"returned"} => Mode[ApRun(a)] = "auto"
    /\ driver[a] \in ResumeStates => driver[ApRun(a)] = "ended"

OneResume ==
  \A a, b \in Approvals :
    /\ driver[a] \in ResumeStates
    /\ driver[b] \in ResumeStates
    /\ ApRun(a) = ApRun(b)
    => a = b

RoundsOfOwnRun == \A d \in Drivers : round[d] \subseteq Children(DriverRun(d))

LoopInv == PausedAfterProducer /\ ResumesAfterProducer /\ OneResume /\ RoundsOfOwnRun

\* A step of the Host loop of d leaves a task waiting for an approval only when
\* it ends the driver, and only a task of d's own Run.
LEMMA HostLoopRows ==
  ASSUME TypeOK, RoundsOfOwnRun, NEW d \in Drivers, HostLoop(d)
  PROVE  /\ \A t \in Tasks :
              task'[t] = "approval_required" /\ task[t] # "approval_required"
                => RunOf[t] = DriverRun(d) /\ driver'[d] = "ended"
         /\ RoundsOfOwnRun'
<1>0. DriverRun(d) \in Runs /\ Root[DriverRun(d)] \in Tasks
      /\ RunOf[Root[DriverRun(d)]] = DriverRun(d)
  BY DriverRunType, ConstantsOK
<1>1. ASSUME NEW S \in SUBSET Delegable(DriverRun(d)), HostDelegates(d, S)
      PROVE  /\ \A t \in Tasks : task'[t] = "approval_required" => task[t] = "approval_required"
             /\ RoundsOfOwnRun'
  <2>1. S \subseteq Children(DriverRun(d))
    BY <1>0 DEF Delegable, Children
  <2>2. \A t \in Tasks : task'[t] = "approval_required" => task[t] = "approval_required"
    BY <1>1 DEF HostDelegates, WithTasks
  <2> QED BY <1>1, <2>1, <2>2 DEF HostDelegates, RoundsOfOwnRun, TypeOK
<1>2. ASSUME NEW how, NEW tasks \in [Tasks -> TaskStatus], NEW evals, NEW hasFailed,
             Finish(d, how, tasks, evals, hasFailed)
      PROVE  /\ driver'[d] = "ended"
             /\ \A t \in Tasks : t # Root[DriverRun(d)] => task'[t] = tasks[t]
  BY <1>2 DEF Finish, TypeOK
<1>3. ASSUME NEW how, HostStops(d, how)
      PROVE  /\ driver'[d] = "ended"
             /\ \A t \in Tasks : t # Root[DriverRun(d)] => task'[t] = task[t]
             /\ round' = round
  BY <1>2, <1>3 DEF HostStops, TypeOK
<1>4. ASSUME RoundEnds(d)
      PROVE  /\ \A t \in Tasks :
                  task'[t] = "approval_required" /\ task[t] # "approval_required"
                    => RunOf[t] = DriverRun(d) /\ driver'[d] = "ended"
             /\ RoundsOfOwnRun'
  <2> DEFINE S == round[d]
             observed == [t \in Tasks |->
               IF t \notin S THEN task[t]
               ELSE IF exec[t] = "approval" THEN "approval_required"
               ELSE IF exec[t] = "failed" THEN "failed" ELSE "completed"]
             hasFailed == d \in failed \/ \E t \in S : exec[t] = "failed"
  <2>1. /\ round' = [round EXCEPT ![d] = {}]
        /\ IF \E t \in S : exec[t] = "approval"
           THEN Finish(d, "awaiting", observed, evaluated \cup S, hasFailed)
           ELSE task' = [observed EXCEPT ![Root[DriverRun(d)]] = "working"]
    BY <1>4 DEF RoundEnds
  <2>2. observed \in [Tasks -> TaskStatus]
    BY DEF TypeOK, TaskStatus
  <2>3. \A t \in Tasks : t \notin S => observed[t] = task[t]
    OBVIOUS
  <2>4. \A t \in S : RunOf[t] = DriverRun(d)
    BY DEF RoundsOfOwnRun, Children
  <2>5. RoundsOfOwnRun'
    BY <2>1 DEF RoundsOfOwnRun, TypeOK
  <2>6. (\A t \in S : exec[t] # "approval") =>
          \A t \in Tasks : observed[t] = "approval_required" => task[t] = "approval_required"
    OBVIOUS
  <2> HIDE DEF S, observed, hasFailed
  <2>7. CASE \E t \in S : exec[t] = "approval"
    <3>1. /\ driver'[d] = "ended"
          /\ \A t \in Tasks : t # Root[DriverRun(d)] => task'[t] = observed[t]
      BY <1>2, <2>1, <2>2, <2>7
    <3> QED BY <1>0, <2>3, <2>4, <2>5, <3>1
  <2>8. CASE \A t \in S : exec[t] # "approval"
    BY <2>1, <2>2, <2>5, <2>6, <2>8
  <2> QED BY <2>7, <2>8
<1> QED
  <2>1. ASSUME NEW how, HostStops(d, how)
        PROVE  RoundsOfOwnRun'
    BY <1>3, <2>1 DEF RoundsOfOwnRun
  <2> QED BY <1>0, <1>1, <1>3, <1>4, <2>1 DEF HostLoop

\* A step of the Host loop keeps what OneLoop rests on.
LEMMA LoopInvHostLoop ==
  ASSUME TypeOK, LoopInv, NEW d \in Drivers, HostLoop(d)
  PROVE  LoopInv'
<1>1. PICK v \in {"deciding", "delegating", "ended"} : driver' = [driver EXCEPT ![d] = v]
  BY HostLoopDriver
<1>2. driver[d] \in {"deciding", "delegating"}
  BY HostLoopDriver
<1>3. Approvals \subseteq Drivers /\ Runs \subseteq Drivers /\ Runs \cap Approvals = {}
  BY ConstantsOK DEF Drivers
<1>4. d \in Runs => DriverRun(d) = d
  BY DEF DriverRun
<1>5. d \in Approvals => DriverRun(d) = ApRun(d) /\ driver[ApRun(d)] = "ended"
                        /\ ApRun(d) \in Runs
  BY <1>2, <1>3, ConstantsOK DEF LoopInv, ResumesAfterProducer, ResumeStates, DriverRun, ApRun
<1>6. \A r \in Runs : driver[r] = "ended" => driver'[r] = "ended"
  BY <1>1, <1>2, <1>3 DEF TypeOK
<1>7. RoundsOfOwnRun' /\ \A t \in Tasks :
        task'[t] = "approval_required" /\ task[t] # "approval_required"
          => RunOf[t] = DriverRun(d) /\ driver'[d] = "ended"
  BY HostLoopRows DEF LoopInv
<1>8. PausedAfterProducer'
  BY <1>4, <1>5, <1>6, <1>7, ConstantsOK DEF LoopInv, PausedAfterProducer, Drivers
<1>9. \A a \in Approvals : driver'[a] \in ResumeStates => driver[a] \in ResumeStates
  BY <1>1, <1>2, <1>3 DEF TypeOK, ResumeStates
<1>10. \A a \in Approvals : driver'[a] = "returned" => driver[a] = "returned"
  BY <1>1, <1>3 DEF TypeOK
<1>11. \A a \in Approvals : ApRun(a) \in Runs
  BY ConstantsOK DEF ApRun
<1>12. ResumesAfterProducer'
  BY <1>6, <1>9, <1>10, <1>11 DEF LoopInv, ResumesAfterProducer
<1>13. OneResume'
  BY <1>9 DEF LoopInv, OneResume
<1> QED BY <1>7, <1>8, <1>12, <1>13 DEF LoopInv

\* A resume makes no further task wait for an approval.
LEMMA ResumeRowsPaused ==
  ASSUME TypeOK, NEW a \in Approvals, NEW stat, NEW res,
         Resume(a, stat, res) \/ ResumeOrWait(a, stat, res)
  PROVE  \A t \in Tasks : task'[t] = "approval_required" => task[t] = "approval_required"
<1>1. ASSUME NEW u, NEW settled \in {"blocked", "failed", "completed"},
             Settle(a, u, stat, settled)
      PROVE  \A t \in Tasks : task'[t] = "approval_required" => task[t] = "approval_required"
  BY <1>1 DEF Settle, TypeOK
<1>2. ASSUME NEW u \in Tasks, IsPaused(a, u), RecordFollowup(a, u, stat)
      PROVE  \A t \in Tasks : task'[t] = "approval_required" => task[t] = "approval_required"
  BY <1>2 DEF RecordFollowup, IsPaused, TypeOK
<1> QED BY <1>1, <1>2 DEF ResumeOrWait, Resume, NothingToResume, Evaluate

\* A job that starts its resume finds the producer gone and no other resume.
LEMMA LoopInvResume ==
  ASSUME TypeOK, LoopInv, NEW a \in Approvals, Mode[ApRun(a)] = "auto",
         driver[a] # "ended",
         NEW v \in {"returned", "evaluating", "deciding", "ended"},
         driver' = [driver EXCEPT ![a] = v],
         v \in ResumeStates => LockFree(a) /\ \E t \in Tasks : IsPaused(a, t),
         \A t \in Tasks : task'[t] = "approval_required" => task[t] = "approval_required",
         round' = round
  PROVE  LoopInv'
<1>1. Approvals \subseteq Drivers /\ Runs \subseteq Drivers /\ Runs \cap Approvals = {}
  BY ConstantsOK DEF Drivers
<1>2. \A r \in Runs : driver'[r] = driver[r]
  BY <1>1 DEF TypeOK
<1>3. \A b \in Approvals : ApRun(b) \in Runs
  BY ConstantsOK DEF ApRun
<1>4. PausedAfterProducer'
  BY <1>2, ConstantsOK DEF LoopInv, PausedAfterProducer
<1>5. v \in ResumeStates => driver[ApRun(a)] = "ended"
  BY DEF IsPaused, Children, LoopInv, PausedAfterProducer
<1>6. ResumesAfterProducer'
  BY <1>1, <1>2, <1>3, <1>5 DEF LoopInv, ResumesAfterProducer, TypeOK
<1>7. v \in ResumeStates =>
        \A b \in Approvals : ApRun(b) = ApRun(a) => driver[b] \notin ResumeStates
  BY DEF LockFree
<1>8. OneResume'
  BY <1>1, <1>7 DEF LoopInv, OneResume, TypeOK
<1> QED BY <1>4, <1>6, <1>8 DEF LoopInv, RoundsOfOwnRun

\* A step that ends a job, or moves it before its resume.
LEMMA LoopInvQuietJob ==
  ASSUME TypeOK, LoopInv, NEW a \in Approvals,
         NEW v \in {"claimed", "executing", "ended"},
         driver' = [driver EXCEPT ![a] = v], round' = round,
         \A t \in Tasks : Mode[RunOf[t]] = "auto" /\ task'[t] = "approval_required"
           => task[t] = "approval_required"
  PROVE  LoopInv'
<1>1. Approvals \subseteq Drivers /\ Runs \subseteq Drivers /\ Runs \cap Approvals = {}
  BY ConstantsOK DEF Drivers
<1>2. \A r \in Runs : driver'[r] = driver[r]
  BY <1>1 DEF TypeOK
<1>3. \A b \in Approvals : ApRun(b) \in Runs
  BY ConstantsOK DEF ApRun
<1>4. \A b \in Approvals : driver'[b] \in ResumeStates \cup {"returned"} => driver'[b] = driver[b]
  BY <1>1 DEF TypeOK, ResumeStates
<1>5. PausedAfterProducer'
  BY <1>2, ConstantsOK DEF LoopInv, PausedAfterProducer
<1>6. ResumesAfterProducer' /\ OneResume'
  BY <1>2, <1>3, <1>4 DEF LoopInv, ResumesAfterProducer, OneResume
<1> QED BY <1>5, <1>6 DEF LoopInv, RoundsOfOwnRun

\* So does every step of a job.
LEMMA LoopInvJob ==
  ASSUME TypeOK, LoopInv, NEW a \in Approvals, Job(a)
  PROVE  LoopInv'
<1>1. a \in Drivers /\ ApRun(a) \in Runs
  BY ConstantsOK DEF Drivers, ApRun
<1>2. CASE Deliver(a)
  BY <1>2, LoopInvQuietJob DEF Deliver
<1>3. ASSUME NEW stat, NEW res, ResumeOrWait(a, stat, res), Mode[ApRun(a)] = "auto",
             driver[a] \in {"claimed", "executing"}, round' = round
      PROVE  LoopInv'
  <2>1. PICK v \in {"returned", "evaluating", "deciding", "ended"} :
          /\ driver' = [driver EXCEPT ![a] = v]
          /\ v \in ResumeStates => LockFree(a) /\ \E t \in Tasks : IsPaused(a, t)
    BY <1>3, ResumeOrWaitDriver
  <2>2. \A t \in Tasks : task'[t] = "approval_required" => task[t] = "approval_required"
    BY <1>3, ResumeRowsPaused
  <2> QED BY <1>3, <2>1, <2>2, LoopInvResume
<1>4. ASSUME NEW res, AutoReturn(a, res) PROVE LoopInv'
  BY <1>3, <1>4 DEF AutoReturn
<1>5. ASSUME NEW b, AutoFollowup(a, b) PROVE LoopInv'
  BY <1>3, <1>5 DEF AutoFollowup
<1>6. CASE AutoRaises(a)
  BY <1>3, <1>6 DEF AutoRaises
<1>7. ASSUME NEW res, DirectReturn(a, res) PROVE LoopInv'
  <2>1. \A t \in Tasks : task'[t] = "approval_required" => task[t] = "approval_required"
    BY <1>7 DEF DirectReturn, TypeOK
  <2> QED BY <1>7, <2>1, LoopInvQuietJob DEF DirectReturn
<1>8. ASSUME NEW b, DirectFollowup(a, b) PROVE LoopInv'
  <2>1. \A t \in Tasks : task'[t] = "approval_required" => task[t] = "approval_required"
    BY <1>8 DEF DirectFollowup, TypeOK
  <2> QED BY <1>8, <2>1, LoopInvQuietJob DEF DirectFollowup
<1>9. CASE DirectRaises(a)
  BY <1>9, LoopInvQuietJob DEF DirectRaises
<1>10. CASE ResumeBegin(a)
  <2>1. /\ driver[a] = "returned" /\ LockFree(a) /\ round' = round
        /\ Resume(a, status, result[a])
    BY <1>10 DEF ResumeBegin
  <2>2. PICK v \in {"evaluating", "deciding", "ended"} :
          /\ driver' = [driver EXCEPT ![a] = v]
          /\ v # "ended" => \E t \in Tasks : IsPaused(a, t)
    BY <2>1, ResumeDriver
  <2>3. v \in ResumeStates => v # "ended"
    BY DEF ResumeStates
  <2>4. \A t \in Tasks : task'[t] = "approval_required" => task[t] = "approval_required"
    BY <2>1, ResumeRowsPaused
  <2>5. Mode[ApRun(a)] = "auto"
    BY <2>1 DEF LoopInv, ResumesAfterProducer
  <2> QED BY <2>1, <2>2, <2>3, <2>4, <2>5, LoopInvResume
<1>11. ASSUME NEW settled \in {"completed", "working"}, Evaluated(a, settled)
       PROVE  LoopInv'
  <2>1. /\ driver[a] = "evaluating" /\ round' = round
        /\ driver' = [driver EXCEPT ![a] = "deciding"]
    BY <1>11 DEF Evaluated, Settle
  <2>2. \A t \in Tasks : task'[t] = "approval_required" => task[t] = "approval_required"
    BY <1>11 DEF Evaluated, Settle, TypeOK
  <2>3. \A r \in Runs : driver'[r] = driver[r]
    BY <2>1, ConstantsOK DEF TypeOK, Drivers
  <2>4. \A b \in Approvals :
          /\ driver'[b] \in ResumeStates => driver[b] \in ResumeStates
          /\ driver'[b] = "returned" => driver[b] = "returned"
    BY <1>1, <2>1 DEF TypeOK, Drivers, ResumeStates
  <2>5. \A b \in Approvals : ApRun(b) \in Runs
    BY ConstantsOK DEF ApRun
  <2>6. PausedAfterProducer'
    BY <2>2, <2>3, ConstantsOK DEF LoopInv, PausedAfterProducer
  <2>7. ResumesAfterProducer' /\ OneResume'
    BY <2>3, <2>4, <2>5 DEF LoopInv, ResumesAfterProducer, OneResume
  <2> QED BY <2>1, <2>6, <2>7 DEF LoopInv, RoundsOfOwnRun
<1>12. CASE EvaluationRaises(a)
  BY <1>12, LoopInvQuietJob DEF EvaluationRaises
<1>13. CASE HostLoop(a)
  BY <1>1, <1>13, LoopInvHostLoop
<1> QED BY <1>2, <1>4, <1>5, <1>6, <1>7, <1>8, <1>9, <1>10, <1>11, <1>12, <1>13 DEF Job

\* A step that at most ends a producer and makes no task of an auto Run wait.
LEMMA LoopInvQuiet ==
  ASSUME TypeOK, LoopInv,
         \A d \in Drivers : driver'[d] = driver[d] \/ driver'[d] = "ended",
         \A t \in Tasks : Mode[RunOf[t]] = "auto" /\ task'[t] = "approval_required"
           => task[t] = "approval_required",
         \A d \in Drivers : round'[d] = round[d] \/ round'[d] = {}
  PROVE  LoopInv'
<1>1. Approvals \subseteq Drivers /\ Runs \subseteq Drivers
  BY DEF Drivers
<1>2. \A b \in Approvals : ApRun(b) \in Runs
  BY ConstantsOK DEF ApRun
<1>3. \A a \in Approvals :
        driver'[a] \in ResumeStates \cup {"returned"} => driver'[a] = driver[a]
  BY <1>1 DEF ResumeStates
<1>4. PausedAfterProducer'
  BY <1>1, ConstantsOK DEF LoopInv, PausedAfterProducer
<1>5. ResumesAfterProducer' /\ OneResume'
  BY <1>1, <1>2, <1>3 DEF LoopInv, ResumesAfterProducer, OneResume
<1>6. RoundsOfOwnRun'
  BY DEF LoopInv, RoundsOfOwnRun
<1> QED BY <1>4, <1>5, <1>6 DEF LoopInv

\* So does every step of a producer.
LEMMA LoopInvProducer ==
  ASSUME TypeOK, LoopInv, NEW r \in Runs, Producer(r)
  PROVE  LoopInv'
<1>1. r \in Drivers /\ DriverRun(r) = r /\ Root[r] \in Tasks /\ RunOf[Root[r]] = r
  BY ConstantsOK DEF Drivers, DriverRun
<1>2. CASE HostLoop(r)
  BY <1>1, <1>2, LoopInvHostLoop
<1>3. CASE ProducerNoticesCancel(r)
  BY <1>3, LoopInvQuiet DEF ProducerNoticesCancel, TypeOK
<1>4. ASSUME NEW a, DirectAsks(r, a) PROVE LoopInv'
  BY <1>1, <1>4, LoopInvQuiet DEF DirectAsks, TypeOK
<1>5. ASSUME NEW how, DirectEnds(r, how) PROVE LoopInv'
  <2>1. \A d \in Drivers : driver'[d] = driver[d] \/ driver'[d] = "ended"
    BY <1>5 DEF DirectEnds, Finish, TypeOK
  <2>2. \A t \in Tasks : Mode[RunOf[t]] = "auto" => task'[t] = task[t]
    BY <1>1, <1>5 DEF DirectEnds, Finish, TypeOK
  <2>3. \A d \in Drivers : round'[d] = round[d] \/ round'[d] = {}
    BY <1>5 DEF DirectEnds, TypeOK
  <2> QED BY <2>1, <2>2, <2>3, LoopInvQuiet
<1> QED BY <1>2, <1>3, <1>4, <1>5 DEF Producer

\* So does a new message: the Run it starts has no paused task yet.
LEMMA LoopInvStart ==
  ASSUME TypeOK, LoopInv, NEW r \in Runs, StartRun(r)
  PROVE  LoopInv'
<1>1. r \in Drivers /\ DriverRun(r) = r /\ Root[r] \in Tasks /\ RunOf[Root[r]] = r
      /\ Runs \subseteq Drivers /\ Approvals \subseteq Drivers /\ r \notin Approvals
  BY ConstantsOK DEF Drivers, DriverRun
<1>2. PICK v \in {"deciding", "delegating"} : driver' = [driver EXCEPT ![r] = v]
  BY DEF StartRun
<1>3. driver[r] = "idle" /\ task' = [task EXCEPT ![Root[r]] = "working"]
  BY DEF StartRun
<1>4. \A a \in Approvals : driver'[a] = driver[a] /\ ApRun(a) \in Runs
  BY <1>1, <1>2, ConstantsOK DEF TypeOK, ApRun
<1>5. \A q \in Runs : driver[q] = "ended" => driver'[q] = "ended"
  BY <1>1, <1>2, <1>3 DEF TypeOK
<1>6. \A t \in Tasks : task'[t] = "approval_required" => task[t] = "approval_required"
  BY <1>3 DEF TypeOK
<1>7. PausedAfterProducer'
  BY <1>5, <1>6, ConstantsOK DEF LoopInv, PausedAfterProducer
<1>8. ResumesAfterProducer' /\ OneResume'
  BY <1>4, <1>5 DEF LoopInv, ResumesAfterProducer, OneResume
<1>9. RoundsOfOwnRun'
  <2>1. {Root[r]} \subseteq Children(r)
    BY <1>1 DEF Children
  <2>2. round' = round \/ round' = [round EXCEPT ![r] = {Root[r]}]
    BY DEF StartRun
  <2> QED BY <1>1, <2>1, <2>2 DEF LoopInv, RoundsOfOwnRun, TypeOK
<1> QED BY <1>7, <1>8, <1>9 DEF LoopInv

\* So does every step.
LEMMA LoopInvNext ==
  ASSUME TypeOK, LoopInv, [Next]_vars
  PROVE  LoopInv'
<1>1. ASSUME NEW r \in Runs, StartRun(r) PROVE LoopInv'
  BY <1>1, LoopInvStart
<1>2. ASSUME NEW r \in Runs, Cancel(r) PROVE LoopInv'
  <2>1. \A t \in Tasks : task'[t] = "approval_required" => task[t] = "approval_required"
    BY <1>2 DEF Cancel, CancelRows, WithTasks, TypeOK
  <2> QED BY <1>2, <2>1, LoopInvQuiet DEF Cancel, EndProducer, TypeOK
<1>3. ASSUME NEW a \in Approvals, NEW decision, Decide(a, decision) PROVE LoopInv'
  BY <1>3, LoopInvQuietJob DEF Decide
<1>4. ASSUME NEW r \in Runs, Producer(r) PROVE LoopInv'
  BY <1>4, LoopInvProducer
<1>5. ASSUME NEW r \in Runs, ProducerAborts(r) PROVE LoopInv'
  <2>1. \A t \in Tasks : task'[t] = "approval_required" => task[t] = "approval_required"
    BY <1>5 DEF ProducerAborts, CancelRows, WithTasks, TypeOK
  <2> QED BY <1>5, <2>1, LoopInvQuiet DEF ProducerAborts, EndProducer, TypeOK
<1>6. ASSUME NEW a \in Approvals, Job(a) PROVE LoopInv'
  BY <1>6, LoopInvJob
<1>7. ASSUME NEW t \in Tasks, Execution(t) PROVE LoopInv'
  BY <1>7, LoopInvQuiet DEF Execution, RemoteReturns, RemoteAsksApproval
<1>8. CASE Crash
  <2>1. \A t \in Tasks : task'[t] = "approval_required" => task[t] = "approval_required"
    BY <1>8 DEF Crash, TypeOK
  <2> QED BY <1>8, <2>1, LoopInvQuiet DEF Crash, TypeOK
<1>9. CASE UNCHANGED vars
  BY <1>9, LoopInvQuiet DEF vars
<1> QED BY <1>1, <1>2, <1>3, <1>4, <1>5, <1>6, <1>7, <1>8, <1>9 DEF Next, Request

\* Whatever decisions, follow-ups and restarts come, and however late the rest of
\* a round is, two tasks of the process never drive the Host loop of one Run.
THEOREM OneLoopPerRun == Spec => []OneLoop
<1>1. Init => LoopInv
  BY ConstantsOK
     DEF Init, LoopInv, PausedAfterProducer, ResumesAfterProducer, OneResume,
         RoundsOfOwnRun, ResumeStates, Drivers
<1>2. TypeOK /\ LoopInv /\ [Next]_vars => LoopInv'
  BY LoopInvNext
<1>3. TypeOK /\ LoopInv => OneLoop
  <2> SUFFICES ASSUME LoopInv, NEW r \in Runs,
                      NEW c \in LoopDrivers(r), NEW d \in LoopDrivers(r)
               PROVE  c = d
    BY DEF OneLoop
  <2>1. \A e \in LoopDrivers(r) :
          /\ e \in Drivers /\ DriverRun(e) = r /\ driver[e] \in ResumeStates
    BY DEF LoopDrivers
  <2>2. \A e \in LoopDrivers(r) : e \in Runs => e = r
    BY <2>1 DEF DriverRun
  <2>3. \A e \in LoopDrivers(r) : e \notin Runs => e \in Approvals /\ ApRun(e) = r
    BY <2>1 DEF DriverRun, Drivers
  <2>4. \A e \in LoopDrivers(r) : e \notin Runs => driver[r] = "ended"
    BY <2>1, <2>3 DEF LoopInv, ResumesAfterProducer
  <2>5. "ended" \notin ResumeStates
    BY DEF ResumeStates
  <2>6. CASE c \in Runs
    BY <2>1, <2>2, <2>4, <2>5, <2>6
  <2>7. CASE c \notin Runs /\ d \in Runs
    BY <2>1, <2>2, <2>4, <2>5, <2>7
  <2>8. CASE c \notin Runs /\ d \notin Runs
    BY <2>1, <2>3, <2>8 DEF LoopInv, OneResume
  <2> QED BY <2>6, <2>7, <2>8
<1> QED BY <1>1, <1>2, <1>3, TypeCorrect, PTL DEF Spec

-----------------------------------------------------------------------------
(***************************************************************************)
(* A Run without approvals ends once, and as its status says.              *)
(*                                                                         *)
(* Such a Run is touched by its producer, by cancel and by a restart only. *)
(* The invariant adds that its producer has not started before the Run     *)
(* exists, that nothing put it to approval_required, and that an execution *)
(* waits for an approval only where the gateway has recorded one.          *)
(***************************************************************************)
PlainRow(r) ==
  /\ (status[r] = "running") <=> Active(r)
  /\ driver[r] = "idle" => status[r] = "none"
  /\ status[r] # "approval_required"
  /\ status[r] \in {"none", "running"} => outcome[r] = <<>>
  /\ status[r] \in Terminal =>
       outcome[r] = <<IF status[r] = "interrupted" THEN "failed" ELSE status[r]>>

WaitingHasApproval ==
  \A t \in Tasks : exec[t] = "approval" =>
    \E a \in Approvals : TaskOf[a] = t /\ approval[a] # "unused"

PlainInv == WaitingHasApproval /\ \A r \in Runs : Plain(r) => PlainRow(r)

\* An approval never becomes unused again, and only the gateway makes an
\* execution wait.
LEMMA WaitingNext ==
  ASSUME TypeOK, WaitingHasApproval, [Next]_vars
  PROVE  /\ WaitingHasApproval'
         /\ \A a \in Approvals : approval'[a] = "unused" => approval[a] = "unused"
<1> DEFINE Goal ==
      /\ WaitingHasApproval'
      /\ \A a \in Approvals : approval'[a] = "unused" => approval[a] = "unused"
<1>1. ASSUME \A a \in Approvals : approval'[a] = "unused" => approval[a] = "unused",
             \A t \in Tasks : exec'[t] = "approval" => exec[t] = "approval"
      PROVE  Goal
  BY <1>1 DEF WaitingHasApproval
<1>2. ASSUME NEW t \in Tasks, NEW b \in Approvals, TaskOf[b] = t,
             approval' = [approval EXCEPT ![b] = "pending"],
             exec' = [exec EXCEPT ![t] = "approval"]
      PROVE  Goal
  BY <1>2 DEF WaitingHasApproval, TypeOK
<1> HIDE DEF Goal
<1>3. ASSUME NEW d \in Drivers, HostLoop(d) PROVE Goal
  <2>1. approval' = approval
    BY <1>3, HostLoopDriver
  <2>2. \A t \in Tasks : exec'[t] = "approval" => exec[t] = "approval"
    BY <1>3 DEF HostLoop, HostDelegates, HostStops, RoundEnds
  <2> QED BY <1>1, <2>1, <2>2
<1>4. ASSUME NEW r \in Runs, StartRun(r) PROVE Goal
  BY <1>1, <1>4, ConstantsOK DEF StartRun, Superseded, TypeOK
<1>5. ASSUME NEW r \in Runs, Cancel(r) PROVE Goal
  BY <1>1, <1>5, ConstantsOK DEF Cancel, EndProducer, TypeOK
<1>6. ASSUME NEW b \in Approvals, NEW decision \in {"approved", "rejected"},
             Decide(b, decision)
      PROVE  Goal
  BY <1>1, <1>6 DEF Decide, TypeOK
<1>7. ASSUME NEW r \in Runs, Producer(r) PROVE Goal
  <2>1. r \in Drivers /\ Root[r] \in Tasks
    BY ConstantsOK DEF Drivers
  <2>2. ASSUME ProducerNoticesCancel(r) PROVE Goal
    BY <1>1, <2>2 DEF ProducerNoticesCancel
  <2>3. ASSUME NEW b \in Approvals, DirectAsks(r, b) PROVE Goal
    BY <1>2, <2>1, <2>3 DEF DirectAsks
  <2>4. ASSUME NEW how, DirectEnds(r, how) PROVE Goal
    BY <1>1, <2>1, <2>4 DEF DirectEnds, TypeOK
  <2> QED BY <1>3, <1>7, <2>1, <2>2, <2>3, <2>4 DEF Producer
<1>8. ASSUME NEW r \in Runs, ProducerAborts(r) PROVE Goal
  BY <1>1, <1>8, ConstantsOK DEF ProducerAborts, EndProducer, TypeOK
<1>9. ASSUME NEW b \in Approvals, Job(b) PROVE Goal
  <2>1. \A a \in Approvals : approval'[a] = "unused" => approval[a] = "unused"
    BY <1>9, JobDecisions
  <2>2. b \in Drivers
    BY DEF Drivers
  <2>3. ASSUME exec' = exec PROVE Goal
    BY <1>1, <2>1, <2>3
  <2> QED
    BY <1>3, <1>9, <2>2, <2>3
       DEF Job, Deliver, AutoReturn, DirectReturn, AutoFollowup, DirectFollowup,
           AutoRaises, DirectRaises, ResumeBegin, Evaluated, EvaluationRaises
<1>10. ASSUME NEW t \in Tasks, Execution(t) PROVE Goal
  <2>1. ASSUME NEW v \in {"sufficient", "insufficient", "failed"}, RemoteReturns(t, v)
        PROVE  Goal
    BY <1>1, <2>1 DEF RemoteReturns, TypeOK
  <2>2. ASSUME NEW b \in Approvals, RemoteAsksApproval(t, b) PROVE Goal
    BY <1>2, <2>2 DEF RemoteAsksApproval
  <2> QED BY <1>10, <2>1, <2>2 DEF Execution
<1>11. ASSUME Crash PROVE Goal
  BY <1>1, <1>11 DEF Crash, TypeOK
<1>12. ASSUME UNCHANGED vars PROVE Goal
  BY <1>1, <1>12 DEF vars
<1> QED
  BY <1>4, <1>5, <1>6, <1>7, <1>8, <1>9, <1>10, <1>11, <1>12 DEF Next, Request, Goal

\* The last step of a producer that no approval stopped.
LEMMA FinishPlain ==
  ASSUME TypeOK, NEW r \in Runs, NEW how \in {"complete", "stop", "error"},
         NEW tasks, NEW evals, NEW hasFailed,
         PlainRow(r), Active(r), Finish(r, how, tasks, evals, hasFailed)
  PROVE  PlainRow(r)'
<1> DEFINE final == FinalStatus(r, how, evals, hasFailed)
<1>1. final \in {"evidence_insufficient", "failed", "partial", "completed"}
  BY DEF FinalStatus
<1>2. DriverRun(r) = r /\ r \in Drivers
  BY DEF DriverRun, Drivers
<1> HIDE DEF final
<1>3. /\ status' = [status EXCEPT ![r] = final]
      /\ driver' = [driver EXCEPT ![r] = "ended"]
      /\ outcome' = [outcome EXCEPT ![r] = Append(@, final)]
  BY <1>1, <1>2 DEF Finish, final
<1>4. outcome[r] = <<>> /\ r \in DOMAIN outcome
  BY DEF PlainRow, TypeOK
<1>5. outcome'[r] = <<final>>
  BY <1>3, <1>4
<1>6. status'[r] = final /\ driver'[r] = "ended"
  BY <1>2, <1>3 DEF TypeOK
<1> QED BY <1>1, <1>5, <1>6 DEF PlainRow, Active, Terminal

\* A Run whose rows and driver a step leaves alone.
LEMMA SameRow ==
  ASSUME NEW r \in Runs, PlainRow(r), status'[r] = status[r],
         outcome'[r] = outcome[r], driver'[r] = driver[r]
  PROVE  PlainRow(r)'
BY DEF PlainRow, Active

\* A running Run that a step closes with a terminal event of its own.
LEMMA ClosedRow ==
  ASSUME NEW r \in Runs, PlainRow(r), status[r] = "running", driver'[r] = "ended",
         \/ status'[r] = "cancelled" /\ outcome'[r] = Append(outcome[r], "cancelled")
         \/ status'[r] = "interrupted" /\ outcome'[r] = Append(outcome[r], "failed")
  PROVE  PlainRow(r)'
<1>1. outcome[r] = <<>>
  BY DEF PlainRow
<1> QED BY <1>1 DEF PlainRow, Active, Terminal

\* A job writes the rows of its own Run only.
LEMMA JobOtherRuns ==
  ASSUME TypeOK, NEW a \in Approvals, Job(a), NEW q \in Runs, q # ApRun(a)
  PROVE  status'[q] = status[q] /\ outcome'[q] = outcome[q]
<1> DEFINE Same == status'[q] = status[q] /\ outcome'[q] = outcome[q]
<1>1. ASSUME NEW t, NEW stat \in [Runs -> RunStatus], NEW settled, stat[q] = status[q],
             Settle(a, t, stat, settled)
      PROVE  Same
  BY <1>1 DEF Settle, TypeOK
<1>2. ASSUME NEW stat \in [Runs -> RunStatus], NEW res, stat[q] = status[q],
             Resume(a, stat, res) \/ ResumeOrWait(a, stat, res)
      PROVE  Same
  BY <1>1, <1>2 DEF Resume, ResumeOrWait, NothingToResume, RecordFollowup, Evaluate
<1>3. ASSUME NEW res \in {"completed", "failed", "other"}, AutoReturn(a, res) PROVE Same
  <2> DEFINE stat == [status EXCEPT ![ApRun(a)] =
                        IF res = "failed" THEN "failed" ELSE "running"]
  <2>1. stat \in [Runs -> RunStatus] /\ stat[q] = status[q]
    BY DEF TypeOK, RunStatus, Terminal
  <2>2. ResumeOrWait(a, stat, res)
    BY <1>3 DEF AutoReturn
  <2> HIDE DEF stat, Same
  <2> QED BY <1>2, <2>1, <2>2
<1>4. ASSUME NEW b, AutoFollowup(a, b) PROVE Same
  <2> DEFINE stat == [status EXCEPT ![ApRun(a)] = "approval_required"]
  <2>1. stat \in [Runs -> RunStatus] /\ stat[q] = status[q]
    BY DEF TypeOK, RunStatus
  <2>2. ResumeOrWait(a, stat, "followup")
    BY <1>4 DEF AutoFollowup
  <2> HIDE DEF stat, Same
  <2> QED BY <1>2, <2>1, <2>2
<1>5. ASSUME NEW res, DirectReturn(a, res) PROVE Same
  BY <1>5 DEF DirectReturn, TypeOK
<1>6. ASSUME NEW b, DirectFollowup(a, b) PROVE Same
  BY <1>6 DEF DirectFollowup, TypeOK
<1>7. ASSUME HostLoop(a) PROVE Same
  <2>1. DriverRun(a) = ApRun(a)
    BY ConstantsOK DEF DriverRun
  <2>2. ASSUME NEW how, NEW tasks, NEW evals, NEW hasFailed,
               Finish(a, how, tasks, evals, hasFailed)
        PROVE  Same
    BY <2>1, <2>2 DEF Finish, TypeOK
  <2> QED BY <1>7, <2>2 DEF HostLoop, HostDelegates, HostStops, RoundEnds
<1>8. status \in [Runs -> RunStatus]
  BY DEF TypeOK
<1>9. ASSUME AutoRaises(a) \/ ResumeBegin(a) PROVE Same
  BY <1>2, <1>8, <1>9 DEF AutoRaises, ResumeBegin
<1>10. ASSUME NEW settled, Evaluated(a, settled) PROVE Same
  BY <1>1, <1>8, <1>10 DEF Evaluated
<1>11. ASSUME Deliver(a) \/ DirectRaises(a) \/ EvaluationRaises(a) PROVE Same
  BY <1>11 DEF Deliver, DirectRaises, EvaluationRaises
<1> QED BY <1>3, <1>4, <1>5, <1>6, <1>7, <1>9, <1>10, <1>11 DEF Job

\* A step of the Host loop of the Run's own producer. No execution of its round
\* waits for an approval, so the loop goes on or ends with a terminal event.
LEMMA HostLoopPlain ==
  ASSUME TypeOK, RoundsOfOwnRun, WaitingHasApproval, NEW r \in Runs, Plain(r),
         PlainRow(r), HostLoop(r)
  PROVE  PlainRow(r)'
<1>1. r \in Drivers /\ DriverRun(r) = r
  BY DEF Drivers, DriverRun
<1>2. driver[r] \in {"deciding", "delegating"}
  BY <1>1, HostLoopDriver
<1>3. Active(r)
  BY <1>2 DEF Active
<1>4. ASSUME NEW v \in {"deciding", "delegating"},
             driver' = [driver EXCEPT ![r] = v], status' = status, outcome' = outcome
      PROVE  PlainRow(r)'
  <2>1. driver'[r] = v
    BY <1>1, <1>4 DEF TypeOK
  <2> QED BY <1>3, <1>4, <2>1 DEF PlainRow, Active
<1>5. ASSUME NEW S, HostDelegates(r, S) PROVE PlainRow(r)'
  BY <1>4, <1>5 DEF HostDelegates
<1>6. ASSUME NEW how \in {"complete", "stop", "error"}, HostStops(r, how)
      PROVE  PlainRow(r)'
  BY <1>3, <1>6, FinishPlain DEF HostStops
<1>7. ASSUME RoundEnds(r) PROVE PlainRow(r)'
  <2>1. \A t \in round[r] : exec[t] # "approval"
    <3> SUFFICES ASSUME NEW t \in round[r], exec[t] = "approval" PROVE FALSE
      OBVIOUS
    <3>1. t \in Tasks /\ RunOf[t] = r
      BY <1>1 DEF RoundsOfOwnRun, Children
    <3>2. PICK a \in Approvals : TaskOf[a] = t /\ approval[a] # "unused"
      BY <3>1 DEF WaitingHasApproval
    <3> QED BY <3>1, <3>2 DEF Plain, ApRun
  <2> QED BY <1>4, <1>7, <2>1 DEF RoundEnds
<1> QED BY <1>5, <1>6, <1>7, <1>1 DEF HostLoop

\* What any step does to the row of a Run that still has no approval after it.
LEMMA PlainNext ==
  ASSUME TypeOK, DecisionInv, RoundsOfOwnRun, WaitingHasApproval, [Next]_vars,
         NEW r \in Runs, Plain(r), PlainRow(r), Plain(r)'
  PROVE  PlainRow(r)'
<1>0. /\ r \in Drivers /\ Root[r] \in Tasks /\ Runs \subseteq Drivers
      /\ Approvals \subseteq Drivers /\ r \notin Approvals
  BY ConstantsOK DEF Drivers
<1>1. \A a \in Approvals : ApRun(a) = r => driver[a] = "idle" /\ approval[a] = "unused"
  BY DEF Plain, DecisionInv
<1>2. ~HasPending(r)
  BY <1>1 DEF HasPending
<1>3. ASSUME NEW q \in Runs, StartRun(q) PROVE PlainRow(r)'
  <2>1. CASE q = r
    <3>1. status[r] = "none" /\ outcome[r] = <<>> /\ outcome' = outcome
      BY <1>3, <2>1 DEF StartRun, PlainRow
    <3>2. status'[r] = "running"
      BY <1>3, <2>1 DEF StartRun
    <3>3. driver'[r] \in {"deciding", "delegating"}
      BY <1>0, <1>3, <2>1 DEF StartRun, TypeOK
    <3> QED BY <3>1, <3>2, <3>3 DEF PlainRow, Active, Terminal
  <2>2. CASE q # r
    <3>1. status'[r] = status[r] /\ outcome'[r] = outcome[r]
      BY <1>2, <1>3, <2>2 DEF StartRun
    <3>2. driver'[r] = driver[r]
      BY <1>0, <1>3, <2>2 DEF StartRun, TypeOK
    <3> QED BY <3>1, <3>2, SameRow
  <2> QED BY <2>1, <2>2
<1>4. ASSUME NEW q \in Runs, CancelRows(q), EndProducer(q), status[q] # "none",
             status[q] \notin Terminal
      PROVE  PlainRow(r)'
  <2>1. CASE q = r
    <3>1. status[r] = "running"
      BY <1>4, <2>1 DEF PlainRow, TypeOK, RunStatus
    <3>2. status'[r] = "cancelled" /\ outcome'[r] = Append(outcome[r], "cancelled")
      BY <1>4, <2>1 DEF CancelRows, TypeOK
    <3>3. driver'[r] = "ended"
      BY <1>0, <1>4, <2>1 DEF EndProducer, TypeOK
    <3> QED BY <3>1, <3>2, <3>3, ClosedRow
  <2>2. CASE q # r
    BY <1>0, <1>4, <2>2, SameRow DEF CancelRows, EndProducer, TypeOK
  <2> QED BY <2>1, <2>2
<1>5. ASSUME NEW q \in Runs, Cancel(q) PROVE PlainRow(r)'
  BY <1>4, <1>5 DEF Cancel, Cancellable
<1>6. ASSUME NEW a \in Approvals, NEW decision, Decide(a, decision) PROVE PlainRow(r)'
  <2>1. ApRun(a) # r
    BY <1>1, <1>6 DEF Decide, Claimable
  <2>2. status'[r] = status[r] /\ outcome'[r] = outcome[r]
    BY <1>6, <2>1 DEF Decide, TypeOK
  <2>3. driver'[r] = driver[r]
    BY <1>0, <1>6 DEF Decide, TypeOK
  <2> QED BY <2>2, <2>3, SameRow
<1>7. ASSUME NEW q \in Runs, Producer(q) PROVE PlainRow(r)'
  <2>0. q \in Drivers /\ DriverRun(q) = q /\ Root[q] \in Tasks /\ RunOf[Root[q]] = q
    BY ConstantsOK DEF Drivers, DriverRun
  <2>1. CASE q # r
    <3>1. ASSUME NEW how, NEW tasks, NEW evals, NEW hasFailed,
                 Finish(q, how, tasks, evals, hasFailed)
          PROVE  PlainRow(r)'
      <4>1. /\ status'[r] = status[r]
            /\ outcome'[r] = outcome[r]
            /\ driver'[r] = driver[r]
        BY <1>0, <2>0, <2>1, <3>1 DEF Finish, TypeOK
      <4> QED BY <4>1, SameRow
    <3>2. ASSUME NEW v, driver' = [driver EXCEPT ![q] = v], status' = status,
                 outcome' = outcome
          PROVE  PlainRow(r)'
      BY <1>0, <2>1, <3>2, SameRow DEF TypeOK
    <3>3. ASSUME HostLoop(q) PROVE PlainRow(r)'
      BY <3>1, <3>2, <3>3 DEF HostLoop, HostDelegates, HostStops, RoundEnds
    <3>4. ASSUME ProducerNoticesCancel(q) PROVE PlainRow(r)'
      BY <3>2, <3>4 DEF ProducerNoticesCancel
    <3>5. ASSUME NEW a \in Approvals, DirectAsks(q, a) PROVE PlainRow(r)'
      <4>1. status'[r] = status[r] /\ outcome' = outcome /\ driver' = driver
        BY <2>1, <3>5 DEF DirectAsks, TypeOK
      <4> QED BY <4>1, SameRow
    <3>6. ASSUME NEW how, DirectEnds(q, how) PROVE PlainRow(r)'
      BY <3>1, <3>6 DEF DirectEnds
    <3> QED BY <1>7, <3>3, <3>4, <3>5, <3>6 DEF Producer
  <2>2. CASE q = r
    <3>1. CASE HostLoop(r)
      BY <3>1, HostLoopPlain
    <3>2. ASSUME ProducerNoticesCancel(r) PROVE PlainRow(r)'
      BY <3>2 DEF ProducerNoticesCancel, MayWrite, PlainRow
    <3>3. ASSUME NEW a \in Approvals, DirectAsks(r, a) PROVE PlainRow(r)'
      <4>1. ApRun(a) = r /\ approval'[a] = "pending"
        BY <2>0, <2>2, <3>3 DEF DirectAsks, ApRun, TypeOK
      <4> QED BY <4>1 DEF Plain
    <3>4. ASSUME NEW how \in {"complete", "error"}, DirectEnds(r, how) PROVE PlainRow(r)'
      <4>1. exec[Root[r]] # "approval"
        <5> SUFFICES ASSUME exec[Root[r]] = "approval" PROVE FALSE
          OBVIOUS
        <5>1. PICK a \in Approvals : TaskOf[a] = Root[r] /\ approval[a] # "unused"
          BY <1>0 DEF WaitingHasApproval
        <5> QED BY <2>0, <2>2, <5>1 DEF Plain, ApRun
      <4>2. Finish(r, how, task, evaluated, FALSE) /\ Active(r)
        BY <3>4, <4>1 DEF DirectEnds, Active
      <4> QED BY <4>2, FinishPlain
    <3> QED BY <1>7, <2>2, <3>1, <3>2, <3>3, <3>4 DEF Producer
  <2> QED BY <2>1, <2>2
<1>8. ASSUME NEW q \in Runs, ProducerAborts(q) PROVE PlainRow(r)'
  <2>1. CASE status[q] = "running"
    BY <1>4, <1>8, <2>1 DEF ProducerAborts, Terminal
  <2>2. CASE status[q] # "running"
    <3>1. q # r
      BY <1>8, <2>2 DEF ProducerAborts, PlainRow
    <3>2. status' = status /\ outcome' = outcome
      BY <1>8, <2>2 DEF ProducerAborts
    <3>3. driver'[r] = driver[r]
      BY <1>0, <1>8, <3>1 DEF ProducerAborts, EndProducer, TypeOK
    <3> QED BY <3>2, <3>3, SameRow
  <2> QED BY <2>1, <2>2
<1>9. ASSUME NEW a \in Approvals, Job(a) PROVE PlainRow(r)'
  <2>1. driver[a] # "idle" /\ driver'[r] = driver[r]
    BY <1>9, JobDecisions
  <2>2. ApRun(a) # r
    BY <1>1, <2>1
  <2>3. status'[r] = status[r] /\ outcome'[r] = outcome[r]
    BY <1>9, <2>2, JobOtherRuns
  <2> QED BY <2>1, <2>3, SameRow
<1>10. ASSUME NEW t \in Tasks, Execution(t) PROVE PlainRow(r)'
  <2>1. ASSUME NEW v, RemoteReturns(t, v) PROVE PlainRow(r)'
    BY <2>1, SameRow DEF RemoteReturns
  <2>2. ASSUME NEW a \in Approvals, RemoteAsksApproval(t, a) PROVE PlainRow(r)'
    <3>1. ApRun(a) = RunOf[t] /\ approval'[a] = "pending"
      BY <2>2 DEF RemoteAsksApproval, ApRun, TypeOK
    <3>2. RunOf[t] # r
      BY <3>1 DEF Plain, ApRun
    <3>3. status'[r] = status[r] /\ outcome' = outcome /\ driver' = driver
      BY <2>2, <3>2 DEF RemoteAsksApproval, TypeOK
    <3> QED BY <3>3, SameRow
  <2> QED BY <1>10, <2>1, <2>2 DEF Execution
<1>11. ASSUME Crash PROVE PlainRow(r)'
  <2>1. CASE status[r] = "running"
    <3>1. status'[r] = "interrupted" /\ outcome'[r] = Append(outcome[r], "failed")
      BY <1>11, <2>1 DEF Crash
    <3>2. driver'[r] = "ended"
      BY <1>0, <1>11, <2>1 DEF Crash, PlainRow
    <3> QED BY <2>1, <3>1, <3>2, ClosedRow
  <2>2. CASE status[r] # "running"
    <3>1. status'[r] = status[r] /\ outcome'[r] = outcome[r]
      BY <1>11, <2>2 DEF Crash
    <3>2. driver'[r] = driver[r]
      BY <1>0, <1>11, <2>2 DEF Crash, PlainRow
    <3> QED BY <3>1, <3>2, SameRow
  <2> QED BY <2>1, <2>2
<1>12. ASSUME UNCHANGED vars PROVE PlainRow(r)'
  BY <1>12, SameRow DEF vars
<1> QED
  BY <1>3, <1>5, <1>6, <1>7, <1>8, <1>9, <1>10, <1>11, <1>12 DEF Next, Request

\* A Run that never asks for an approval is running exactly while its producer
\* is, and closes its log with one terminal event, the one its status names,
\* however cancel, other Runs of the conversation and restarts interfere.
THEOREM PlainRunsEndOnce == Spec => []PlainRunEndsOnce
<1> DEFINE IInv == DecisionInv /\ LoopInv /\ PlainInv
<1>1. Init => IInv
  <2>1. Init => DecisionInv
    BY DEF Init, DecisionInv, Drivers
  <2>2. Init => LoopInv
    BY ConstantsOK
       DEF Init, LoopInv, PausedAfterProducer, ResumesAfterProducer, OneResume,
           RoundsOfOwnRun, ResumeStates, Drivers
  <2>3. Init => PlainInv
    BY DEF Init, PlainInv, WaitingHasApproval, PlainRow, Active, Terminal, Drivers
  <2> QED BY <2>1, <2>2, <2>3
<1>2. TypeOK /\ IInv /\ [Next]_vars => IInv'
  <2> SUFFICES ASSUME TypeOK, IInv, [Next]_vars PROVE IInv'
    OBVIOUS
  <2>1. DecisionInv' /\ LoopInv'
    BY DecisionInvNext, LoopInvNext
  <2>2. /\ WaitingHasApproval'
        /\ \A a \in Approvals : approval'[a] = "unused" => approval[a] = "unused"
    BY WaitingNext DEF PlainInv
  <2>3. \A r \in Runs : Plain(r)' => Plain(r)
    BY <2>2 DEF Plain, ApRun
  <2>4. \A r \in Runs : Plain(r)' => PlainRow(r)'
    BY <2>3, PlainNext DEF PlainInv, LoopInv
  <2> QED BY <2>1, <2>2, <2>4 DEF PlainInv
<1>3. IInv => PlainRunEndsOnce
  BY DEF PlainInv, PlainRow, PlainRunEndsOnce
<1> QED BY <1>1, <1>2, <1>3, TypeCorrect, PTL DEF Spec

-----------------------------------------------------------------------------
(***************************************************************************)
(* A success is in the log.                                                *)
(*                                                                         *)
(* The invariant is inductive because of what every single step does: it   *)
(* leaves status and log of a Run alone, or writes a status that is not a  *)
(* success, or appends to the log the status it writes.                    *)
(***************************************************************************)
Success == {"completed", "partial"}

Logged(r) ==
  \/ status'[r] = status[r] /\ outcome'[r] = outcome[r]
  \/ status'[r] \notin Success
  \/ outcome'[r] = Append(outcome[r], status'[r])

\* The last step of a driver logs what it writes.
LEMMA FinishLogged ==
  ASSUME TypeOK, NEW d \in Drivers, NEW how, NEW tasks, NEW evals, NEW hasFailed,
         Finish(d, how, tasks, evals, hasFailed), NEW r \in Runs
  PROVE  Logged(r)
<1> DEFINE q == DriverRun(d)
           final == FinalStatus(d, how, evals, hasFailed)
<1>1. /\ status' = [status EXCEPT ![q] = final]
      /\ outcome' = IF final = "approval_required" THEN outcome
                    ELSE [outcome EXCEPT ![q] = Append(@, final)]
  BY DEF Finish
<1> HIDE DEF q, final
<1> QED BY <1>1 DEF Logged, Success, TypeOK

\* So does every step of the Host loop.
LEMMA HostLoopLogged ==
  ASSUME TypeOK, NEW d \in Drivers, HostLoop(d), NEW r \in Runs
  PROVE  Logged(r)
<1>1. ASSUME UNCHANGED <<status, outcome>> PROVE Logged(r)
  BY <1>1 DEF Logged
<1> QED BY <1>1, FinishLogged DEF HostLoop, HostDelegates, HostStops, RoundEnds

\* And the start of a resume: it leaves stat, whose success is the old one.
LEMMA ResumeLogged ==
  ASSUME TypeOK, NEW a \in Approvals, NEW stat \in [Runs -> RunStatus], NEW res,
         Resume(a, stat, res) \/ ResumeOrWait(a, stat, res), NEW r \in Runs,
         stat[r] = status[r] \/ stat[r] \notin Success
  PROVE  Logged(r)
<1>1. ASSUME NEW t, NEW settled, Settle(a, t, stat, settled) PROVE Logged(r)
  BY <1>1 DEF Settle, Logged, Success, TypeOK
<1>2. ASSUME NEW t, RecordFollowup(a, t, stat) PROVE Logged(r)
  BY <1>2 DEF RecordFollowup, Logged, Success
<1>3. ASSUME status' = stat, outcome' = outcome PROVE Logged(r)
  BY <1>3 DEF Logged
<1> QED BY <1>1, <1>2, <1>3 DEF ResumeOrWait, Resume, NothingToResume, Evaluate

\* And every step of a job.
LEMMA JobLogged ==
  ASSUME TypeOK, NEW a \in Approvals, Job(a), NEW r \in Runs
  PROVE  Logged(r)
<1>0. a \in Drivers /\ status \in [Runs -> RunStatus]
  BY DEF Drivers, TypeOK
<1>1. ASSUME UNCHANGED <<status, outcome>> PROVE Logged(r)
  BY <1>1 DEF Logged
<1>2. ASSUME NEW res \in {"completed", "failed", "other"}, AutoReturn(a, res)
      PROVE  Logged(r)
  <2> DEFINE v == IF res = "failed" THEN "failed" ELSE "running"
             stat == [status EXCEPT ![ApRun(a)] = v]
  <2>1. v \in RunStatus /\ v \notin Success
    BY DEF RunStatus, Terminal, Success
  <2>2. ResumeOrWait(a, stat, res)
    BY <1>2 DEF AutoReturn
  <2> HIDE DEF v
  <2>3. stat \in [Runs -> RunStatus] /\ (stat[r] = status[r] \/ stat[r] \notin Success)
    BY <2>1, <1>0
  <2> HIDE DEF stat
  <2> QED BY <2>2, <2>3, ResumeLogged
<1>3. ASSUME NEW b, AutoFollowup(a, b) PROVE Logged(r)
  <2> DEFINE stat == [status EXCEPT ![ApRun(a)] = "approval_required"]
  <2>1. stat \in [Runs -> RunStatus] /\ (stat[r] = status[r] \/ stat[r] \notin Success)
    BY <1>0 DEF RunStatus, Success
  <2>2. ResumeOrWait(a, stat, "followup")
    BY <1>3 DEF AutoFollowup
  <2> HIDE DEF stat
  <2> QED BY <2>1, <2>2, ResumeLogged
<1>4. ASSUME AutoRaises(a) \/ ResumeBegin(a) PROVE Logged(r)
  BY <1>0, <1>4, ResumeLogged DEF AutoRaises, ResumeBegin
<1>5. ASSUME NEW settled, Evaluated(a, settled) PROVE Logged(r)
  BY <1>5 DEF Evaluated, Settle, Logged, Success, TypeOK
<1>6. ASSUME NEW res, DirectReturn(a, res) PROVE Logged(r)
  BY <1>6 DEF DirectReturn, TrailingStatus, Logged, Success, TypeOK
<1>7. ASSUME NEW b, DirectFollowup(a, b) PROVE Logged(r)
  BY <1>7 DEF DirectFollowup, Logged, Success, TypeOK
<1>8. ASSUME Deliver(a) \/ DirectRaises(a) \/ EvaluationRaises(a) PROVE Logged(r)
  BY <1>1, <1>8 DEF Deliver, DirectRaises, EvaluationRaises
<1>9. ASSUME HostLoop(a) PROVE Logged(r)
  BY <1>0, <1>9, HostLoopLogged
<1> QED BY <1>2, <1>3, <1>4, <1>5, <1>6, <1>7, <1>8, <1>9 DEF Job

\* And every step of the program.
LEMMA NextLogged ==
  ASSUME TypeOK, [Next]_vars, NEW r \in Runs
  PROVE  Logged(r)
<1>1. ASSUME UNCHANGED <<status, outcome>> PROVE Logged(r)
  BY <1>1 DEF Logged
<1>2. ASSUME NEW q \in Runs, StartRun(q) PROVE Logged(r)
  BY <1>2 DEF StartRun, Logged, Success
<1>3. ASSUME NEW q \in Runs, CancelRows(q) PROVE Logged(r)
  BY <1>3 DEF CancelRows, Logged, Success, TypeOK
<1>4. ASSUME NEW a \in Approvals, NEW decision, Decide(a, decision) PROVE Logged(r)
  BY <1>4 DEF Decide, Logged, Success, TypeOK
<1>5. ASSUME NEW q \in Runs, Producer(q) PROVE Logged(r)
  <2>1. q \in Drivers
    BY DEF Drivers
  <2>2. ASSUME NEW a, DirectAsks(q, a) PROVE Logged(r)
    BY <2>2 DEF DirectAsks, Logged, Success, TypeOK
  <2>3. ASSUME NEW how, DirectEnds(q, how) PROVE Logged(r)
    BY <2>1, <2>3, FinishLogged DEF DirectEnds
  <2> QED BY <1>1, <1>5, <2>1, <2>2, <2>3, HostLoopLogged DEF Producer, ProducerNoticesCancel
<1>6. ASSUME NEW q \in Runs, ProducerAborts(q) PROVE Logged(r)
  BY <1>1, <1>3, <1>6 DEF ProducerAborts
<1>7. ASSUME NEW t, NEW a, RemoteAsksApproval(t, a) PROVE Logged(r)
  BY <1>7 DEF RemoteAsksApproval, Logged, Success, TypeOK
<1>8. ASSUME Crash PROVE Logged(r)
  BY <1>8 DEF Crash, Logged, Success
<1>9. ASSUME NEW q \in Runs, Cancel(q) PROVE Logged(r)
  BY <1>3, <1>9 DEF Cancel
<1>10. ASSUME NEW t \in Tasks, Execution(t) PROVE Logged(r)
  BY <1>1, <1>7, <1>10 DEF Execution, RemoteReturns
<1>11. ASSUME NEW a \in Approvals, Job(a) PROVE Logged(r)
  BY <1>11, JobLogged
<1>12. ASSUME UNCHANGED vars PROVE Logged(r)
  BY <1>1, <1>12 DEF vars
<1> QED
  BY <1>2, <1>4, <1>5, <1>6, <1>8, <1>9, <1>10, <1>11, <1>12 DEF Next, Request

\* A Run that is shown as completed or partial has that very event as the last
\* terminal event of its log, whichever of the producer, a resume and a request
\* that finalises a direct Run wrote it, and whatever came after.
THEOREM SuccessesAreLogged == Spec => []SuccessIsLogged
<1>1. Init => SuccessIsLogged
  BY DEF Init, SuccessIsLogged
<1>2. TypeOK /\ SuccessIsLogged /\ [Next]_vars => SuccessIsLogged'
  <2> SUFFICES ASSUME TypeOK, SuccessIsLogged, [Next]_vars, NEW r \in Runs,
                      status'[r] \in Success
               PROVE  outcome'[r] # <<>> /\ outcome'[r][Len(outcome'[r])] = status'[r]
    BY DEF SuccessIsLogged, Success
  <2>1. CASE status'[r] = status[r] /\ outcome'[r] = outcome[r]
    BY <2>1 DEF SuccessIsLogged, Success
  <2>2. CASE outcome'[r] = Append(outcome[r], status'[r])
    <3>1. outcome[r] \in Seq(Terminal) /\ status'[r] \in Terminal
      BY DEF TypeOK, Success, Terminal
    <3>2. outcome'[r] # <<>> /\ outcome'[r][Len(outcome'[r])] = status'[r]
      BY <2>2, <3>1
    <3> QED BY <3>2
  <2> QED BY <2>1, <2>2, NextLogged DEF Logged
<1> QED BY <1>1, <1>2, TypeCorrect, PTL DEF Spec

-----------------------------------------------------------------------------
(***************************************************************************)
(* Who starts an execution, who moves a producer, who cancels a Run.       *)
(***************************************************************************)

\* Only these steps move a producer.
LEMMA ProducerMoves ==
  ASSUME TypeOK, [Next]_vars, NEW r \in Runs, driver'[r] # driver[r]
  PROVE  \/ StartRun(r) \/ Cancel(r) \/ HostLoop(r) \/ ProducerNoticesCancel(r)
         \/ \E how \in {"complete", "error"} : DirectEnds(r, how)
         \/ ProducerAborts(r) \/ Crash
<1>0. r \in Drivers /\ Runs \subseteq Drivers /\ Approvals \subseteq Drivers /\ r \notin Approvals
  BY ConstantsOK DEF Drivers
<1>1. ASSUME NEW d \in Drivers, d # r, NEW v, driver' = [driver EXCEPT ![d] = v] PROVE FALSE
  BY <1>0, <1>1 DEF TypeOK
<1>2. ASSUME NEW q \in Runs, q # r, StartRun(q) PROVE FALSE
  BY <1>0, <1>1, <1>2 DEF StartRun
<1>3. ASSUME NEW q \in Runs, q # r, EndProducer(q) PROVE FALSE
  BY <1>0, <1>1, <1>3 DEF EndProducer
<1>4. ASSUME NEW a \in Approvals, NEW decision, Decide(a, decision) PROVE FALSE
  BY <1>0, <1>1, <1>4 DEF Decide
<1>5. ASSUME NEW a \in Approvals, Job(a) PROVE FALSE
  <2>1. a \in Approvals
    BY <1>5
  <2> QED BY <1>5, <2>1, JobDecisions
<1>6. ASSUME NEW q \in Runs, q # r, Producer(q) PROVE FALSE
  <2>1. HostLoop(q) => FALSE
    BY <1>0, <1>1, <1>6, HostLoopDriver
  <2> QED BY <1>0, <1>1, <1>6, <2>1
       DEF Producer, ProducerNoticesCancel, DirectAsks, DirectEnds, Finish
<1>7. ASSUME NEW t \in Tasks, Execution(t) PROVE FALSE
  BY <1>7 DEF Execution, RemoteReturns, RemoteAsksApproval
<1>8. ASSUME NEW a \in Approvals, DirectAsks(r, a) PROVE FALSE
  BY <1>8 DEF DirectAsks
<1>9. ASSUME UNCHANGED vars PROVE FALSE
  BY <1>9 DEF vars
<1>10. ASSUME NEW q \in Runs, q # r, Cancel(q) \/ ProducerAborts(q) PROVE FALSE
  BY <1>3, <1>10 DEF Cancel, ProducerAborts
<1> QED
  BY <1>2, <1>4, <1>5, <1>6, <1>7, <1>8, <1>9, <1>10 DEF Next, Request, Producer

\* An execution starts with the Run of a direct root, or is delegated by a loop.
LEMMA ExecutionStarts ==
  ASSUME TypeOK, [Next]_vars, NEW t \in Tasks, exec'[t] = "running", exec[t] # "running"
  PROVE  \/ \E r \in Runs : StartRun(r) /\ Mode[r] = "direct" /\ t = Root[r]
         \/ \E d \in Drivers : \E S \in SUBSET Delegable(DriverRun(d)) :
              HostLoop(d) /\ HostDelegates(d, S) /\ t \in S
<1>1. ASSUME NEW r \in Runs, StartRun(r)
      PROVE  Mode[r] = "direct" /\ t = Root[r]
  BY <1>1, ConstantsOK DEF StartRun, TypeOK
<1>2. ASSUME NEW r \in Runs, EndProducer(r) PROVE FALSE
  BY <1>2, ConstantsOK DEF EndProducer, TypeOK
<1>3. ASSUME exec' = exec PROVE FALSE
  BY <1>3
<1>4. ASSUME NEW d \in Drivers, HostLoop(d)
      PROVE  \E S \in SUBSET Delegable(DriverRun(d)) : HostDelegates(d, S) /\ t \in S
  <2>1. PICK S \in SUBSET Delegable(DriverRun(d)) : HostDelegates(d, S)
    BY <1>3, <1>4 DEF HostLoop, HostStops, RoundEnds
  <2> QED BY <2>1 DEF HostDelegates
<1>5. ASSUME NEW r \in Runs, Producer(r), ~HostLoop(r) PROVE FALSE
  <2>1. ASSUME NEW a, DirectAsks(r, a) PROVE FALSE
    BY <2>1, ConstantsOK DEF DirectAsks, TypeOK
  <2>2. ASSUME NEW how, DirectEnds(r, how) PROVE FALSE
    BY <2>2, ConstantsOK DEF DirectEnds, TypeOK
  <2> QED BY <1>5, <2>1, <2>2 DEF Producer, ProducerNoticesCancel
<1>6. ASSUME NEW a \in Approvals, Job(a), ~HostLoop(a) PROVE FALSE
  BY <1>3, <1>6 DEF Job, Deliver, AutoReturn, DirectReturn, AutoFollowup, DirectFollowup,
                    AutoRaises, DirectRaises, ResumeBegin, Evaluated, EvaluationRaises
<1>7. ASSUME NEW u \in Tasks, Execution(u) PROVE FALSE
  BY <1>7 DEF Execution, RemoteReturns, RemoteAsksApproval, TypeOK
<1>8. ASSUME Crash PROVE FALSE
  BY <1>8 DEF Crash, TypeOK
<1>9. ASSUME NEW r \in Runs, Cancel(r) \/ ProducerAborts(r) PROVE FALSE
  BY <1>2, <1>9 DEF Cancel, ProducerAborts
<1>10. ASSUME NEW a \in Approvals, NEW decision, Decide(a, decision) PROVE FALSE
  BY <1>3, <1>10 DEF Decide
<1>11. ASSUME UNCHANGED vars PROVE FALSE
  BY <1>11 DEF vars
<1>12. Runs \subseteq Drivers /\ Approvals \subseteq Drivers
  BY DEF Drivers
<1> QED
  BY <1>1, <1>4, <1>5, <1>6, <1>7, <1>8, <1>9, <1>10, <1>11, <1>12 DEF Next, Request

-----------------------------------------------------------------------------
(***************************************************************************)
(* A cancelled producer is inert.                                          *)
(*                                                                         *)
(* Its next step is to end; what is not obvious is that this step leaves   *)
(* the executions alone, since the end of a direct producer kills the      *)
(* stream it reads. A direct Run is cancelled under its producer only by a *)
(* message that supersedes its pending approval, and with an approval out  *)
(* its stream is no longer running: AskedByAgent and CancelledHasNoStream. *)
(***************************************************************************)
DirectNeverDecides == \A r \in Runs : Mode[r] = "direct" => driver[r] # "deciding"

AskedByAgent ==
  \A a \in Approvals :
    /\ approval[a] # "unused" =>
         \/ exec[TaskOf[a]] = "approval"
         \/ exec[TaskOf[a]] = "failed" /\ driver[ApRun(a)] = "ended"
    /\ driver[ApRun(a)] = "idle" => exec[TaskOf[a]] = "none"

CancelledHasNoStream ==
  \A r \in Runs :
    status[r] = "cancelled" /\ Active(r) /\ Mode[r] = "direct"
      => exec[Root[r]] # "running"

StreamInv == DirectNeverDecides /\ AskedByAgent /\ CancelledHasNoStream

\* The Host loop is for auto Runs.
LEMMA HostLoopAuto ==
  ASSUME TypeOK, DirectNeverDecides, ResumesAfterProducer, NEW d \in Drivers, HostLoop(d)
  PROVE  Mode[DriverRun(d)] = "auto"
<1>1. driver[d] \in {"deciding", "delegating"}
  BY HostLoopDriver
<1>2. CASE d \in Runs
  BY <1>2, ConstantsOK
     DEF HostLoop, HostDelegates, HostStops, RoundEnds, DirectNeverDecides, DriverRun
<1>3. CASE d \notin Runs
  BY <1>1, <1>3 DEF ResumesAfterProducer, ResumeStates, DriverRun, Drivers
<1> QED BY <1>2, <1>3

\* A direct Run goes from idle to the reading of its stream.
LEMMA DirectNeverDecidesNext ==
  ASSUME TypeOK, DirectNeverDecides, ResumesAfterProducer, [Next]_vars
  PROVE  DirectNeverDecides'
<1> SUFFICES ASSUME NEW r \in Runs, Mode[r] = "direct", driver'[r] # driver[r]
             PROVE  driver'[r] # "deciding"
  BY DEF DirectNeverDecides
<1>1. r \in Drivers /\ DriverRun(r) = r
  BY DEF Drivers, DriverRun
<1>2. ~HostLoop(r)
  BY <1>1, HostLoopAuto
<1>3. ASSUME StartRun(r) PROVE driver'[r] # "deciding"
  BY <1>1, <1>3 DEF StartRun, TypeOK
<1>4. ASSUME NEW how, DirectEnds(r, how) PROVE driver'[r] # "deciding"
  BY <1>1, <1>4 DEF DirectEnds, Finish, TypeOK
<1> QED
  BY <1>1, <1>2, <1>3, <1>4, ProducerMoves
     DEF Cancel, ProducerAborts, EndProducer, ProducerNoticesCancel, Crash, TypeOK

\* An execution that stops was running, or its direct stream ended.
LEMMA ExecutionStops ==
  ASSUME TypeOK, [Next]_vars, NEW t \in Tasks, exec'[t] # exec[t], exec'[t] # "running"
  PROVE  \/ exec[t] = "running"
         \/ \E r \in Runs, how \in {"complete", "error"} : DirectEnds(r, how) /\ t = Root[r]
<1> DEFINE Goal == \/ exec[t] = "running"
                   \/ \E r \in Runs, how \in {"complete", "error"} :
                        DirectEnds(r, how) /\ t = Root[r]
<1>1. ASSUME exec' = exec PROVE FALSE
  BY <1>1
<1>2. ASSUME NEW r \in Runs, EndProducer(r) PROVE Goal
  BY <1>2, ConstantsOK DEF EndProducer, TypeOK
<1>3. ASSUME NEW r \in Runs, StartRun(r) PROVE FALSE
  BY <1>3, ConstantsOK DEF StartRun, TypeOK
<1>4. ASSUME NEW d, HostLoop(d) PROVE FALSE
  BY <1>4 DEF HostLoop, HostDelegates, HostStops, RoundEnds
<1>5. ASSUME NEW r \in Runs, Producer(r) PROVE Goal
  <2>1. ASSUME NEW a, DirectAsks(r, a) PROVE Goal
    BY <2>1, ConstantsOK DEF DirectAsks, TypeOK
  <2>2. ASSUME NEW how \in {"complete", "error"}, DirectEnds(r, how) PROVE Goal
    <3>1. t = Root[r]
      BY <2>2 DEF DirectEnds, TypeOK
    <3> QED BY <2>2, <3>1
  <2> QED BY <1>1, <1>4, <1>5, <2>1, <2>2 DEF Producer, ProducerNoticesCancel
<1>6. ASSUME NEW a \in Approvals, Job(a) PROVE FALSE
  BY <1>1, <1>4, <1>6
     DEF Job, Deliver, AutoReturn, DirectReturn, AutoFollowup, DirectFollowup,
         AutoRaises, DirectRaises, ResumeBegin, Evaluated, EvaluationRaises
<1>7. ASSUME NEW u \in Tasks, Execution(u) PROVE Goal
  BY <1>7 DEF Execution, RemoteReturns, RemoteAsksApproval, TypeOK
<1>8. ASSUME Crash PROVE Goal
  BY <1>8 DEF Crash, TypeOK
<1>9. ASSUME NEW r \in Runs, Cancel(r) \/ ProducerAborts(r) PROVE Goal
  BY <1>2, <1>9 DEF Cancel, ProducerAborts
<1>10. ASSUME NEW a \in Approvals, NEW decision, Decide(a, decision) PROVE FALSE
  BY <1>1, <1>10 DEF Decide
<1>11. ASSUME UNCHANGED vars PROVE FALSE
  BY <1>11 DEF vars
<1> HIDE DEF Goal
<1>12. Goal
  BY <1>3, <1>5, <1>6, <1>7, <1>8, <1>9, <1>10, <1>11 DEF Next, Request
<1> QED BY <1>12 DEF Goal

\* An approval is raised by an execution that stops for it, or by the delivery of
\* the approval before it in the same batch.
LEMMA ApprovalRaised ==
  ASSUME TypeOK, [Next]_vars, NEW a \in Approvals,
         approval[a] = "unused", approval'[a] # "unused"
  PROVE  /\ \A b \in Approvals \ {a} : approval'[b] = approval[b]
         /\ \/ exec[TaskOf[a]] = "running" /\ exec'[TaskOf[a]] = "approval"
            \/ /\ exec' = exec
               /\ \E b \in Approvals \ {a} :
                    /\ AutoFollowup(b, a) \/ DirectFollowup(b, a)
                    /\ TaskOf[b] = TaskOf[a]
                    /\ approval[b] = "approved"
                    /\ driver[b] = "executing"
<1> DEFINE Goal ==
      /\ \A b \in Approvals \ {a} : approval'[b] = approval[b]
      /\ \/ exec[TaskOf[a]] = "running" /\ exec'[TaskOf[a]] = "approval"
         \/ /\ exec' = exec
            /\ \E b \in Approvals \ {a} :
                 /\ AutoFollowup(b, a) \/ DirectFollowup(b, a)
                 /\ TaskOf[b] = TaskOf[a]
                 /\ approval[b] = "approved"
                 /\ driver[b] = "executing"
<1>1. ASSUME approval' = approval PROVE FALSE
  BY <1>1
<1>2. ASSUME NEW r \in Runs, StartRun(r) PROVE FALSE
  BY <1>2 DEF StartRun, Superseded
<1>3. ASSUME NEW b \in Approvals, NEW decision, Decide(b, decision) PROVE FALSE
  BY <1>3 DEF Decide, Claimable, TypeOK
<1>4. ASSUME NEW d \in Drivers, HostLoop(d) PROVE FALSE
  BY <1>1, <1>4, HostLoopDriver
<1>5. ASSUME NEW r \in Runs, NEW b \in Approvals, DirectAsks(r, b) PROVE Goal
  <2>1. b = a
    BY <1>5 DEF DirectAsks, TypeOK
  <2> QED BY <1>5, <2>1, ConstantsOK DEF DirectAsks, TypeOK
<1>6. ASSUME NEW t \in Tasks, NEW b \in Approvals, RemoteAsksApproval(t, b) PROVE Goal
  <2>1. b = a
    BY <1>6 DEF RemoteAsksApproval, TypeOK
  <2> QED BY <1>6, <2>1 DEF RemoteAsksApproval, TypeOK
<1>7. ASSUME NEW b \in Approvals, NEW c \in Approvals, AutoFollowup(b, c) PROVE Goal
  <2>1. c = a
    BY <1>7 DEF AutoFollowup, TypeOK
  <2> QED BY <1>7, <2>1 DEF AutoFollowup, TypeOK
<1>8. ASSUME NEW b \in Approvals, NEW c \in Approvals, DirectFollowup(b, c) PROVE Goal
  <2>1. c = a
    BY <1>8 DEF DirectFollowup, TypeOK
  <2> QED BY <1>8, <2>1 DEF DirectFollowup, TypeOK
<1>9. Runs \subseteq Drivers /\ Approvals \subseteq Drivers
  BY DEF Drivers
<1> HIDE DEF Goal
<1>10. ASSUME NEW r \in Runs, Producer(r) PROVE Goal
  BY <1>1, <1>4, <1>5, <1>9, <1>10 DEF Producer, ProducerNoticesCancel, DirectEnds
<1>11. ASSUME NEW b \in Approvals, Job(b) PROVE Goal
  BY <1>1, <1>4, <1>7, <1>8, <1>9, <1>11
     DEF Job, Deliver, AutoReturn, DirectReturn, AutoRaises, DirectRaises,
         ResumeBegin, Evaluated, EvaluationRaises
<1>12. ASSUME NEW t \in Tasks, Execution(t) PROVE Goal
  BY <1>1, <1>6, <1>12 DEF Execution, RemoteReturns
<1>13. Goal
  BY <1>1, <1>2, <1>3, <1>10, <1>11, <1>12
     DEF Next, Request, Cancel, ProducerAborts, Crash, vars
<1> QED BY <1>13 DEF Goal

\* A producer starts once and ends once.
LEMMA ProducerStartsOnce ==
  ASSUME TypeOK, [Next]_vars, NEW r \in Runs
  PROVE  /\ driver'[r] = "idle" => driver[r] = "idle"
         /\ driver[r] = "ended" => driver'[r] = "ended"
         /\ driver[r] = "idle" /\ driver'[r] \notin {"idle", "ended"} => StartRun(r)
<1> SUFFICES ASSUME driver'[r] # driver[r]
             PROVE  /\ driver'[r] # "idle"
                    /\ driver[r] # "ended"
                    /\ driver[r] = "idle" /\ driver'[r] # "ended" => StartRun(r)
  OBVIOUS
<1>0. r \in Drivers
  BY DEF Drivers
<1>1. CASE StartRun(r)
  BY <1>0, <1>1 DEF StartRun, TypeOK
<1>2. CASE HostLoop(r)
  BY <1>0, <1>2, HostLoopDriver DEF TypeOK
<1>3. CASE \E how : DirectEnds(r, how)
  BY <1>0, <1>3 DEF DirectEnds, Finish, TypeOK
<1>4. CASE Cancel(r) \/ ProducerAborts(r) \/ ProducerNoticesCancel(r) \/ Crash
  BY <1>0, <1>4
     DEF Cancel, ProducerAborts, EndProducer, ProducerNoticesCancel, Crash, TypeOK
<1> QED BY <1>1, <1>2, <1>3, <1>4, ProducerMoves

\* The execution of a task with an approval has stopped for it, for good; a
\* direct stream may still end in an error, with its producer.
LEMMA AskedByAgentNext ==
  ASSUME TypeOK, ResumesAfterProducer, DirectNeverDecides, AskedByAgent, [Next]_vars
  PROVE  AskedByAgent'
<1> SUFFICES ASSUME NEW a \in Approvals
             PROVE  /\ approval'[a] # "unused" =>
                         \/ exec'[TaskOf[a]] = "approval"
                         \/ exec'[TaskOf[a]] = "failed" /\ driver'[ApRun(a)] = "ended"
                    /\ driver'[ApRun(a)] = "idle" => exec'[TaskOf[a]] = "none"
  BY DEF AskedByAgent
<1> DEFINE r == ApRun(a)
           t == TaskOf[a]
<1>1. /\ r \in Runs /\ t \in Tasks /\ RunOf[t] = r /\ r \in Drivers
      /\ \A q \in Runs : RunOf[Root[q]] = q
  BY ConstantsOK DEF ApRun, Drivers
<1>2. /\ driver'[r] = "idle" => driver[r] = "idle"
      /\ driver[r] = "ended" => driver'[r] = "ended"
  BY <1>1, ProducerStartsOnce
<1>3. /\ approval[a] # "unused" =>
           \/ exec[t] = "approval"
           \/ exec[t] = "failed" /\ driver[r] = "ended"
      /\ driver[r] = "idle" => exec[t] = "none"
  BY DEF AskedByAgent
<1>4. ASSUME exec[t] # "running", exec'[t] = "running"
      PROVE  exec[t] = "none" /\ driver'[r] # "idle"
  <2>1. ASSUME NEW q \in Runs, StartRun(q), t = Root[q]
        PROVE  exec[t] = "none" /\ driver'[r] # "idle"
    <3>1. q = r
      BY <1>1, <2>1
    <3> QED BY <1>1, <1>3, <2>1, <3>1 DEF StartRun, TypeOK
  <2>2. ASSUME NEW d \in Drivers, NEW S \in SUBSET Delegable(DriverRun(d)),
               HostLoop(d), HostDelegates(d, S), t \in S
        PROVE  exec[t] = "none" /\ driver'[r] # "idle"
    <3>1. DriverRun(d) = r
      BY <1>1, <2>2, DriverRunType DEF Delegable
    <3>2. driver[d] = "deciding"
      BY <2>2 DEF HostDelegates
    <3>3. driver[r] # "idle"
      BY <3>1, <3>2 DEF DriverRun, ResumesAfterProducer, ResumeStates, Drivers
    <3> QED BY <1>2, <2>2, <3>3 DEF HostDelegates
  <2> QED BY <1>1, <1>4, <2>1, <2>2, ExecutionStarts
<1>5. ASSUME exec[t] # "running", exec'[t] # "running", exec'[t] # exec[t]
      PROVE  /\ driver[r] = "delegating"
             /\ exec[t] = "approval" => exec'[t] = "failed" /\ driver'[r] = "ended"
  <2>1. PICK q \in Runs, how \in {"complete", "error"} : DirectEnds(q, how) /\ t = Root[q]
    BY <1>1, <1>5, ExecutionStops
  <2>2. q = r
    BY <1>1, <2>1
  <2>3. driver'[r] = "ended"
    BY <1>1, <2>1, <2>2 DEF DirectEnds, Finish, TypeOK
  <2> QED BY <1>1, <1>5, <2>1, <2>2, <2>3 DEF DirectEnds, TypeOK
<1>6. ASSUME approval[a] = "unused", approval'[a] # "unused", exec'[t] # "approval"
      PROVE  exec'[t] = "failed" /\ driver'[r] = "ended"
  <2>1. PICK b \in Approvals : TaskOf[b] = t /\ approval[b] = "approved" /\ exec' = exec
    BY <1>6, ApprovalRaised
  <2>2. ApRun(b) = r
    BY <2>1 DEF ApRun
  <2> QED BY <1>2, <1>6, <2>1, <2>2 DEF AskedByAgent
<1> QED BY <1>1, <1>2, <1>3, <1>4, <1>5, <1>6

\* A Run becomes cancelled with its producer's end, or is superseded.
LEMMA CancelledBy ==
  ASSUME TypeOK, [Next]_vars, NEW r \in Runs,
         status'[r] = "cancelled", status[r] # "cancelled"
  PROVE  driver'[r] = "ended" \/ HasPending(r)
<1>0. r \in Drivers
  BY DEF Drivers
<1>1. ASSUME status'[r] = status[r] PROVE FALSE
  BY <1>1
<1>2. ASSUME NEW d \in Drivers, NEW how \in {"complete", "stop", "error", "awaiting"},
             NEW tasks, NEW evals, NEW hasFailed,
             Finish(d, how, tasks, evals, hasFailed)
      PROVE  FALSE
  <2> DEFINE final == FinalStatus(d, how, evals, hasFailed)
  <2>1. final # "cancelled"
    BY DEF FinalStatus
  <2>2. status' = [status EXCEPT ![DriverRun(d)] = final]
    BY <1>2 DEF Finish
  <2> HIDE DEF final
  <2> QED BY <2>1, <2>2 DEF TypeOK
<1>3. ASSUME NEW d \in Drivers, HostLoop(d) PROVE FALSE
  BY <1>1, <1>2, <1>3 DEF HostLoop, HostDelegates, HostStops, RoundEnds
<1>4. ASSUME NEW q \in Runs, CancelRows(q), EndProducer(q)
      PROVE  driver'[r] = "ended"
  BY <1>0, <1>4 DEF CancelRows, EndProducer, TypeOK
<1>5. ASSUME NEW q \in Runs, StartRun(q) PROVE HasPending(r)
  BY <1>5 DEF StartRun
<1>6. ASSUME NEW q \in Runs, Producer(q) PROVE FALSE
  <2>1. ASSUME NEW a, DirectAsks(q, a) PROVE FALSE
    BY <2>1 DEF DirectAsks, TypeOK
  <2>2. ASSUME NEW how \in {"complete", "error"}, DirectEnds(q, how) PROVE FALSE
    BY <1>2, <2>2 DEF DirectEnds, Drivers
  <2> QED BY <1>1, <1>3, <1>6, <2>1, <2>2 DEF Producer, ProducerNoticesCancel, Drivers
<1>7. ASSUME NEW a \in Approvals, Job(a) PROVE FALSE
  <2>1. ASSUME NEW t, NEW stat, NEW settled, stat[r] # "cancelled",
               stat \in [Runs -> RunStatus], Settle(a, t, stat, settled)
        PROVE  FALSE
    BY <2>1 DEF Settle
  <2>2. ASSUME NEW stat \in [Runs -> RunStatus], NEW res, stat[r] # "cancelled",
               Resume(a, stat, res) \/ ResumeOrWait(a, stat, res)
        PROVE  FALSE
    BY <2>1, <2>2 DEF ResumeOrWait, Resume, NothingToResume, RecordFollowup, Evaluate
  <2>3. status \in [Runs -> RunStatus]
    BY DEF TypeOK
  <2>4. ASSUME NEW res \in {"completed", "failed", "other"}, AutoReturn(a, res) PROVE FALSE
    <3> DEFINE stat == [status EXCEPT ![ApRun(a)] =
                          IF res = "failed" THEN "failed" ELSE "running"]
    <3>1. stat \in [Runs -> RunStatus] /\ stat[r] # "cancelled"
      BY <2>3 DEF RunStatus, Terminal
    <3>2. ResumeOrWait(a, stat, res)
      BY <2>4 DEF AutoReturn
    <3> HIDE DEF stat
    <3> QED BY <2>2, <3>1, <3>2
  <2>5. ASSUME NEW b, AutoFollowup(a, b) PROVE FALSE
    <3> DEFINE stat == [status EXCEPT ![ApRun(a)] = "approval_required"]
    <3>1. stat \in [Runs -> RunStatus] /\ stat[r] # "cancelled"
      BY <2>3 DEF RunStatus
    <3>2. ResumeOrWait(a, stat, "followup")
      BY <2>5 DEF AutoFollowup
    <3> HIDE DEF stat
    <3> QED BY <2>2, <3>1, <3>2
  <2>6. ASSUME NEW res, DirectReturn(a, res) PROVE FALSE
    BY <2>6 DEF DirectReturn, TrailingStatus, TypeOK
  <2>7. ASSUME NEW b, DirectFollowup(a, b) PROVE FALSE
    BY <2>7 DEF DirectFollowup, TypeOK
  <2>8. ASSUME AutoRaises(a) \/ ResumeBegin(a) PROVE FALSE
    BY <2>2, <2>3, <2>8 DEF AutoRaises, ResumeBegin
  <2>9. ASSUME NEW settled, Evaluated(a, settled) PROVE FALSE
    BY <2>1, <2>3, <2>9 DEF Evaluated
  <2> QED
    BY <1>1, <1>3, <1>7, <2>4, <2>5, <2>6, <2>7, <2>8, <2>9
       DEF Job, Deliver, DirectRaises, EvaluationRaises, Drivers
<1>8. ASSUME NEW a \in Approvals, NEW decision, Decide(a, decision) PROVE FALSE
  BY <1>8 DEF Decide, TypeOK
<1>9. ASSUME NEW t, Execution(t) PROVE FALSE
  BY <1>9 DEF Execution, RemoteReturns, RemoteAsksApproval, TypeOK
<1>10. ASSUME Crash PROVE FALSE
  BY <1>10 DEF Crash
<1>11. ASSUME NEW q \in Runs, Cancel(q) \/ ProducerAborts(q) PROVE driver'[r] = "ended"
  BY <1>1, <1>4, <1>11 DEF Cancel, ProducerAborts
<1>12. ASSUME UNCHANGED vars PROVE FALSE
  BY <1>12 DEF vars
<1> QED
  BY <1>5, <1>6, <1>7, <1>8, <1>9, <1>10, <1>11, <1>12 DEF Next, Request

\* The approval that makes a message supersede a direct Run has stopped its stream.
LEMMA CancelledHasNoStreamNext ==
  ASSUME TypeOK, ResumesAfterProducer, StreamInv, [Next]_vars
  PROVE  CancelledHasNoStream'
<1> SUFFICES ASSUME NEW r \in Runs, status'[r] = "cancelled", Mode[r] = "direct",
                    driver'[r] \notin {"idle", "ended"}, exec'[Root[r]] = "running"
             PROVE  FALSE
  BY DEF CancelledHasNoStream, Active
<1>1. Root[r] \in Tasks /\ \A q \in Runs : RunOf[Root[q]] = q
  BY ConstantsOK
<1>2. ~StartRun(r)
  BY DEF StartRun
<1>3. exec[Root[r]] = "running"
  <2>1. ASSUME NEW q \in Runs, StartRun(q), Root[r] = Root[q] PROVE FALSE
    BY <1>1, <1>2, <2>1
  <2>2. ASSUME NEW d \in Drivers, NEW S \in SUBSET Delegable(DriverRun(d)),
               HostLoop(d), Root[r] \in S
        PROVE  FALSE
    <3>1. DriverRun(d) = r
      BY <1>1, <2>2, DriverRunType DEF Delegable
    <3> QED BY <2>2, <3>1, HostLoopAuto DEF StreamInv
  <2> QED BY <1>1, <2>1, <2>2, ExecutionStarts
<1>4. Active(r)
  BY <1>2, ProducerStartsOnce DEF Active
<1>5. status[r] # "cancelled"
  BY <1>3, <1>4 DEF StreamInv, CancelledHasNoStream
<1>6. PICK a \in Approvals : approval[a] = "pending" /\ ApRun(a) = r
  BY <1>5, CancelledBy DEF HasPending
<1>7. TaskOf[a] = Root[r]
  BY <1>6, ConstantsOK DEF Delegable, ApRun
<1> QED BY <1>3, <1>6, <1>7 DEF StreamInv, AskedByAgent

\* The invariant of this section.
LEMMA StreamInvariant == Spec => [](LoopInv /\ StreamInv)
<1>1. Init => LoopInv /\ StreamInv
  <2>1. Init => LoopInv
    BY ConstantsOK
       DEF Init, LoopInv, PausedAfterProducer, ResumesAfterProducer, OneResume,
           RoundsOfOwnRun, ResumeStates, Drivers
  <2>2. Init => StreamInv
    BY ConstantsOK
       DEF Init, StreamInv, DirectNeverDecides, AskedByAgent, CancelledHasNoStream, Drivers
  <2> QED BY <2>1, <2>2
<1>2. TypeOK /\ LoopInv /\ StreamInv /\ [Next]_vars => LoopInv' /\ StreamInv'
  BY LoopInvNext, DirectNeverDecidesNext, AskedByAgentNext, CancelledHasNoStreamNext
     DEF LoopInv, StreamInv
<1> QED BY <1>1, <1>2, TypeCorrect, PTL DEF Spec

\* A producer that finds its Run cancelled under it ends, and writes no event, task,
\* round or execution on its way out.
THEOREM CancelledProducersAreInert == Spec => CancelledProducerIsInert
<1> DEFINE Inert(r) ==
      (status[r] = "cancelled" /\ Active(r) /\ driver'[r] # driver[r])
        => /\ driver'[r] = "ended"
           /\ UNCHANGED <<outcome, evaluated, round, exec>> \/ crashes' # crashes
<1>1. TypeOK /\ StreamInv /\ [Next]_vars => [\A r \in Runs : Inert(r)]_vars
  <2> SUFFICES ASSUME TypeOK, StreamInv, [Next]_vars, NEW r \in Runs,
                      status[r] = "cancelled", Active(r), driver'[r] # driver[r]
               PROVE  /\ driver'[r] = "ended"
                      /\ UNCHANGED <<outcome, evaluated, round, exec>> \/ crashes' # crashes
    OBVIOUS
  <2>0. r \in Drivers /\ ~MayWrite(r)
    BY DEF Drivers, MayWrite
  <2>1. ~StartRun(r) /\ ~Cancel(r)
    BY DEF StartRun, Active, Cancel, Cancellable, Terminal
  <2>2. ~HostLoop(r) /\ \A how : ~DirectEnds(r, how)
    BY <2>0 DEF HostLoop, HostDelegates, HostStops, RoundEnds, DirectEnds
  <2>3. CASE ProducerNoticesCancel(r)
    BY <2>0, <2>3 DEF ProducerNoticesCancel, TypeOK
  <2>4. CASE ProducerAborts(r)
    <3>1. exec' = exec
      BY <2>4 DEF ProducerAborts, EndProducer, StreamInv, CancelledHasNoStream
    <3> QED BY <2>0, <2>4, <3>1 DEF ProducerAborts, EndProducer, TypeOK
  <2>5. CASE Crash
    BY <2>0, <2>5 DEF Crash, TypeOK
  <2> QED BY <2>1, <2>2, <2>3, <2>4, <2>5, ProducerMoves
<1> QED BY <1>1, TypeCorrect, StreamInvariant, PTL DEF Spec, CancelledProducerIsInert

-----------------------------------------------------------------------------
(***************************************************************************)
(* What a step does to the jobs.                                           *)
(***************************************************************************)

\* The decision reaches the agent.
Delivers(a) ==
  /\ driver[a] = "claimed"
  /\ driver' = [driver EXCEPT ![a] = "executing"]
  /\ executed' = [executed EXCEPT ![a] = @ + 1]
  /\ UNCHANGED <<result, paused>>

\* The job has an answer and waits for the lock of its Run.
Waits(a, res) ==
  /\ driver[a] \in {"claimed", "executing"}
  /\ driver[a] = "claimed" => res = "failed"
  /\ driver' = [driver EXCEPT ![a] = "returned"]
  /\ result' = [result EXCEPT ![a] = res]
  /\ UNCHANGED <<executed, paused>>

\* The result of the write is graded.
Grades(a, t) ==
  /\ driver[a] = "executing" \/ (driver[a] = "returned" /\ result[a] = "completed")
  /\ approval[a] = "approved"
  /\ IsPaused(a, t)
  /\ driver' = [driver EXCEPT ![a] = "evaluating"]
  /\ paused' = [paused EXCEPT ![a] = t]
  /\ executed' = executed
  /\ \A b \in Approvals \ {a} : result'[b] = result[b]

\* The job is through with its decision.
Leaves(a) ==
  /\ \E v \in {"deciding", "delegating", "ended"} : driver' = [driver EXCEPT ![a] = v]
  /\ executed' = executed
  /\ \A b \in Approvals \ {a} : result'[b] = result[b] /\ paused'[b] = paused[b]

\* The start of a resume grades the result or is through with the decision; one
\* that finds a follow-up is through.
LEMMA ResumeMoves ==
  ASSUME TypeOK, NEW a \in Approvals, NEW stat, NEW res, Resume(a, stat, res),
         executed' = executed, \A b \in Approvals \ {a} : result'[b] = result[b],
         \/ driver[a] = "executing"
         \/ driver[a] = "claimed" /\ res = "failed"
         \/ driver[a] = "returned" /\ res = result[a]
  PROVE  \/ Leaves(a)
         \/ res # "followup" /\ \E t \in Tasks : Grades(a, t)
<1>1. ASSUME NothingToResume(a, stat, res) PROVE Leaves(a)
  BY <1>1 DEF NothingToResume, Leaves
<1>2. ASSUME NEW t, RecordFollowup(a, t, stat) PROVE Leaves(a)
  BY <1>2 DEF RecordFollowup, Leaves
<1>3. ASSUME NEW t, NEW settled, Settle(a, t, stat, settled) PROVE Leaves(a)
  BY <1>3 DEF Settle, Leaves, TypeOK
<1>4. ASSUME NEW t \in Tasks, IsPaused(a, t), res = "completed", approval[a] = "approved",
             Evaluate(a, t, stat)
      PROVE  Grades(a, t)
  BY <1>4 DEF Evaluate, Grades
<1> QED BY <1>1, <1>2, <1>3, <1>4 DEF Resume

\* The same when the job first waits for the lock.
LEMMA ResumeOrWaitMoves ==
  ASSUME TypeOK, NEW a \in Approvals, NEW stat, NEW res \in Results,
         ResumeOrWait(a, stat, res), executed' = executed,
         driver[a] = "executing" \/ (driver[a] = "claimed" /\ res = "failed")
  PROVE  \/ Leaves(a) \/ Waits(a, res)
         \/ res # "followup" /\ \E t \in Tasks : Grades(a, t)
<1>1. CASE LockFree(a)
  BY <1>1, ResumeMoves DEF ResumeOrWait
<1>2. CASE ~LockFree(a)
  BY <1>2 DEF ResumeOrWait, Waits
<1> QED BY <1>1, <1>2

\* What a job does: one of these, and at most one new approval, raised where the
\* decision before it in the batch has been delivered.
LEMMA JobMoves ==
  ASSUME TypeOK, NEW a \in Approvals, Job(a)
  PROVE  \/ /\ approval' = approval
            /\ \/ Delivers(a) \/ Leaves(a)
               \/ \E res \in Results \ {"followup"} : Waits(a, res)
               \/ \E t \in Tasks : Grades(a, t)
         \/ /\ \E b \in Approvals : AutoFollowup(a, b) \/ DirectFollowup(a, b)
            /\ driver[a] = "executing"
            /\ Leaves(a) \/ Waits(a, "followup")
<1>1. CASE Deliver(a)
  BY <1>1 DEF Deliver, Delivers
<1>2. ASSUME NEW res \in {"completed", "failed", "other"}, AutoReturn(a, res)
      PROVE  /\ approval' = approval
             /\ Leaves(a) \/ Waits(a, res) \/ \E t \in Tasks : Grades(a, t)
  BY <1>2, ResumeOrWaitMoves DEF AutoReturn, Results
<1>3. ASSUME NEW b \in Approvals, AutoFollowup(a, b)
      PROVE  driver[a] = "executing" /\ (Leaves(a) \/ Waits(a, "followup"))
  BY <1>3, ResumeOrWaitMoves DEF AutoFollowup, Results
<1>4. ASSUME AutoRaises(a)
      PROVE  /\ approval' = approval
             /\ Leaves(a) \/ Waits(a, "failed") \/ \E t \in Tasks : Grades(a, t)
  <2>1. "failed" \in Results /\ ResumeOrWait(a, status, "failed") /\ executed' = executed
        /\ approval' = approval
    BY <1>4 DEF AutoRaises, Results
  <2>2. driver[a] = "executing" \/ driver[a] = "claimed"
    BY <1>4 DEF AutoRaises
  <2> QED BY <2>1, <2>2, ResumeOrWaitMoves
<1>5. ASSUME ResumeBegin(a)
      PROVE  approval' = approval /\ (Leaves(a) \/ \E t \in Tasks : Grades(a, t))
  <2>1. \A b \in Approvals \ {a} : result'[b] = result[b]
    BY <1>5 DEF ResumeBegin, TypeOK
  <2> QED BY <1>5, <2>1, ResumeMoves DEF ResumeBegin
<1>6. ASSUME NEW settled, Evaluated(a, settled) PROVE approval' = approval /\ Leaves(a)
  BY <1>6 DEF Evaluated, Settle, Leaves, TypeOK
<1>7. ASSUME NEW res, DirectReturn(a, res) PROVE approval' = approval /\ Leaves(a)
  BY <1>7 DEF DirectReturn, Leaves
<1>8. ASSUME NEW b \in Approvals, DirectFollowup(a, b)
      PROVE  driver[a] = "executing" /\ Leaves(a)
  BY <1>8 DEF DirectFollowup, Leaves
<1>9. ASSUME DirectRaises(a) \/ EvaluationRaises(a) PROVE approval' = approval /\ Leaves(a)
  BY <1>9 DEF DirectRaises, EvaluationRaises, Leaves
<1>10. ASSUME HostLoop(a) PROVE approval' = approval /\ Leaves(a)
  BY <1>10, HostLoopDriver DEF Leaves, Drivers
<1>11. \A res \in {"completed", "failed", "other"} : res \in Results \ {"followup"}
  BY DEF Results
<1> QED
  BY <1>1, <1>2, <1>3, <1>4, <1>5, <1>6, <1>7, <1>8, <1>9, <1>10, <1>11 DEF Job

\* A job leaves the other jobs alone.
LEMMA JobLeavesOthers ==
  ASSUME TypeOK, NEW a \in Approvals, NEW b \in Approvals, Job(b), b # a
  PROVE  /\ driver'[a] = driver[a] /\ executed'[a] = executed[a]
         /\ result'[a] = result[a] /\ paused'[a] = paused[a]
<1>1. CASE Delivers(b)
  BY <1>1 DEF Delivers, Drivers, TypeOK
<1>2. ASSUME NEW res, Waits(b, res)
      PROVE  /\ driver'[a] = driver[a] /\ executed'[a] = executed[a]
             /\ result'[a] = result[a] /\ paused'[a] = paused[a]
  BY <1>2 DEF Waits, Drivers, TypeOK
<1>3. ASSUME NEW t, Grades(b, t)
      PROVE  /\ driver'[a] = driver[a] /\ executed'[a] = executed[a]
             /\ result'[a] = result[a] /\ paused'[a] = paused[a]
  BY <1>3 DEF Grades, Drivers, TypeOK
<1>4. CASE Leaves(b)
  BY <1>4 DEF Leaves, Drivers, TypeOK
<1> QED BY <1>1, <1>2, <1>3, <1>4, JobMoves

\* What any other step does to a job: nothing, its start or its end.
LEMMA JobsElsewhere ==
  ASSUME TypeOK, [Next]_vars, \A b \in Approvals : ~Job(b), NEW a \in Approvals
  PROVE  /\ executed' = executed
         /\ \/ driver'[a] = driver[a] /\ result'[a] = result[a] /\ paused'[a] = paused[a]
            \/ approval[a] = "pending" /\ driver'[a] = "claimed"
            \/ driver'[a] \in {"idle", "ended"}
<1> DEFINE Goal ==
      /\ executed' = executed
      /\ \/ driver'[a] = driver[a] /\ result'[a] = result[a] /\ paused'[a] = paused[a]
         \/ approval[a] = "pending" /\ driver'[a] = "claimed"
         \/ driver'[a] \in {"idle", "ended"}
<1>0. a \in Drivers /\ Runs \subseteq Drivers /\ a \notin Runs
  BY ConstantsOK DEF Drivers
<1>1. ASSUME driver'[a] = driver[a], UNCHANGED <<executed, result, paused>> PROVE Goal
  BY <1>1
<1> HIDE DEF Goal
<1>2. ASSUME NEW r \in Runs, StartRun(r) PROVE Goal
  BY <1>0, <1>1, <1>2 DEF StartRun, TypeOK
<1>3. ASSUME NEW r \in Runs, Cancel(r) \/ ProducerAborts(r) PROVE Goal
  BY <1>0, <1>1, <1>3 DEF Cancel, ProducerAborts, EndProducer, TypeOK
<1>4. ASSUME NEW b \in Approvals, NEW decision, Decide(b, decision) PROVE Goal
  <2>1. b # a => driver'[a] = driver[a]
    BY <1>0, <1>4 DEF Decide, TypeOK
  <2>2. b = a => approval[a] = "pending" /\ driver'[a] = "claimed"
    BY <1>0, <1>4 DEF Decide, Claimable, TypeOK
  <2> QED BY <1>1, <1>4, <2>1, <2>2 DEF Decide, Goal
<1>5. ASSUME NEW r \in Runs, Producer(r) PROVE Goal
  <2>1. driver'[a] = driver[a]
    BY <1>5, ProducerDecisions
  <2>2. HostLoop(r) => UNCHANGED <<executed, result, paused>>
    BY <1>0, HostLoopDriver
  <2> QED BY <1>1, <1>5, <2>1, <2>2 DEF Producer, ProducerNoticesCancel, DirectAsks, DirectEnds
<1>6. ASSUME NEW t \in Tasks, Execution(t) PROVE Goal
  BY <1>1, <1>6 DEF Execution, RemoteReturns, RemoteAsksApproval
<1>7. ASSUME Crash PROVE Goal
  BY <1>0, <1>7 DEF Crash, Active, Goal
<1>8. ASSUME UNCHANGED vars PROVE Goal
  BY <1>1, <1>8 DEF vars
<1>9. Goal
  BY <1>2, <1>3, <1>4, <1>5, <1>6, <1>7, <1>8 DEF Next, Request
<1> QED BY <1>9 DEF Goal

-----------------------------------------------------------------------------
(***************************************************************************)
(* A write is completed by the answer to its own decisions.                *)
(*                                                                         *)
(* Several approvals may follow each other on one task. The argument is    *)
(* that at most one of them is still awaited: not decided, or decided and  *)
(* without an answer that ends the batch. All others on the task have been *)
(* approved and delivered before it was raised, so that when the answer to *)
(* the awaited one completes the task, all of them were. A resume looks    *)
(* for its task by agent: this is where the agent must be the task's own.  *)
(***************************************************************************)
OwnAgent(a) ==
  \A u \in Delegable(ApRun(a)) : AgentOf[u] = AgentOf[TaskOf[a]] => u = TaskOf[a]

Awaited(a) ==
  \/ approval[a] = "pending"
  \/ driver[a] \in {"claimed", "executing", "evaluating"}
  \/ driver[a] = "returned" /\ result[a] # "followup"

Passed(a) == approval[a] = "approved" /\ executed[a] = 1 /\ ~Awaited(a)

AnswerFollowsDelivery ==
  \A a \in Approvals :
    /\ driver[a] \in {"executing", "evaluating"} => executed[a] = 1
    /\ driver[a] = "returned" /\ result[a] # "failed" => executed[a] = 1
    /\ driver[a] = "evaluating" =>
         /\ approval[a] = "approved"
         /\ paused[a] \in Children(ApRun(a))
         /\ AgentOf[paused[a]] = AgentOf[TaskOf[a]]

OneAwaited ==
  \A a, b \in Approvals :
    Awaited(a) /\ b # a /\ TaskOf[b] = TaskOf[a] /\ approval[b] # "unused" => Passed(b)

OpenUntilAnswered ==
  \A a \in Approvals : OwnAgent(a) =>
    /\ exec[TaskOf[a]] = "running" => task[TaskOf[a]] # "completed"
    /\ Awaited(a) => task[TaskOf[a]] # "completed"
    /\ approval[a] # "unused" /\ task[TaskOf[a]] = "completed"
         => approval[a] = "approved" /\ executed[a] = 1

WriteInv == AnswerFollowsDelivery /\ OneAwaited /\ OpenUntilAnswered

\* An answer is never ahead of the delivery.
LEMMA AnswerFollowsDeliveryNext ==
  ASSUME TypeOK, DecisionInv, AnswerFollowsDelivery, [Next]_vars
  PROVE  AnswerFollowsDelivery'
<1> SUFFICES ASSUME NEW a \in Approvals
             PROVE  /\ driver'[a] \in {"executing", "evaluating"} => executed'[a] = 1
                    /\ driver'[a] = "returned" /\ result'[a] # "failed" => executed'[a] = 1
                    /\ driver'[a] = "evaluating" =>
                         /\ approval'[a] = "approved"
                         /\ paused'[a] \in Children(ApRun(a))
                         /\ AgentOf[paused'[a]] = AgentOf[TaskOf[a]]
  BY DEF AnswerFollowsDelivery, Children, ApRun
<1>0. a \in Drivers /\ Approvals \subseteq Drivers
  BY DEF Drivers
<1>1. approval[a] = "approved" => approval'[a] = "approved"
  BY DecisionKept
<1>2. ASSUME driver'[a] = driver[a], executed'[a] = executed[a], result'[a] = result[a],
             paused'[a] = paused[a]
      PROVE  /\ driver'[a] \in {"executing", "evaluating"} => executed'[a] = 1
             /\ driver'[a] = "returned" /\ result'[a] # "failed" => executed'[a] = 1
             /\ driver'[a] = "evaluating" =>
                  /\ approval'[a] = "approved"
                  /\ paused'[a] \in Children(ApRun(a))
                  /\ AgentOf[paused'[a]] = AgentOf[TaskOf[a]]
  BY <1>1, <1>2 DEF AnswerFollowsDelivery
<1>3. CASE \A b \in Approvals : ~Job(b)
  BY <1>2, <1>3, JobsElsewhere
<1>4. ASSUME NEW b \in Approvals, Job(b), b # a
      PROVE  /\ driver'[a] = driver[a] /\ executed'[a] = executed[a]
             /\ result'[a] = result[a] /\ paused'[a] = paused[a]
  BY <1>4, JobLeavesOthers
<1>5. CASE Delivers(a)
  BY <1>0, <1>5 DEF Delivers, DecisionInv, TypeOK
<1>6. ASSUME NEW res, Waits(a, res)
      PROVE  /\ driver'[a] = "returned"
             /\ result'[a] # "failed" => executed'[a] = 1
  BY <1>0, <1>6 DEF Waits, AnswerFollowsDelivery, TypeOK
<1>7. ASSUME NEW t \in Tasks, Grades(a, t)
      PROVE  /\ driver'[a] = "evaluating" /\ executed'[a] = 1 /\ approval'[a] = "approved"
             /\ paused'[a] \in Children(ApRun(a))
             /\ AgentOf[paused'[a]] = AgentOf[TaskOf[a]]
  <2>1. /\ driver'[a] = "evaluating" /\ executed'[a] = 1 /\ approval'[a] = "approved"
        /\ paused'[a] = t
    BY <1>0, <1>1, <1>7 DEF Grades, AnswerFollowsDelivery, TypeOK
  <2>2. t \in Children(ApRun(a)) /\ AgentOf[t] = AgentOf[TaskOf[a]]
    BY <1>7 DEF Grades, IsPaused
  <2> QED BY <2>1, <2>2
<1>8. CASE Leaves(a)
  BY <1>0, <1>8 DEF Leaves, TypeOK
<1>9. CASE Job(a)
  BY <1>5, <1>6, <1>7, <1>8, <1>9, JobMoves
<1> QED BY <1>2, <1>3, <1>4, <1>9

\* An approval becomes awaited only when it is raised.
LEMMA AwaitedNext ==
  ASSUME TypeOK, [Next]_vars, NEW a \in Approvals, Awaited(a)', ~Awaited(a)
  PROVE  approval[a] = "unused" /\ approval'[a] # "unused"
<1>0. a \in Drivers /\ Approvals \subseteq Drivers
  BY DEF Drivers
<1>1. ASSUME driver'[a] \in {"claimed", "executing", "evaluating"} \/
             (driver'[a] = "returned" /\ result'[a] # "followup")
      PROVE  FALSE
  <2>1. CASE \A b \in Approvals : ~Job(b)
    BY <1>1, <2>1, JobsElsewhere DEF Awaited
  <2>2. ASSUME NEW b \in Approvals, Job(b), b # a
        PROVE  driver'[a] = driver[a] /\ result'[a] = result[a]
    BY <2>2, JobLeavesOthers
  <2>3. CASE Job(a)
    <3>1. driver[a] \notin {"claimed", "executing", "evaluating"}
          /\ ~(driver[a] = "returned" /\ result[a] # "followup")
      BY DEF Awaited
    <3>2. ~Delivers(a) /\ \A res : ~Waits(a, res)
      BY <3>1 DEF Delivers, Waits
    <3>3. \A t : ~Grades(a, t)
      BY <3>1 DEF Grades
    <3>4. ~Leaves(a)
      BY <1>0, <1>1 DEF Leaves, TypeOK
    <3> QED BY <2>3, <3>2, <3>3, <3>4, JobMoves
  <2> QED BY <1>1, <2>1, <2>2, <2>3 DEF Awaited
<1>2. approval'[a] = "pending" /\ approval[a] # "pending"
  BY <1>1 DEF Awaited
<1>3. approval[a] = "unused"
  BY <1>2, DecisionKept DEF TypeOK, ApprovalStatus
<1> QED BY <1>2, <1>3

\* What has passed stays passed.
LEMMA PassedNext ==
  ASSUME TypeOK, DecisionInv, [Next]_vars, NEW a \in Approvals
  PROVE  /\ Passed(a) => Passed(a)'
         /\ executed[a] = 1 => executed'[a] = 1
<1>0. Approvals \subseteq Drivers
  BY DEF Drivers
<1>1. ASSUME executed[a] = 1 PROVE executed'[a] = 1
  <2>1. CASE \A b \in Approvals : ~Job(b)
    BY <1>1, <2>1, JobsElsewhere
  <2>2. ASSUME NEW b \in Approvals, Job(b) PROVE executed'[a] = 1
    BY <1>0, <1>1, <2>2, JobMoves DEF Delivers, Waits, Grades, Leaves, DecisionInv, TypeOK
  <2> QED BY <2>1, <2>2
<1> QED BY <1>1, AwaitedNext, DecisionKept DEF Passed

\* A decision that a follow-up comes after has passed: approved, delivered, and its
\* job no longer awaited.
LEMMA FollowupPasses ==
  ASSUME TypeOK, AnswerFollowsDelivery, [Next]_vars, NEW a \in Approvals, NEW b \in Approvals,
         AutoFollowup(b, a) \/ DirectFollowup(b, a), approval[b] = "approved",
         driver[b] = "executing"
  PROVE  Awaited(b) /\ Passed(b)'
<1>0. b \in Drivers
  BY DEF Drivers
<1>1. Awaited(b)
  BY DEF Awaited
<1>2. approval'[b] = "approved"
  BY DecisionKept
<1>3. executed'[b] = 1
  BY DEF AutoFollowup, DirectFollowup, AnswerFollowsDelivery
<1>4. Leaves(b) \/ Waits(b, "followup")
  <2>1. CASE AutoFollowup(b, a)
    BY <2>1, ResumeOrWaitMoves DEF AutoFollowup, Results
  <2>2. CASE DirectFollowup(b, a)
    BY <2>2 DEF DirectFollowup, Leaves
  <2> QED BY <2>1, <2>2
<1>5. ~Awaited(b)'
  BY <1>0, <1>2, <1>4 DEF Leaves, Waits, Awaited, TypeOK
<1> QED BY <1>1, <1>2, <1>3, <1>5 DEF Passed

\* At most one approval of a task is awaited.
LEMMA OneAwaitedNext ==
  ASSUME TypeOK, DecisionInv, AskedByAgent, WriteInv, [Next]_vars
  PROVE  OneAwaited'
<1> SUFFICES ASSUME NEW a \in Approvals, NEW b \in Approvals, Awaited(a)', b # a,
                    TaskOf[b] = TaskOf[a], approval'[b] # "unused"
             PROVE  Passed(b)'
  BY DEF OneAwaited
<1>1. ASSUME NEW c \in Approvals, Awaited(c) PROVE approval[c] # "unused"
  BY <1>1 DEF Awaited, DecisionInv
<1>2. ASSUME NEW c \in Approvals, NEW d \in Approvals, Awaited(c), d # c,
             TaskOf[d] = TaskOf[c], approval[d] # "unused"
      PROVE  Passed(d)
  BY <1>2 DEF WriteInv, OneAwaited
<1>3. CASE Awaited(a) /\ approval[b] # "unused"
  BY <1>2, <1>3, PassedNext
<1>4. CASE Awaited(a) /\ approval[b] = "unused"
  <2>1. exec[TaskOf[b]] # "running"
    BY <1>1, <1>4 DEF AskedByAgent
  <2>2. PICK c \in Approvals :
          /\ AutoFollowup(c, b) \/ DirectFollowup(c, b)
          /\ TaskOf[c] = TaskOf[b]
          /\ approval[c] = "approved"
          /\ driver[c] = "executing"
    BY <1>4, <2>1, ApprovalRaised
  <2>3. Awaited(c) /\ Passed(c)'
    BY <2>2, FollowupPasses DEF WriteInv
  <2>4. c # a
    BY <2>3 DEF Passed
  <2>5. ~Awaited(a)
    BY <1>1, <1>2, <1>4, <2>2, <2>3, <2>4 DEF Passed
  <2> QED BY <1>4, <2>5
<1>5. CASE ~Awaited(a)
  <2>1. /\ approval[a] = "unused" /\ approval'[a] # "unused"
    BY <1>5, AwaitedNext
  <2>2. approval[b] = approval'[b]
    BY <2>1, ApprovalRaised
  <2>3. exec[TaskOf[a]] # "running"
    BY <2>2 DEF AskedByAgent
  <2>4. PICK c \in Approvals :
          /\ AutoFollowup(c, a) \/ DirectFollowup(c, a)
          /\ TaskOf[c] = TaskOf[a]
          /\ approval[c] = "approved"
          /\ driver[c] = "executing"
    BY <2>1, <2>3, ApprovalRaised
  <2>5. Awaited(c) /\ Passed(c)'
    BY <2>4, FollowupPasses DEF WriteInv
  <2>6. b # c => Passed(b)'
    BY <1>2, <2>2, <2>4, <2>5, PassedNext
  <2> QED BY <2>5, <2>6
<1> QED BY <1>3, <1>4, <1>5

\* Who can have completed the task u: its own answer, or a round or a direct stream
\* in which it asked for no approval.
Answered(u) ==
  \E b \in Approvals :
    /\ TaskOf[b] = u
    /\ Awaited(b) /\ ~Awaited(b)'
    /\ approval[b] = "approved" /\ executed[b] = 1
    /\ approval' = approval /\ executed' = executed /\ exec' = exec

Unasked(u) ==
  /\ exec'[u] # "running"
  /\ \A b \in Approvals : TaskOf[b] = u => approval'[b] = "unused"

\* The resume of b finds the task of a only when both are about that task.
LEMMA OwnTask ==
  ASSUME NEW a \in Approvals, OwnAgent(a), NEW b \in Approvals,
         NEW u \in Children(ApRun(b)), AgentOf[u] = AgentOf[TaskOf[b]], u = TaskOf[a]
  PROVE  TaskOf[b] = TaskOf[a]
<1>1. ApRun(a) = ApRun(b)
  BY DEF Children, ApRun
<1>2. TaskOf[b] \in Delegable(ApRun(a))
  BY <1>1, ConstantsOK DEF ApRun
<1> QED BY <1>2 DEF OwnAgent

\* A task with an approval is no root of an auto Run.
LEMMA AskingTask ==
  ASSUME NEW a \in Approvals
  PROVE  /\ TaskOf[a] \in Tasks /\ ApRun(a) \in Runs /\ RunOf[TaskOf[a]] = ApRun(a)
         /\ Mode[ApRun(a)] = "direct" => TaskOf[a] = Root[ApRun(a)]
         /\ \A r \in Runs : TaskOf[a] = Root[r] => r = ApRun(a) /\ Mode[r] = "direct"
<1>1. TaskOf[a] \in Tasks /\ ApRun(a) \in Runs /\ TaskOf[a] \in Delegable(ApRun(a))
  BY ConstantsOK DEF ApRun
<1>2. ASSUME NEW r \in Runs, TaskOf[a] = Root[r] PROVE r = ApRun(a)
  BY <1>2, ConstantsOK DEF ApRun
<1>3. Mode[ApRun(a)] = "auto" => TaskOf[a] # Root[ApRun(a)]
  BY <1>1 DEF Delegable
<1>4. Mode[ApRun(a)] \in {"auto", "direct"}
  BY <1>1, ConstantsOK
<1> QED BY <1>1, <1>2, <1>3, <1>4 DEF Delegable, ApRun

\* A step of a Host loop completes tasks that asked for nothing.
LEMMA HostLoopCompletes ==
  ASSUME TypeOK, ResumesAfterProducer, DirectNeverDecides, AskedByAgent,
         NEW a \in Approvals, NEW d \in Drivers, HostLoop(d),
         task'[TaskOf[a]] = "completed", task[TaskOf[a]] # "completed"
  PROVE  Unasked(TaskOf[a])
<1> DEFINE t == TaskOf[a]
           r == DriverRun(d)
<1>1. t \in Tasks /\ r \in Runs /\ Root[r] \in Tasks /\ t # Root[r]
  BY AskingTask, DriverRunType, HostLoopAuto
<1>2. ASSUME NEW S, HostDelegates(d, S) PROVE FALSE
  BY <1>1, <1>2 DEF HostDelegates, WithTasks
<1>3. ASSUME NEW how, NEW tasks \in [Tasks -> TaskStatus], NEW evals, NEW hasFailed,
             Finish(d, how, tasks, evals, hasFailed)
      PROVE  task'[t] = tasks[t]
  BY <1>1, <1>3 DEF Finish
<1>4. ASSUME NEW how, HostStops(d, how) PROVE FALSE
  BY <1>3, <1>4 DEF HostStops, TypeOK
<1>5. RoundEnds(d)
  BY <1>2, <1>4 DEF HostLoop
<1> DEFINE S == round[d]
           observed == [u \in Tasks |->
             IF u \notin S THEN task[u]
             ELSE IF exec[u] = "approval" THEN "approval_required"
             ELSE IF exec[u] = "failed" THEN "failed" ELSE "completed"]
           hasFailed == d \in failed \/ \E u \in S : exec[u] = "failed"
<1>6. /\ Gathered(d) /\ approval' = approval /\ exec' = exec
      /\ \/ Finish(d, "awaiting", observed, evaluated \cup S, hasFailed)
         \/ task' = [observed EXCEPT ![Root[r]] = "working"]
  BY <1>5 DEF RoundEnds
<1>7. observed \in [Tasks -> TaskStatus]
  BY DEF TypeOK, TaskStatus
<1>8. observed[t] = "completed" =>
        t \in S /\ exec[t] \notin {"approval", "failed"}
  BY <1>1
<1> HIDE DEF observed, hasFailed
<1>9. task'[t] = observed[t]
  BY <1>1, <1>3, <1>6, <1>7
<1>10. t \in S /\ exec[t] \notin {"approval", "failed", "running"}
  BY <1>6, <1>8, <1>9 DEF Gathered
<1> QED BY <1>6, <1>10 DEF AskedByAgent, Unasked

\* The start of a resume completes the task whose write was delivered.
LEMMA ResumeCompletes ==
  ASSUME TypeOK, NEW a \in Approvals, NEW b \in Approvals, NEW stat, NEW res,
         Resume(b, stat, res), Mode[ApRun(b)] = "auto",
         task'[TaskOf[a]] = "completed", task[TaskOf[a]] # "completed"
  PROVE  /\ IsPaused(b, TaskOf[a])
         /\ res = "completed" /\ approval[b] = "approved"
         /\ driver' = [driver EXCEPT ![b] = "deciding"]
<1>1. ASSUME NEW u, NEW settled, Settle(b, u, stat, settled)
      PROVE  /\ u = TaskOf[a] /\ settled = "completed"
             /\ driver' = [driver EXCEPT ![b] = "deciding"]
  <2>1. task' = [task EXCEPT ![u] = settled, ![Root[ApRun(b)]] = "working"]
    BY <1>1 DEF Settle
  <2>2. u = TaskOf[a] /\ settled = "completed"
    BY <2>1, AskingTask DEF TypeOK
  <2> QED BY <1>1, <2>2 DEF Settle
<1>2. ASSUME NEW u, RecordFollowup(b, u, stat) PROVE FALSE
  BY <1>2, AskingTask DEF RecordFollowup, TypeOK
<1> QED BY <1>1, <1>2 DEF Resume, NothingToResume, Evaluate

\* A job that is through after an answer is no longer awaited.
LEMMA AnsweredBy ==
  ASSUME TypeOK, AnswerFollowsDelivery, NEW b \in Approvals, approval[b] = "approved",
         \/ driver[b] \in {"executing", "evaluating"}
         \/ driver[b] = "returned" /\ result[b] = "completed",
         NEW v \in {"deciding", "ended"}, driver' = [driver EXCEPT ![b] = v],
         UNCHANGED <<approval, executed, exec>>
  PROVE  Answered(TaskOf[b])
<1>1. Awaited(b)
  BY DEF Awaited
<1>2. executed[b] = 1
  BY DEF AnswerFollowsDelivery
<1>3. ~Awaited(b)'
  BY DEF Awaited, Drivers, TypeOK
<1> QED BY <1>1, <1>2, <1>3 DEF Answered

\* A job completes the task of its own decision, once that was delivered.
LEMMA JobCompletes ==
  ASSUME TypeOK, LoopInv, DirectNeverDecides, AskedByAgent, AnswerFollowsDelivery,
         NEW a \in Approvals, OwnAgent(a), NEW b \in Approvals, Job(b),
         task'[TaskOf[a]] = "completed", task[TaskOf[a]] # "completed"
  PROVE  Answered(TaskOf[a]) \/ Unasked(TaskOf[a])
<1> DEFINE t == TaskOf[a]
<1>0. t \in Tasks /\ Mode[ApRun(b)] \in {"auto", "direct"} /\ b \in Drivers
  BY AskingTask, ConstantsOK DEF Drivers
<1>1. ASSUME IsPaused(b, t) PROVE TaskOf[b] = t
  BY <1>1, OwnTask DEF IsPaused
<1>2. ASSUME NEW stat, NEW res, Resume(b, stat, res), Mode[ApRun(b)] = "auto",
             \/ driver[b] = "executing"
             \/ driver[b] = "claimed" /\ res = "failed"
             \/ driver[b] = "returned" /\ res = result[b],
             UNCHANGED <<approval, executed, exec>>
      PROVE  Answered(t)
  <2>1. /\ IsPaused(b, t)
        /\ res = "completed" /\ approval[b] = "approved"
        /\ driver' = [driver EXCEPT ![b] = "deciding"]
    BY <1>2, ResumeCompletes
  <2>2. TaskOf[b] = t
    BY <1>1, <2>1
  <2>3. Answered(TaskOf[b])
    BY <1>2, <2>1, AnsweredBy
  <2> QED BY <2>2, <2>3
<1>3. ASSUME NEW stat, NEW res, ResumeOrWait(b, stat, res), Mode[ApRun(b)] = "auto",
             driver[b] = "executing" \/ (driver[b] = "claimed" /\ res = "failed"),
             UNCHANGED <<approval, executed, exec>>
      PROVE  Answered(t)
  <2>1. Resume(b, stat, res)
    BY <1>3 DEF ResumeOrWait
  <2> QED BY <1>2, <1>3, <2>1
<1>4. ASSUME NEW res, AutoReturn(b, res) PROVE Answered(t)
  BY <1>3, <1>4 DEF AutoReturn
<1>5. ASSUME AutoRaises(b) PROVE Answered(t)
  <2>1. ResumeOrWait(b, status, "failed") /\ Mode[ApRun(b)] = "auto"
        /\ driver[b] \in {"executing", "claimed"} /\ UNCHANGED <<approval, executed, exec>>
    BY <1>5 DEF AutoRaises
  <2> QED BY <1>3, <2>1
<1>6. ASSUME NEW c, AutoFollowup(b, c) PROVE FALSE
  <2>1. ~\E res \in {"completed", "failed"} : res = "followup"
    OBVIOUS
  <2>2. ASSUME NEW stat, Resume(b, stat, "followup"), Mode[ApRun(b)] = "auto" PROVE FALSE
    BY <2>2, ResumeCompletes
  <2> QED BY <1>6, <2>2 DEF AutoFollowup, ResumeOrWait
<1>7. ASSUME ResumeBegin(b) PROVE Answered(t)
  <2>1. Mode[ApRun(b)] = "auto"
    BY <1>7 DEF ResumeBegin, LoopInv, ResumesAfterProducer
  <2>2. /\ Resume(b, status, result[b]) /\ driver[b] = "returned"
        /\ UNCHANGED <<approval, executed, exec>>
    BY <1>7 DEF ResumeBegin
  <2> QED BY <1>2, <2>1, <2>2
<1>8. ASSUME NEW settled, Evaluated(b, settled) PROVE Answered(t)
  <2>1. Mode[ApRun(b)] = "auto" /\ driver[b] = "evaluating"
    BY <1>8 DEF Evaluated, LoopInv, ResumesAfterProducer, ResumeStates
  <2>2. /\ approval[b] = "approved" /\ paused[b] \in Children(ApRun(b))
        /\ AgentOf[paused[b]] = AgentOf[TaskOf[b]]
    BY <2>1 DEF AnswerFollowsDelivery
  <2>3. task' = [task EXCEPT ![paused[b]] = settled, ![Root[ApRun(b)]] = "working"]
    BY <1>8 DEF Evaluated, Settle
  <2>4. paused[b] = t
    BY <2>3, AskingTask DEF TypeOK
  <2>5. TaskOf[b] = t
    BY <2>2, <2>4, OwnTask
  <2>6. \E v \in {"deciding", "ended"} : driver' = [driver EXCEPT ![b] = v]
    BY <1>8 DEF Evaluated, Settle
  <2>7. UNCHANGED <<approval, executed, exec>>
    BY <1>8 DEF Evaluated
  <2>8. Answered(TaskOf[b])
    BY <2>1, <2>2, <2>6, <2>7, AnsweredBy
  <2> QED BY <2>5, <2>8
<1>9. ASSUME NEW res, DirectReturn(b, res) PROVE Answered(t)
  <2>1. /\ Mode[ApRun(b)] = "direct" /\ driver[b] = "executing"
        /\ driver' = [driver EXCEPT ![b] = "ended"]
        /\ UNCHANGED <<approval, executed, exec>>
    BY <1>9 DEF DirectReturn
  <2>2. t = Root[ApRun(b)] /\ approval[b] = "approved"
    BY <1>9, <1>0 DEF DirectReturn, TypeOK
  <2>3. TaskOf[b] = t
    BY <2>1, <2>2, AskingTask
  <2>4. Answered(TaskOf[b])
    BY <2>1, <2>2, AnsweredBy
  <2> QED BY <2>3, <2>4
<1>10. ASSUME NEW c, DirectFollowup(b, c) PROVE FALSE
  BY <1>0, <1>10 DEF DirectFollowup, TypeOK
<1>11. ASSUME Deliver(b) \/ DirectRaises(b) \/ EvaluationRaises(b) PROVE FALSE
  BY <1>11 DEF Deliver, DirectRaises, EvaluationRaises
<1>12. ASSUME HostLoop(b) PROVE Unasked(t)
  BY <1>0, <1>12, HostLoopCompletes DEF LoopInv
<1> QED
  BY <1>4, <1>5, <1>6, <1>7, <1>8, <1>9, <1>10, <1>11, <1>12 DEF Job

\* Whatever step completes a task with an own agent.
LEMMA TaskCompletes ==
  ASSUME TypeOK, LoopInv, DirectNeverDecides, AskedByAgent, AnswerFollowsDelivery,
         [Next]_vars, NEW a \in Approvals, OwnAgent(a),
         task'[TaskOf[a]] = "completed", task[TaskOf[a]] # "completed"
  PROVE  Answered(TaskOf[a]) \/ Unasked(TaskOf[a])
<1> DEFINE t == TaskOf[a]
<1>0. t \in Tasks /\ Runs \subseteq Drivers
  BY AskingTask DEF Drivers
<1>1. ASSUME NEW r \in Runs, StartRun(r) PROVE FALSE
  BY <1>0, <1>1 DEF StartRun, TypeOK
<1>2. ASSUME NEW r \in Runs, CancelRows(r) PROVE FALSE
  BY <1>0, <1>2 DEF CancelRows, WithTasks
<1>3. ASSUME NEW b \in Approvals, Job(b) PROVE Answered(t) \/ Unasked(t)
  BY <1>3, JobCompletes
<1>4. ASSUME NEW r \in Runs, NEW how \in {"complete", "error"}, DirectEnds(r, how)
      PROVE  Unasked(t)
  <2>1. /\ driver[r] = "delegating" /\ approval' = approval
        /\ DriverRun(r) = r /\ Root[r] \in Tasks
    BY <1>4, ConstantsOK DEF DirectEnds, DriverRun
  <2>2. ASSUME NEW end, Finish(r, end, task, evaluated, FALSE)
        PROVE  t = Root[r] /\ RootStatus(r, FinalStatus(r, end, evaluated, FALSE)) = "completed"
    BY <1>0, <2>1, <2>2 DEF Finish, TypeOK
  <2>3. /\ RootStatus(r, FinalStatus(r, "error", evaluated, FALSE)) # "completed"
        /\ RootStatus(r, FinalStatus(r, "awaiting", evaluated, FALSE)) # "completed"
    BY ConstantsOK DEF FinalStatus, RootStatus
  <2>4. how = "complete" /\ exec[Root[r]] # "approval"
    BY <1>4, <2>2, <2>3 DEF DirectEnds
  <2>5. t = Root[r] /\ exec' = [exec EXCEPT ![Root[r]] = "sufficient"]
    BY <1>4, <2>2, <2>4 DEF DirectEnds
  <2>6. \A b \in Approvals : TaskOf[b] = t => ApRun(b) = r
    BY <2>5, AskingTask
  <2> QED BY <2>1, <2>4, <2>5, <2>6 DEF Unasked, AskedByAgent, TypeOK
<1>5. ASSUME NEW r \in Runs, Producer(r) PROVE Unasked(t)
  <2>1. ASSUME NEW b, DirectAsks(r, b) PROVE FALSE
    BY <1>0, <2>1 DEF DirectAsks, TypeOK
  <2>2. ASSUME HostLoop(r) PROVE Unasked(t)
    BY <1>0, <2>2, HostLoopCompletes DEF LoopInv
  <2> QED BY <1>4, <1>5, <2>1, <2>2 DEF Producer, ProducerNoticesCancel
<1>6. ASSUME Crash PROVE FALSE
  BY <1>0, <1>6 DEF Crash, TypeOK
<1>7. ASSUME NEW u, Execution(u) PROVE FALSE
  BY <1>7 DEF Execution, RemoteReturns, RemoteAsksApproval
<1> QED
  BY <1>1, <1>2, <1>3, <1>5, <1>6, <1>7
     DEF Next, Request, Cancel, ProducerAborts, Decide, vars

\* A task with an own agent stays open until the answer to its last approval.
LEMMA OpenUntilAnsweredNext ==
  ASSUME TypeOK, DecisionInv, LoopInv, StreamInv, WriteInv, [Next]_vars, DecisionInv'
  PROVE  OpenUntilAnswered'
<1> SUFFICES ASSUME NEW a \in Approvals, OwnAgent(a), task'[TaskOf[a]] = "completed"
             PROVE  /\ exec'[TaskOf[a]] # "running"
                    /\ ~Awaited(a)'
                    /\ approval'[a] # "unused" => approval'[a] = "approved" /\ executed'[a] = 1
  BY DEF OpenUntilAnswered, OwnAgent, Delegable, ApRun
<1> DEFINE t == TaskOf[a]
<1>0. t \in Tasks /\ (Awaited(a)' => approval'[a] # "unused")
  BY AskingTask DEF Awaited, DecisionInv
<1>1. /\ exec[t] = "running" => task[t] # "completed"
      /\ Awaited(a) => task[t] # "completed"
      /\ approval[a] # "unused" /\ task[t] = "completed"
           => approval[a] = "approved" /\ executed[a] = 1
  BY DEF WriteInv, OpenUntilAnswered
<1>2. ~(exec[t] # "running" /\ exec'[t] = "running")
  <2>1. ASSUME NEW r \in Runs, StartRun(r), t = Root[r] PROVE FALSE
    BY <1>0, <2>1 DEF StartRun, TypeOK
  <2>2. ASSUME NEW d, NEW S, HostDelegates(d, S), t \in S PROVE FALSE
    BY <1>0, <2>2 DEF HostDelegates, WithTasks
  <2> QED BY <1>0, <2>1, <2>2, ExecutionStarts
<1>3. CASE task[t] = "completed"
  <2>1. approval[a] = "unused" => approval'[a] = "unused"
    <3> SUFFICES ASSUME approval[a] = "unused", approval'[a] # "unused" PROVE FALSE
      OBVIOUS
    <3>1. PICK c \in Approvals : TaskOf[c] = t /\ driver[c] = "executing"
      BY <1>1, <1>3, ApprovalRaised
    <3>2. OwnAgent(c) /\ Awaited(c)
      BY <3>1 DEF OwnAgent, ApRun, Awaited
    <3> QED BY <1>3, <3>1, <3>2 DEF WriteInv, OpenUntilAnswered
  <2>2. ~Awaited(a)'
    BY <1>1, <1>3, <2>1, AwaitedNext
  <2>3. approval'[a] # "unused" => approval'[a] = "approved" /\ executed'[a] = 1
    BY <1>1, <1>3, <2>1, DecisionKept, PassedNext
  <2> QED BY <1>1, <1>2, <1>3, <2>2, <2>3
<1>4. CASE task[t] # "completed" /\ Unasked(t)
  BY <1>0, <1>4 DEF Unasked
<1>5. CASE task[t] # "completed" /\ Answered(t)
  <2>1. PICK b \in Approvals :
          /\ TaskOf[b] = t
          /\ Awaited(b) /\ ~Awaited(b)'
          /\ approval[b] = "approved" /\ executed[b] = 1
          /\ approval' = approval /\ executed' = executed /\ exec' = exec
    BY <1>5 DEF Answered
  <2>2. exec[t] # "running"
    BY <2>1 DEF StreamInv, AskedByAgent
  <2>3. CASE a = b
    BY <2>1, <2>2, <2>3
  <2>4. CASE a # b
    <3>1. approval[a] # "unused" => Passed(a)
      BY <2>1, <2>4 DEF WriteInv, OneAwaited
    <3> QED BY <1>0, <2>1, <2>2, <3>1, AwaitedNext DEF Passed
  <2> QED BY <2>3, <2>4
<1>6. task[t] # "completed" => Answered(t) \/ Unasked(t)
  BY TaskCompletes DEF StreamInv, WriteInv
<1> QED BY <1>3, <1>4, <1>5, <1>6

\* The invariant of this section.
LEMMA WriteInvariant == Spec => [](DecisionInv /\ WriteInv)
<1>1. Init => DecisionInv /\ WriteInv
  <2>1. Init => DecisionInv
    BY DEF Init, DecisionInv, Drivers
  <2>2. Init => WriteInv
    BY ConstantsOK
       DEF Init, WriteInv, AnswerFollowsDelivery, OneAwaited, OpenUntilAnswered, Awaited, Drivers
  <2> QED BY <2>1, <2>2
<1>2. TypeOK /\ LoopInv /\ StreamInv /\ DecisionInv /\ WriteInv /\ [Next]_vars
        => DecisionInv' /\ WriteInv'
  BY DecisionInvNext, AnswerFollowsDeliveryNext, OneAwaitedNext, OpenUntilAnsweredNext
     DEF StreamInv, WriteInv
<1> QED BY <1>1, <1>2, TypeCorrect, StreamInvariant, PTL DEF Spec

\* A task that asked for approvals is completed only when every one of them was
\* approved and delivered, if its agent works on no other task of the Run: no reply
\* to another decision, no follow-up, no late round and no restart completes it.
THEOREM OwnAgentWritesWereRun ==
  Spec => [](\A a \in Approvals : OwnAgent(a) =>
               (approval[a] # "unused" /\ task[TaskOf[a]] = "completed"
                  => approval[a] = "approved" /\ executed[a] = 1))
<1>1. WriteInv => \A a \in Approvals : OwnAgent(a) =>
                    (approval[a] # "unused" /\ task[TaskOf[a]] = "completed"
                       => approval[a] = "approved" /\ executed[a] = 1)
  BY DEF WriteInv, OpenUntilAnswered
<1> QED BY <1>1, WriteInvariant, PTL

\* The property the runs check, from its assumption: no two tasks that a Run may
\* delegate share an agent.
AgentsApart ==
  \A r \in Runs : \A t, u \in Delegable(r) : AgentOf[t] = AgentOf[u] => t = u

THEOREM CompletedWritesRun == AgentsApart => (Spec => []CompletedWritesWereRun)
<1> SUFFICES ASSUME AgentsApart PROVE Spec => []CompletedWritesWereRun
  OBVIOUS
<1>1. \A a \in Approvals : OwnAgent(a)
  BY ConstantsOK DEF AgentsApart, OwnAgent, ApRun
<1>2. WriteInv => CompletedWritesWereRun
  BY <1>1 DEF WriteInv, OpenUntilAnswered, CompletedWritesWereRun
<1> QED BY <1>2, WriteInvariant, PTL
=============================================================================
