# a2a-playground in TLA+

This directory specifies, model-checks and proves properties of a2a-playground: a FastAPI
backend in which a *Host* (a LangGraph/ReAct loop over a language model) splits a user's
request into tasks, delegates them to remote agents over the A2A protocol, pauses for the
user's approval of write calls, and streams everything it does to a browser; and the console
in that browser, which reduces those events to what its user sees.

All paths below are relative to the repository root (`src/` here is the repository).

## 1. The system

| Component | Source | State it keeps | Operations |
|---|---|---|---|
| Run service | `src/backend/orchestration/service.py` | `_active_tasks`, one `asyncio.Condition` and one generation counter per Run | `stream` (the *producer*), `cancel`, `resume_after_approval`, `recover_interrupted_runs`, `wait_for_events` |
| Approvals | `src/backend/approvals/service.py`, `src/backend/api/runs.py` | background tasks | `claim`, `execute_claimed`, `_finalize_direct_run`, `approvals_decide` and its background job |
| Repository | `src/backend/persistence/repository.py` | rows of runs, tasks, approvals, events, remote bindings | conditional updates, `append_run_event`, `supersede_pending_approvals` |
| A2A gateway | `src/backend/a2a_gateway.py`, `a2a_client.py` | remote bindings (in the repository) | `delegate` (blocking, used for decisions), `delegate_stream` (used for tasks) |
| Host loop | `src/backend/host/orchestration/engine.py`, `host/langgraph/*` | `HostRunState`: observations, fingerprints, budgets | `_stream_react`: decide, delegate, gather, observe; `stream` over a fixed plan |
| Validation | `src/backend/host/orchestration/validation.py` | none | `validate_decision`, `validate_plan`, `task_fingerprint` |
| Strategies | `src/backend/orchestration/strategies.py` | delegations of one execution | translate host or agent events into Run events |
| Event stream | `api/runs.py` `runs_stream`, `service.py` `wait_for_events` | a queue per first connection, a cursor per reconnection | server-sent events, replay after a sequence number |
| Stream client | `src/frontend/src/api/runStream.js`, `hooks/useRunStream.js`, `state/runEvents.js` | last sequence, seen ids, reduced state | connect, reconnect, poll, reduce |
| Agent runtime | `src/agents/shared-runtime/a2a_runtime/` | LangGraph checkpoint, pending action and batch results per context | run a task, stop at a write, execute approved calls |
| Reducers of events | `state/runEvents.js`, `state/runStage.js`, `state/eventFeed.js`, `state/taskExplorer.js`, `components/workspace/roundTimeline.js` | none (pure) | an event, or all of them, to a trace, a stage, cards, a task flow, a timeline |
| Workspace page | `hooks/useRunStream.js`, `pages/WorkspacePage.jsx` | conversation, Run, streams on their way, address | send, restore, follow, cancel, begin anew, delete, decide |
| Console pages | `pages/AgentsPage.jsx`, `TasksPage.jsx`, `DashboardPage.jsx`, `EventsPage.jsx`, `ModelSettingsPage.jsx`, `components/ConnectionDiagnostics.jsx` | lists read, flags, errors | read, filter, change, read again |
| Console shell | `App.jsx`, `components/shell/*`, `context/ConsoleSettingsContext.jsx` | settings in the browser's storage, the command palette | routes, settings, search |
| Host model configuration | `src/backend/model_config.py` | one stored setting with an encrypted key | resolve, public, update, reset |
| Agent registry | `src/backend/registry/service.py`, `api/agents.py` | registered cards | list, register, delete, health |
| Legacy hosts, unused pages | see `PROJECT.json` | | not reached by a Run or by a route |

How they meet. The browser posts a message; the endpoint starts a producer task that
owns the Run and writes rows and events through the repository. In an *auto* Run the
producer drives the Host loop, whose tasks run on agents through the gateway, all tasks
of a round in parallel (`asyncio.gather`). In a *direct* Run the producer reads one
agent's stream itself. When an agent stops at a write call the gateway stores a pending
approval and sets the Run to `approval_required`, while the other tasks of the round may
still be running; the producer ends once the round is complete. A decision is claimed by
one conditional `UPDATE`; for an auto Run a background job delivers it to the agent and
then calls `resume_after_approval`, which takes the Run's condition lock, settles the
paused task and drives the Host loop again; for a direct Run the request itself delivers
and finalises. A new message in the conversation *supersedes* every Run that waits for a
decision. At start-up Runs found running are marked interrupted.

What is hard about it:

* every `await` is an interleaving point, and at most of them cancel, a decision, a
  superseding message or the answer of an agent may come in;
* the same facts are kept in several places (status row, task rows, event log, process
  memory) and written by four code paths (producer, resume, direct finalisation, the
  status written by `execute_claimed`);
* `gather()` outlives the producer that a cancel ends;
* decisions of one Run compete for a lock that a resume holds across model and agent calls;
* the resume finds "its" task by agent and status, not by identity;
* a restart loses the process but not the rows.

`PROJECT.json` lists these hazards at their lines, with the properties that cover them.

What makes each component correct:

* Run service: one driver of the Host loop at a time; one terminal event per ordinary Run,
  the one its status names; a cancelled producer writes nothing; producers and jobs end.
* Approvals: a decision is delivered and recorded once and never revised; a write task
  is completed only by its own approved call.
* Repository: the event log is append-only with gap-free sequence numbers.
* Event stream and client: every persisted event is applied once and in order, across
  reconnections and polls.
* Reducers: trace, stage, feed, task flow and timeline are derived from the same events in
  different ways and must agree with each other and, once the Run has settled, with its rows.
* Workspace page: the composer is freed whatever happens to requests; the address names what is
  shown; what is shown is of one conversation and not older than the Run it is shown for.
* Console pages: no page waits for nothing; what is shown answers what is asked for now, is what
  the user changed, and is never replaced by something older.
* Host loop: budgets, no repeated task, a mutation only after a precheck and followed by a
  verification before `complete`.
* Agent runtime: every call of an interrupted batch gets exactly one result before the
  graph resumes.

## 2. What is modelled

### `RunLifecycle`

One module for the life of Runs, because the components above share the rows it
is about: an interleaving of the producer, the gateway, a decision and the resume is what
can go wrong, and none of them has an interface narrower than those rows.

State. `status`, `task`, `approval`, `evaluated` and `outcome` are database rows: the
Run's status column, the status inside each task's `data` (the one `list_tasks` reads),
the approval's status, the `task.evaluated` events and the terminal events of the
Run's log. `driver[d]` is the place of a process task: a producer when `d` is a Run,
the job of a decision when `d` is an approval. `round`, `failed`, `result` and `paused`
are local variables of these tasks. `exec` is the delegated execution of a task on its
agent. `executed` and `verdicts` count deliveries and `approval.decided` events; no guard
reads them. A driver goes through

    producer:  idle -> deciding <-> delegating -> ended
    job:       idle -> claimed -> executing -> [returned ->] [evaluating ->]
                    deciding <-> delegating -> ended

`returned` is a job that waits for the lock of `resume_after_approval`; `LockFree` says
nobody of the Run is inside it.

Actions. `StartRun` (with `supersede_pending_approvals`), `HostDelegates`, `HostStops`,
`RoundEnds`, `ProducerNoticesCancel`, `DirectAsks`, `DirectEnds` are the producer;
`RemoteReturns` and `RemoteAsksApproval` the executions; `Cancel`, `ProducerAborts` (the
`finally` of `stream`), `Decide` the requests; `Deliver`, `AutoReturn`, `AutoFollowup`,
`AutoRaises`, `ResumeBegin`, `Evaluated`, `EvaluationRaises`, `DirectReturn`,
`DirectFollowup`, `DirectRaises` the jobs; `Crash` a restart with
`recover_interrupted_runs`. The resume drives the Host loop with the same actions as the
producer (`HostLoop`), as the code does with the same strategy. Code between two awaits is
one step: the rows and the terminal event that end a Run (`Finish`), a whole round's
results, a claim. `map` in `PROJECT.json` names the lines of each definition.

Choices a reader should know:

* `_apply_task_event` gives a task the status its event implies, and `working` for every
  event that is not about a task. Therefore the root of a Run that the resume completes
  stays `working` (`RootStatus`); the producer writes the root's status itself.
* `supersede_pending_approvals` changes the tasks' `status` column only; `list_tasks` reads
  `data`. The model keeps the latter, so superseded tasks still look paused.
* `Cancel` ends only the producer; a job is not in `_active_tasks` and never looks at
  the status. The model's resume therefore has no such guard (`MayWrite`).
* The producer lets a failed task win over a requested approval, the resume lets the
  approval win (`FinalStatus`).
* An execution in an auto Run survives its producer. The stream of a direct Run is read
  by the producer and dies with it.
* The answer of an agent is one of `completed`, `failed`, `other` (a state the resume does
  not handle) or a follow-up approval. `failed` stands for every way a delivery goes wrong,
  among them a decision that reaches the wrong context of its agent.

Left out of this module: progress events of children, messages, continuation tasks, retries
and replacement agents (an execution has one outcome whatever attempts led to it), tool-call
events, the content of checkpoints. A task is delegated once, which bounds the Host
loop. Approval ids are fresh.

### `MCRunLifecycle`

Instances. Model values stand for ids, numbers for tasks, since the resume picks
the first paused task in id order.

| Run | Instance | Checks | Distinct states |
|---|---|---|---|
| `run_auto` | auto Run with two children on one agent, an approval each; a direct Run beside it | `TypeOK`, `AtMostOneExecution`, `OneLoop`, `PlainRunEndsOnce`, `DecisionIsFinal`, `CancelledProducerIsInert` | 163 thousand |
| `run_direct` | direct Run with an approval and its follow-up; an auto Run without approvals beside it | `AtMostOneExecution`, `SuccessIsLogged` | 227 thousand |
| `run_batch` | auto Run whose children have an agent each: two approvals of one batch, one of another task | `CompletedWritesWereRun`, `SuccessIsLogged` | 154 thousand |
| `run_liveness` | the auto Run of `run_auto` alone, with fairness | `EveryDecisionSettles`, `EveryProducerEnds` | 25 thousand |
| `cancel_stops` | as `run_liveness`, without fairness | `NoTaskStartsAfterCancel` is violated | |
| `wrong_task` | same | `CompletedWritesWereRun` is violated | |

Bounds and why they are enough. Two Runs: one to supersede and one to be superseded, in both
modes; a third would repeat one of them. Two children: the smallest round whose results can
disagree, and, on one agent, the smallest in which the resume can pick the wrong task. Two
approvals: the smallest number of jobs that compete for a lock; the third in `run_batch`
adds a sibling to a batch. `MaxCrashes = 1`: a restart clears the process, so a
second one meets a state the first could have met, with no job left. Every task is delegated at most
once and every approval raised at most once, hence the state spaces are finite without a
constraint. Deadlock is not checked: a system whose Runs have all ended stops.

Each property of a passing run has a mutant in `PROJECT.json`, a plausible bug in one
definition (a missing lock, a claim that accepts a repeated decision, a cancel without
its early return, an unlogged end ...) that makes TLC find the property violated.

Fairness (`Fairness`): weak fairness of each producer, each job and each execution. The
event loop runs ready tasks, and the calls they wait for are bounded: the model calls by
`_invoke_structured`'s timeout, the A2A transport by the HTTP client's, the agent's stream
by its idle timeout. No fairness for users (`Request`) or restarts. Weak fairness
suffices for a job that waits for the lock: the next holder may take it first, but there
are finitely many jobs per Run and each ends.

### `RunStream` and `EventFeed`

How the events of one Run reach one browser tab. `RunLifecycle` says which events and
statuses are written; `RunStream` takes them as they come (`Persist`, `ChangeStatus` in any
order) and follows them to the reduced state of the tab. So what it shows holds for every
way the backend may write, those of `RunLifecycle` among them.

State. `log` is the event table of the Run, an event being its writer: `producer` events
also go through the queue of the first request, `service` events (resume, cancel,
recovery) do not, `request` events (a direct decision, `approvals/service.py`) are not even
announced. `sse` is the connection as the server sees it: kind `first` (queue) or
`reader` (log), the `cursor`, the end of the batch that is being sent (`upto`), the place
in its loop (`at`) and whether the generation has moved since it was taken. `locked` says a
resume holds the Run's condition. `tab`, `start`, `latest`, `last`, `reconnects`, `poll`
are the locals of `send`, `followRun`, `catchUpAndStreamRun` and `streamRun`;
`applied` is the set of events the reducer has taken (it drops known `event_id`s), and
`interrupted` says that `rawEvents` also holds a local event numbered `MAX_SAFE_INTEGER`.

| Actions | Code |
|---|---|
| `QueueSends`, `QueueCloses` | the answer of a first request (`api/runs.py` 141-159) |
| `ReaderLists`, `ReaderSends`, `ReaderChecks`, `ReaderWakes` | the loop of a reader (123-139): query, one step per `yield`, status, `wait_for_events` |
| `Reconnect`, `GiveUp`, `Complete` | how a connection of `streamRun` ends |
| `FollowRun`, `IntervalPoll`, `PollAnswered`, `PollFails` | `followRun` and `catchUpAndStreamRun`, first and last poll included |
| `Decide`, `Abort` | the user's decision, cancel, or leaving |

`EventFeed` is what a follow promises, without connections and polls: events are shown in
the order of the log and none between the start and the position reached is left out;
the position only advances. `ShowsTheLogInOrder` is its specification under the mapping
`end <- Len(log)`, `shown <- applied`, `position <- latest`.

Simplifications. Sending and receiving an event are one step; what a broken connection
loses is as if it had not been sent. `followRun` starts when the polls of an
earlier follow are over. The reducer's bounds on remembered ids and raw events are larger than
the log. One tab, one Run, one message: `restoreConversation` and a second message start
from a fresh state. A tab whose reconnection lost its `run_id` is `strayed` and not followed
further.

| Run | Instance | Checks | Distinct states |
|---|---|---|---|
| `run_stream` | `MaxEvents = 3`, `MaxReconnects = 1` | `TypeOK`, `FollowLeavesNoGap`, `SendMissesNoProducerEvent`, `FollowShowsEveryEvent`, `StreamEndsWithRun`, `ShowsTheLogInOrder` | 330 thousand |

Three events: one before the follow, one that a stream is delivering and one that a poll gets
ahead with. `MaxReconnects = 1` is the value `streamRun` has in the application. The theorems
below lift both bounds. Deadlock is not checked: a tab may be idle for good.

Fairness: weak for the server's tasks, for reading a stream to its end and for the interval
timer, since event loops run what is ready; strong for the answer of a poll, since any number of
polls may fail before one is answered. None for the Run, for a resume that holds the lock, or
for the user. `FollowShowsEveryEvent` therefore holds for a resume that never ends: the
polls go around it. `StreamEndsWithRun` has `locked` on its right: a reader cannot leave
`wait_for_events` before the resume ends.

### `RunEvents` and `RunTrace`

What the browser makes of one Run. `RunEvents` is pure: `Reduce` is `reduceNormalizedEvent`
(one operator per case of its switch), `ReduceStage` and `StageState` are `deriveRunStage`,
`FeedState` and `ReduceFeed` the event feed's reading of the same events, `Timeline` and
`TaskFlow` the two task lists. `deriveRunStage` and `deriveStatus` scan a whole log; here each
is a step from one view to the next that keeps what the scan would find. Texts, times and agent
names are left out, and so are the bounds of the reducer (500 raw events, 1000 ids), which
logs of this size do not meet.

`RunTrace` writes the log. `pc` is the place of the one driver at work (the producer, or the job
of a decision); `script` holds the events of the stretch it is in. The producer
hands its events on one at a time (`Emit`) and can be cut off between two, cancelled or
superseded; a job writes a stretch in one step, since it holds the condition lock and nothing reads
the log in between. `run`, `row` and `approval` are the rows, `exec` the executions on the
agents, `gate` the approval that is being decided.

| Actions | Code |
|---|---|
| `Start`, `Emit`, `Close`, `Pause`, `Return` | `RunService._stream` |
| `OpenRound`, `Delegate`, `Gather`, `Progress`, `Gathered`, `HostAnswers`, `HostFails` | `_stream_react` and `_finish_react` in `engine.py` |
| `RemoteReturns`, `RemoteAsks` | `_run_task` |
| `DirectAsks`, `DirectEnds` | `DirectExecutionStrategy.execute` |
| `Decide`, `JobGoesOn`, `Resume`, `NextOfBatch`, `DirectDecided` | `ApprovalService` and `resume_after_approval` |
| `Cancel`, `Supersede`, `CutOff`, `Restart` | `cancel`, `supersede_pending_approvals`, `stream`'s `finally`, `recover_interrupted_runs` |

| Run | Instance | Checks | Distinct states |
|---|---|---|---|
| `trace` | auto: `t1` with a batch of two writes, `t2` a mutation with a call of its own and a second attempt, alone or together, two rounds; direct: a batch of two | `TypeOK`, `ViewsSettleAlike`, `ReportedTasksAreClosed`, `StageMatchesTrace`, `TreeSettles`, `PausedRunShowsItsApproval`, `TimelineShowsEachTaskOnce`, `AgentReportsStay` | 1.3 million, 2 min |
| `one_answer` | same | `OneFinalAnswer` is violated | |

Bounds. Two rounds: one that is followed by another and the last one, which `_finish_react`
treats differently. Two tasks: the smallest round with an order of results, with two open
approvals and with a batch beside another task. A restart happens once, as it leaves nothing
that a second could lose. Deadlock is not checked: a Run ends.

What the Host's model may decide is assumed in one respect: the ids of a decision are new to the Run.
The code compares the ids of one decision with each other (`validate_decision`), which is
`TraceConstantsOK`'s part, and not with those of earlier decisions, which is a guard of `Delegate`. The Host is told
never to repeat work, and a task that continues another one names it (`continues_task_id`) and has an id of its own.

`PausedRunShowsItsApproval` and `ViewsSettleAlike` leave out a Run that a message superseded, since nothing
is logged for it, and the second a rejected direct Run whose agent then fails: its log says
completed and its row failed. The user decides here when the Run is paused; `RunLifecycle`
has the decisions that come earlier.

### `Workspace`

The workspace page of one tab with every request it has on its way. `job[s]` is a request in
slot `s`: its kind, how far it has come, and what was fixed when it was made, that is, what
its closure captured (the Run of that render, the conversation, the cursor). Answers come in any
order. `conv`, `url`, `view`, `loading` and `ref` are the page's conversation, address,
reduced state, `loading` flag and `abortRef`. The backend is `home`, `row`, `log` and `card`: the
conversation of each Run, its status, its events (started, required, decided, completed, cancelled)
and its approval; a Run starts, pauses, goes on and ends between any two steps.

| Actions | Code |
|---|---|
| `Send`, `SendStarts`, `Deliver`, `End`, `Break` | `send` and its stream |
| `Select`, `Reload`, `RestoreLists`, `RestoreReadsEvents`, `RestoreReadsCard`, `RestoreApplies`, `RestoreFails` | `restoreConversation`, request by request |
| `Decide`, `Claims`, `Follow`, `FirstPoll`, `LatePoll` | the approval card, `followRun`, `catchUpAndStreamRun` |
| `Stop`, `Cancels`, `Cancelled`, `NoAnswer` | `stopRun`, `cancel` |
| `New`, `Delete`, `Deletes`, `Deleted` | `beginNewConversation`, `deleteConversation` |

| Run | Instance | Checks | Distinct states |
|---|---|---|---|
| `workspace` | two conversations (one saved, with a Run that waits), two Runs, two requests at a time, one trouble | `TypeOK`, `ComposerIsFreed`, `UrlNamesConversation`, `EventsOfOneConversation`, `CompletedIsExplained`, `DecidedIsNotOffered`, `StreamEndShowsTheRun` | 1.3 million, 1.6 min |
| `stop_target` | same | `StopIsForTheRunAtWork` is violated | |

*Trouble* is an answer lost or an action of the user while the page waits for an answer
(`hasty`); one of either per behaviour is what the state space allows, and with two slots it
crosses every pair of requests. Slots are interchangeable (symmetry; no temporal property but
a step property is checked with it). The properties with `hasty = 0` are about a user who
waits: a restore answered after the user began a new conversation brings the old one
over it, which the page does not prevent. The aborts, failures and the Run's own
steps are all still in.

### The console: `Requests` and the pages

The other parts of the console are small, and their hazards alike: the page goes on
while requests are on their way, and what an answer does was fixed when it was asked for.
`Requests` holds the requests (`calls`): made, answered by the backend with what is true *then*,
settled by the page later, lost before or after the backend acted. Each page has a module:

| Module | State and actions | Code | Left out |
|---|---|---|---|
| `AgentsPage` | registry (changed by others as well), list, health, search and paging, dialog with address and card | `useAgents.js`, `AgentsPage.jsx`, `AddAgentModal.jsx`, `api/agents.py` | contents of cards and health |
| `TasksPage` | list of Runs, Run in the address, Run shown, three-second timer | `TasksPage.jsx` | filters, node drawer |
| `Overview` | lists read together, each succeeding or failing by itself; how old each is | `DashboardPage.jsx` `load`, `WorkspacePage.jsx` `refresh`, `resolveWorkspaceRefreshResults` | which agents are online |
| `HostModel` | form, configuration shown; stored setting, its key and whether it can be decrypted | `ModelSettingsPage.jsx`, `model_config.py` | provider, URL and model are one value |
| `ConnectionTests` | result, flag and error per card | `ConnectionDiagnostics.jsx` | what a test finds |
| `ConsoleSettings` | settings per tab, the browser's storage, which may hold anything | `consoleSettings.js`, `ConsoleSettingsContext.jsx` | styling |
| `CommandPalette` | openings, what was read at each, query, marked row | `CommandPalette.jsx`, `commandSearch.js` | titles, languages |
| `EventViews` | events read, filters, views, cards | `useEvents.js`, `EventsPage.jsx`, `eventFeed.js`, `feed.py` | tasks and tools of a card (`RunTrace`), names, modes |
| `SSEParser` | buffer, record, events delivered | `createSSEParser` in `runStream.js` | text inside a line |
| `Arrays` | no state: `sort` and `filter`, for this console and for `RunEvents` | the arrays of JavaScript | |

`Console` composes them. The router shows one page at a time and begins it anew, so that a
behaviour is the visit of one part from any state of backend and storage: the pages share
`calls`, and no action of one can disturb another. What they share beyond that (the registry, the
Runs) is changed by *others* in each of them (`Elsewhere`, `Start`, `Change`, `Thing`, `Emit`).

| Run | Instance | Checks | Distinct states |
|---|---|---|---|
| `console` | see below | `TypeOK`, `SpinnersEnd`, `OwnChangesAreShown`, `AnswersFitTheirQuestion`, `ListsShowWhatTheyHold`, `ChunksDoNotMatter`, `ShownNeverGoesBack` | 1.3 million, 1.6 min |

Each of the first five has a conjunct per page to which the question applies, named in that
page's module: `OwnAgentChangesAreShown`, `OwnConfigIsShown`, `EnteredKeyIsUsed`,
`SettingsSurvive`; `CardIsOfTheAddress`, `SelectedRunIsShown`, `TestsAreAnswered`,
`PaletteIsOfThisOpening`; `PageShowsAgents`, `BestAreOffered`, `MarkedIsOffered`,
`EventsAreShownOnce`. Operators called *Mutant of* are plausible bugs. `PROJECT.json`
lists one per property; the others break a conjunct of another page (a reload
forgotten after a change, a card kept while another address is typed, a timer that reads the
Run shown instead of the one selected, results cut before they are ranked, an event without a Run on no card).

Bounds. Two slots, interchangeable (symmetry): two requests cross; a third one crosses one of the two. Two agents and
`PageSize = 1`: a list with two pages, one of which goes. Two changes of the registry or of the
setting: one's own and one of another, or two of one's own. `MaxRuns = 3`, `MaxNews = 2`,
`MaxTests = 2`, `MaxOpenings = 2`: one before and one after. Two tabs. `Limit = 3` of four
commands with every kind of match that the ranking tells apart here. Three events and three records: enough for a Run's card
between two others, and for a comment between two events, cut anywhere. Deadlock is not checked: a page may be left alone.

Four flags mark behaviours in which the code promises less, so that the properties are silent there:
`hasty` (a change of the agents asked for while another is under way), `crossed` (another Run selected while
one is being read), `mixed` (requests of the model page under way together), `crowded` (loads
under way together). In each an answer that comes late stays, because answers are not
numbered. `shifted` marks a palette whose rows moved after one was marked, until another is marked or the arrow down pressed. No
fairness is assumed in these modules: `SpinnersEnd` and `ComposerIsFreed` say that a flag is only set
while something that clears it is on its way, which together with requests that settle is
why pages do not hang.

### What the violated properties show

Each states a sentence of the repository's documentation; the finding in `PROJECT.json`
quotes it.

* `NoTaskStartsAfterCancel` (`RunLifecycle`): the user cancels while a resumed Host loop is
  waiting for the model; the loop then delegates a new task.
* `CompletedWritesWereRun` (`RunLifecycle`) with two tasks on one agent: the second approval is
  decided first, its answer completes the first task, whose write nobody decided.
* `OneFinalAnswer` (`RunTrace`): two approvals of a round wait; after the decision on one the Host answers and the Run is completed;
  the decision on the other starts the loop again, and the Host answers once more under the
  same message id.
* `StopIsForTheRunAtWork` (`Workspace`): the stream of a send breaks; the local event
  names the Run of the message before, and the stop button is for that one.

Facts of the same kind that are in the models without a run of their own: of two tasks of a
round one fails and one asks for an approval, and the Run ends `failed` with the approval
pending; the decision on one of two writes of a round starts the next round; a reader that is
sending when the Run ends returns without the terminal event (a follow's last poll repairs
it, a reconnected `send` has none); a connection that breaks before its first event is
reconnected with an empty `run_id`, which is a new command.

## 3. What is proved

`RunLifecycle_proofs` proves, for any number of Runs, tasks, approvals, agents and restarts and
from `ConstantsOK` alone (ids are disjoint, roots and approvals belong to their Runs, the
Host is not one of the agents its children run on):

| Theorem | Statement | Argument |
|---|---|---|
| `TypeCorrect` | `Spec => []TypeOK` | `TypeOK` is inductive; one lemma per group of actions |
| `ExecutedAtMostOnce` | `Spec => []AtMostOneExecution` | `DecisionInv`: a job that has not started belongs to an approval without deliveries and verdicts, a job before delivery to one without deliveries, a job before its resume is settled to one without verdicts |
| `DecisionsAreFinal` | `Spec => DecisionIsFinal` | from `DecisionInv`: only a pending approval can be claimed or superseded |
| `OneLoopPerRun` | `Spec => []OneLoop` | `LoopInv`: a paused task of an auto Run implies that the producer has ended, every driver in the loop after it started from a paused task, and the lock admits one job |
| `PlainRunsEndOnce` | `Spec => []PlainRunEndsOnce` | `PlainInv`: an execution waits only if an approval of its Run exists, so a Run without approvals is written by its producer, cancel and recovery alone |

`AtMostOneExecution`, `OneLoop` and `PlainRunEndsOnce` are not inductive: a counter says
nothing about who may still increment it, the lock says nothing about the producer, which
takes none. The strengthenings were checked with TLC on both instances before they
were proved.

Its second half adds, from the same assumptions:

| Theorem | Statement | Argument |
|---|---|---|
| `SuccessesAreLogged` | `Spec => []SuccessIsLogged` | inductive, by what every single step does (`Logged`): it leaves status and log of a Run alone, or writes a status that is no success, or appends to the log the very status it writes |
| `CancelledProducersAreInert` | `Spec => CancelledProducerIsInert` | `StreamInv`: a direct Run that was cancelled has no stream left that its producer could still be reading, because a message supersedes only Runs with an approval out, and with one out the agent's stream is over |
| `OwnAgentWritesWereRun` | a task whose agent has no other task of its Run is completed only when each of its approvals was approved and delivered | `WriteInv`: an answer follows its delivery, one approval of a task at a time is awaited, and the task is open until the last is answered |
| `CompletedWritesRun` | `AgentsApart => (Spec => []CompletedWritesWereRun)` | from the theorem before |

`AgentsApart` says that no two tasks a Run may delegate share an agent. The code does not promise it; the run
`wrong_task` shows what happens without it, and that nothing weaker than the theorem's
assumption on the tasks of *one* Run is enough. With these, every safety property of `RunLifecycle`
that a passing run checks is proved.

`RunStream_proofs` proves, for any length of the log and any number of reconnections (from
`BoundsOK`: both are natural numbers):

| Theorem | Statement | Argument |
|---|---|---|
| `StreamTypeCorrect` | `Spec => []TypeOK` | inductive |
| `FollowsHaveNoGap` | `Spec => []FollowLeavesNoGap` | `StreamInv` |
| `SendsKeepProducerEvents` | `Spec => []SendMissesNoProducerEvent` | `StreamInv` |
| `StreamImplementsFeed` | `Spec => ShowsTheLogInOrder` | every action is a step of `EventFeed` or a stutter under the mapping, from `StreamInv` |

The two invariants are not inductive: they say nothing about the cursor of the connection, the
request that is on its way, or a client position beyond the log. `StreamInv` adds
`Cursors`: what a reader has sent or a poll has asked for ends within the log, a poll starts
no later than the position of the follow, and while a follow streams, its connection's cursor
is not ahead of that position, so that the next event of either source leaves no gap.

`WorkspaceView_proofs` proves, for any number of slots, conversations and Runs, and of answers
that are lost or not waited for (from `NoRefOK` and `ConversationsOK`: no slot stands for the
absence of a stream, no conversation for that of one; the bounds are natural numbers):

| Theorem | Statement | Argument |
|---|---|---|
| `ComposerFreed` | `Spec => []ComposerIsFreed` | `PageInv`: every slot holds a request, and the stream that can be aborted is a send or a follow |
| `AddressNamesConversation` | `Spec => []UrlNamesConversation` | inductive: whatever sets the conversation sets the address |

`ComposerIsFreed` is not inductive: an abort leaves the flag to a follow whose first request
is out, which is right only if what `abortRef` holds is a stream that is under way. That is what
`RefOK` adds (a part of `TypeOK`, so TLC checks it). The lemmas `Made`, `Changed`, `Gone` and
`Aborted` are the four ways in which a step changes the requests.

and what the page shows, from the same assumptions:

| Theorem | Statement | Invariant |
|---|---|---|
| `ViewIsOfTheLogs` | `Spec => []TypeOK` | `TypeInv` |
| `OneConversationIsShown` | `Spec => []EventsOfOneConversation` | `OneInv` |
| `CompletedIsShownWhole` | `Spec => []CompletedIsExplained` | `ExplainedInv` |
| `DecisionIsTakenOnce` | `Spec => []DecidedIsNotOffered` | `CalmInv` |

The argument goes up in layers, each an invariant of its own that uses those below it:

* `RunOK`: what the database holds of a Run. Its log starts with `started`, agrees with its row and
  its approval, and only grows (`Grows`), whatever is deleted or superseded.
* `TypeInv`: what a request can ask (`JobIs`, by kind and progress) and what a view can hold
  (`Views`: events that happened). `Does` lemmas, one per kind of step, say which slots a step changes.
* `OneInv`, for a user who waits (`hasty = 0`): one request is on its way, or a cancellation and the rest of
  an aborted follow (`Alone`); the view and every request are of the conversation shown (`HereViews`, `JobHere`).
* `ExplainedInv`: a restore that listed a Run as completed reads its whole log or nothing, since it asks for
  the events after the list (`ListedDone`); what shows a Run as completed shows the event, or nothing
  of the Run and nothing is on its way that could add to it (`Blank`).
* `CalmInv`, when moreover no answer was lost: an approval offered is pending in the database
  (`Fits`), or the one request on its way explains why not (`Excuses`: a decision that was claimed and
  not heard of, a follow that has not caught up, a send whose first event is still to come, a deletion);
  and what each request is going to do to the view fits the database (`JobFits`).

The view is a fold of `See` over the events delivered. `SequenceLaws` proves what holds of a
fold for any step: what one step keeps the fold keeps (`AfterStays`), and a sequence is taken in by taking in its
beginning and then the next element (`FoldIs`). The induction is over the *set* of the lengths for which
that holds, which has 0 and each successor (`AllNumbers`, from `NatLessThanWellFounded`): the form
of the induction theorems that takes no operator as a parameter.
`WorkspaceView_proofs` instantiates it with `See`, and `Console_proofs` with the parser's
`ConsumeChar`. From the same induction come the laws of sequences made of others: what
`Sorted` and `Kept` of `Arrays` return, each element once and in order (`ArrangedIs`, `KeptIs`), and
what the pieces of a flattened sequence say of it (`FlatLists`).

`WorkspaceStream_proofs` proves, on top of these, `StreamEndTellsAll`:
`Spec => StreamEndShowsTheRun`. A stream ends when the log has nothing more for it and the Run is over or
waits, so what has to be shown is that nothing the page has not seen, or has seen in another
order, could change what it shows. Two invariants say it:

* `LogsEnd`: how a log ends and how long it can be, given the row and the approval of its Run. A Run
  that was decided ends with the event of its final status.
* `ToldInv`, for a user who waits and a page without a local event (after one, the cursor hides the rest of the
  log): the view is the beginning of *one* log (`Whole`, `Shows`), and while it offers an approval that was
  decided, its status is that of the last event of it that has one, or the log has more to come (`Settles`).
  Each request keeps it so (`JobTells`): a follow goes on where the view ends (`Reaches`), a send
  that is open has exactly the log it started (`SendLog`), and a restore that read a pending approval, or none,
  is of a Run that was not decided (`RestoreTells`).

`RunTrace_proofs` proves, for any tasks, calls, approvals, rounds and decisions of the Host, what the three
views of a Run's log have to do with each other and with the rows (from `EventConstantsOK` and
`TraceConstantsOK`: the root is a task, calls and approvals belong to tasks and calls, rounds are
numbered from one, the Host delegates tasks other than the root, each once in a decision):

| Theorem | Statement | Invariant |
|---|---|---|
| `TraceTypes` | `Spec => []TypeOK` | `TraceInv` |
| `ReportsClose` | `Spec => []ReportedTasksAreClosed` | `TraceInv` |
| `StageMatches` | `Spec => []StageMatchesTrace` | `TraceInv` |
| `ReportsStay` | `Spec => AgentReportsStay` | `TraceInv` |
| `TraceTreeSettles` | `Spec => []TreeSettles` | and `QuietOK` |
| `PausedRunsAskForIt` | `Spec => []PausedRunShowsItsApproval` | and `QuietOK`, `OwedOK` |
| `RunsSettleAlike` | `Spec => []ViewsSettleAlike` | and `EndOK` |
| `TimelineIsWhole` | `Spec => []TimelineShowsEachTaskOnce` | `TraceInv` and `LineOK` |

None is inductive, since a driver carries events that it has yet to write, and writes many of them in one step.
The argument has three layers.

* `RunViews_proofs` is about events. One lemma per kind of event says what the reducer, the stage, the feed
  and the row make of it (`ReduceIs`, `OwnEventIs`, `FeedIs`, `RowIs`); with a path of the
  four folds (`Path`, from `SequenceLaws`) they become facts about a stretch of events by *which events are in it*
  (`AfterAgrees`, `AfterActive`, `AfterMessages`, `AfterCards`, `AfterRun`, `AfterEnd`).
  `TaskOK` is what the four say of one task, and every event keeps it, with one exception: a status or an
  approval may only be told of a task the stage has as active.
* What a step writes (`Tells`), for each action: of a child, a report only when its execution is over, a
  draft only while it runs, an end only when it waits for nothing, and nothing else in one stretch with a wait.
* What makes drivers write so. `ControlOK`: where a driver can be and what it holds there.
  `ScriptOK`: each event still to be written fits the execution it is about. `ExecOK`: approvals are of executions
  that have run, and the tasks about to be gathered have not. `ActiveOK`: what runs, or is about to, is
  active or its delegation is still in the script.

`QuietOK` follows a terminal event: a producer at work has written none, a job may go on after a
cancellation, and then either ends the Run again or has an approval in its script. `OwedOK`: a driver
that waits, or is on its way to, has an approval that is shown or is in the script; for a round under way
this needs that no approval of its tasks was decided before. `EndOK`: unless superseded, a producer at work has
a Run that is not over. Theorems about the events that a message writes later are not needed: `Supersede`
writes none.

`LineOK` is about the lists a trace is shown from: the list of all tasks names each once, a round lists no task
that another lists or that has no row, and no decision that is still in the script names one of another round. The
two time lines are made of these lists in two ways, and `LineIs` shows that both return the same list, which
has each task once: the elements of a sequence at their first places, and what is put behind them, are facts of
`SequenceLaws` (`OwnList`, `FirstOnes`). What a stretch of events adds to the lists is `AfterAdds` and `AfterLined`.

This proof changed the model. `Delegate` asked for tasks without an execution. A restart between a decision
and its `gather` leaves tasks that a round lists and no execution has; if an approval of the Run is decided
then, the Host goes on and could name them in another round, which then lists them too, and the
time line shows them twice. The instance of `trace` has too few tasks and rounds for it; TLC finds it in one with three
of each, where it also confirmed `LineOK` under the new guard. The assumption on ids above is therefore stated, and the guard says all of it: the tasks of a decision have neither an
execution nor a row. What a Host does that names an id again is noted with the hazard of the time line.

Otherwise the proofs changed the model in form, not in what it does: `OnDecision` is now written as the loop
over the tasks that the code has, and the type of an event is a value, never put together from a status.

`Console_proofs` proves, for any number of slots, agents, Runs, models, tabs and things to
search, and from the assumptions named in the pages' modules (bounds are natural numbers; the values that stand
for *nothing* are none of the others; what the palette searches are sequences):

| Theorem | Statement |
|---|---|
| `TypesAreRight` | `Spec => []TypeOK` |
| `ListsShow` | `Spec => []ListsShowWhatTheyHold` |
| `ChunksMakeNoDifference` | `Spec => []ChunksDoNotMatter` |
| `NoPageWaitsForNothing` | `Spec => []SpinnersEnd` |
| `OwnChangesShow` | `Spec => []OwnChangesAreShown` |
| `AnswersFit` | `Spec => []AnswersFitTheirQuestion` |
| `ShownOnlyGetsNewer` | `Spec => ShownNeverGoesBack` |
| `PageIsNotEmpty` | the page of agents that is turned to has some if there are any, and its number is that of a page there can be |

`ConsoleInv` has an invariant for each page, and `ConsoleInvariant` says that it holds always; a page's
invariant is preserved by its own steps, and no other page is shown meanwhile. None of the properties is
inductive: what the page shows is right only if what requests on their way are going to bring is
right, and each invariant says what that is.

| Invariant | What it adds |
|---|---|
| `EventsInv`, `TestsInv` | at most one read, one test of a target; a flag is set exactly while it is out; its answer is of the last one |
| `TasksInv` | unless another Run was selected during a read, every request is about the Run selected; what was read of a Run stays true |
| `HostInv` | unless requests were made together there is one, and its answer is what the backend has (`ConfigInv`); the key entered last is stored (`KeyInv`) |
| `OverviewInv` | unless loads were made together there is one, and no list it brings is older than the one shown |
| `AgentsInv` | unless changes were made together there is one request about the registry, and the list it brings is not older than the last change (`OwnInv`); the dialog's card and its requests are of the address typed (`CardInv`) |
| `FeedInv` | the log numbers events as they happened; the events read, and those an answer brings, are the log's beginning, latest first |
| `OfferInv` | each place of the list is of a thing that was read, or of a command; the mark is on a row, or has been moved up since the rows changed |
| `SSEInv` | where the parser is: it has the first `i` records behind it and `o` characters of the next, and its line, its data and what it delivered are what that leaves (`MayBe`) |
| `SettingsInv`, `PaletteInv`, `PagesInv` | stored settings are valid; only searches of this opening are still wanted; page numbers |

`ListsShow` is about lists that are sorted, filtered and cut. What is to be shown is that each element comes
once and in order: that the ranks of a strict total order on `n` elements are the numbers from 0 to `n - 1`, each
of one element (`Ranks`), and that what is kept of such a list is one (`KeptIs`). The views of events are
more: a card's timeline is a filtered list of a filtered list, and is compared with the events that were
read, not with what the filters left (`EventsAreShownOnce`).

`ChunksMakeNoDifference` follows the parser character by character (`CharStep`, `ChunkStep`). Where it is in a
record says what it holds, with one exception: if a chunk ends between the CR and the LF of a data line, the parser takes the CR
for the whole end and the LF for a blank line, and gives the event to the caller before the record's own
blank line was read. That one then finds no data. So what was delivered is `Due`, or one event more, but never
anything that was not sent next. The proof is for any records, line endings and chunks.

A proof attempt changed the model. `MarkedIsOffered` held with `Limit = 2` and is false with
three rows: a step *up* from a row that is not offered any more may end on another such. The model treated
it as the step down, which always ends on a row. Since then an arrow up leaves `shifted` as it
is and the run has `Limit = 3`.

Only model-checked:

* liveness (`EveryDecisionSettles`, `EveryProducerEnds`, `FollowShowsEveryEvent`,
  `StreamEndsWithRun`): fairness is out of the prover's reach.

## 4. Plan

Done: `RunLifecycle`, `RunStream` with the abstract `EventFeed`, `RunEvents` and `RunTrace`,
`Workspace`, the console, and the theorems above. Next, in this order:

1. `AgentBatch`: the agent's runtime between an interrupted batch and its last result: pending
   action and batch results in memory, checkpoint on disk, restart, the MCP client's retry.
2. `HostReact`: budgets, fingerprints, `validate_decision` with the workflow roles; `PlanEngine`:
   the dependency scheduler over a fixed plan.

## 5. Not modelled

* The agents' own runtime and MCP client (`src/agents/`): known by their answers only.
* Validation of the Host's decisions and the engine over a fixed plan.
* `pages/ChatPage.jsx`, `pages/MultiAgentPage.jsx` and the components only they use: no route
  leads to them (`App.jsx` redirects `/chat` and `/multi` to the workspace).
* Components that only render (`RunTimeline`, `TaskFlow`, drawers, cards) beyond the handlers named above;
  what is shown of texts, names, durations and languages.
* The ADK and older LangGraph hosts, which the Run service does not use; migrations, generated
  and vendored code; environment parsing and `security.py`, which are sequential.

`PROJECT.json` lists each with the reason.
