------------------------------ MODULE RunStream ------------------------------
(***************************************************************************)
(* How the events of one Run reach one browser tab. The backend persists   *)
(* events and changes the status of the Run; POST /api/runs/stream answers *)
(* the request that starts a Run from a queue, and every other request     *)
(* from the log; the tab (streamRun, catchUpAndStreamRun, useRunStream)    *)
(* reads that stream, reconnects once, polls the log beside it, and        *)
(* applies each event once.                                                *)
(*                                                                         *)
(* An event is its sequence number, its position in the log. The code that *)
(* writes events and statuses is the subject of RunLifecycle; here it is   *)
(* reduced to what a stream can see of it. Sending an event and receiving  *)
(* it is one step: what is in flight when a connection breaks is as if it  *)
(* had not been sent.                                                      *)
(***************************************************************************)
EXTENDS Naturals, Sequences

CONSTANTS
  MaxEvents,      \* bound: the length of the log
  MaxReconnects   \* options.maxReconnects of streamRun

ASSUME BoundsOK == MaxEvents \in Nat /\ MaxReconnects \in Nat

VARIABLES
  log,          \* log[i]: who persisted event i
  status,       \* the status column of the Run, terminal ones as "closed"
  producing,    \* the task that drives the Run and feeds the queue is alive
  locked,       \* resume_after_approval holds the condition of the Run
  sse,          \* the connection of the tab, as the server sees it
  tab,          \* what the tab is doing
  click,        \* the cursor captured by a click on an approval
  start,        \* after_sequence of the follow
  latest,       \* latestSequence of catchUpAndStreamRun
  last,         \* lastSequence of streamRun; 0 as long as its runId is empty
  reconnects,   \* reconnects of streamRun
  poll,         \* the request for persisted events that is on its way
  applied,      \* the events the tab has reduced into its state
  interrupted   \* its rawEvents hold a local event, numbered MAX_SAFE_INTEGER

backend == <<log, status, producing, locked>>
vars == <<log, status, producing, locked, sse, tab, click, start, latest, last,
          reconnects, poll, applied, interrupted>>

\* "producer" events go through the queue; "service" ones are persisted by
\* RunService outside of the producer (resume, cancel, recovery); "request"
\* ones by the decide request of a direct Run, which notifies nobody.
Writers == {"producer", "service", "request"}
Statuses == {"running", "approval_required", "closed"}

\* MAX_SAFE_INTEGER: greater than every sequence number, and not 0.
Far == MaxEvents + 1
Sequence == 0..Far
Upto(a, b) == IF a >= b THEN a ELSE b

Polls == [on : BOOLEAN, from : Sequence, upto : Sequence]
Connections ==
  [kind : {"none", "first", "reader", "done"}, at : {"list", "send", "wait"},
   cursor : Sequence, upto : Sequence, moved : BOOLEAN]

NoPoll == [on |-> FALSE, from |-> 0, upto |-> 0]
NoSse == [kind |-> "none", at |-> "list", cursor |-> 0, upto |-> 0, moved |-> FALSE]
Queue == [NoSse EXCEPT !.kind = "first"]
Done == [NoSse EXCEPT !.kind = "done"]
Reader(c) == [NoSse EXCEPT !.kind = "reader", !.cursor = c]

-----------------------------------------------------------------------------
\* The tab has posted a message, and the backend has started the Run.
Init ==
  /\ log = <<>>
  /\ status = "running"
  /\ producing = TRUE
  /\ locked = FALSE
  /\ sse = Queue
  /\ tab = "sending"
  /\ click = 0
  /\ start = 0
  /\ latest = 0
  /\ last = 0
  /\ reconnects = 0
  /\ poll = NoPoll
  /\ applied = {}
  /\ interrupted = FALSE

(***************************************************************************)
(* The backend.                                                            *)
(***************************************************************************)

\* An event is persisted and, unless a decide request wrote it, announced: the
\* generation a reader compares with is no longer the current one. A change of
\* status goes with it or not, in one step when no await lies between.
Persist(w, s) ==
  /\ Len(log) < MaxEvents
  /\ w = "producer" => producing
  /\ log' = Append(log, w)
  /\ status' = s
  /\ sse' = [sse EXCEPT !.moved = @ \/ (sse.kind = "reader" /\ w # "request")]
  /\ UNCHANGED <<producing, locked, tab, click, start, latest, last, reconnects,
                 poll, applied, interrupted>>

\* A status without an event: the gateway pauses the Run before the event of
\* the approval is persisted, a decision puts it back to running, a new message
\* supersedes it, a failed decision ends it.
ChangeStatus(s) ==
  /\ s # status
  /\ status' = s
  /\ UNCHANGED <<log, producing, locked, sse, tab, click, start, latest, last,
                 reconnects, poll, applied, interrupted>>

ProducerEnds ==
  /\ producing
  /\ producing' = FALSE
  /\ UNCHANGED <<log, status, locked, sse, tab, click, start, latest, last,
                 reconnects, poll, applied, interrupted>>

\* The resume of a Run takes its condition and keeps it over the whole rest of
\* the Run, its model and agent calls included.
ResumeLocks ==
  /\ ~locked
  /\ locked' = TRUE
  /\ UNCHANGED <<log, status, producing, sse, tab, click, start, latest, last,
                 reconnects, poll, applied, interrupted>>

ResumeUnlocks ==
  /\ locked
  /\ locked' = FALSE
  /\ UNCHANGED <<log, status, producing, sse, tab, click, start, latest, last,
                 reconnects, poll, applied, interrupted>>

(***************************************************************************)
(* The two kinds of answer of POST /api/runs/stream.                       *)
(***************************************************************************)

\* Mutant of LatestAfter: the position is overwritten, not raised.
LatestAfterOverwritten(s) == s

\* deliver in catchUpAndStreamRun.
LatestAfter(s) == Upto(latest, s)

\* The tab takes an event from its connection.
Receive(s) ==
  /\ applied' = applied \cup {s}
  /\ last' = Upto(last, s)
  /\ latest' = IF tab = "following" THEN LatestAfter(s) ELSE latest
  /\ UNCHANGED <<log, status, producing, locked, tab, click, start, reconnects,
                 poll, interrupted>>

\* What the queue still holds for this connection.
Queued == {i \in 1..Len(log) : log[i] = "producer" /\ i > sse.cursor}

QueueSends(s) ==
  /\ sse.kind = "first"
  /\ s \in Queued
  /\ \A i \in Queued : s <= i
  /\ sse' = [sse EXCEPT !.cursor = s]
  /\ Receive(s)

QueueCloses ==
  /\ sse.kind = "first"
  /\ Queued = {}
  /\ ~producing
  /\ sse' = Done
  /\ UNCHANGED <<backend, tab, click, start, latest, last, reconnects, poll,
                 applied, interrupted>>

\* After the events it has read, the reader reads the status. It stops unless
\* the Run is running; it lists again at once when an event was announced since
\* it took its generation, and waits otherwise.
AfterBatch ==
  IF status # "running" THEN Done
  ELSE IF sse.moved THEN Reader(sse.cursor)
  ELSE [sse EXCEPT !.at = "wait"]

\* The events after the cursor, read in one query. When there are none, the
\* status is read in the same step.
ReaderLists ==
  /\ sse.kind = "reader"
  /\ sse.at = "list"
  /\ sse' = IF sse.cursor < Len(log)
            THEN [sse EXCEPT !.at = "send", !.upto = Len(log)]
            ELSE AfterBatch
  /\ UNCHANGED <<backend, tab, click, start, latest, last, reconnects, poll,
                 applied, interrupted>>

\* Every yield is an await.
ReaderSends ==
  /\ sse.kind = "reader"
  /\ sse.at = "send"
  /\ sse.cursor < sse.upto
  /\ sse' = [sse EXCEPT !.cursor = @ + 1]
  /\ Receive(sse.cursor + 1)

ReaderChecks ==
  /\ sse.kind = "reader"
  /\ sse.at = "send"
  /\ sse.cursor >= sse.upto
  /\ sse' = AfterBatch
  /\ UNCHANGED <<backend, tab, click, start, latest, last, reconnects, poll,
                 applied, interrupted>>

\* Mutant of MayWake: only a notification ends the wait.
MayWakeNotified == ~locked /\ sse.moved

\* The wait ends by a notification or after its timeout, but not while the
\* condition is held by a resume, since leaving the wait takes it again.
MayWake == ~locked

ReaderWakes ==
  /\ sse.kind = "reader"
  /\ sse.at = "wait"
  /\ MayWake
  /\ sse' = Reader(sse.cursor)
  /\ UNCHANGED <<backend, tab, click, start, latest, last, reconnects, poll,
                 applied, interrupted>>

(***************************************************************************)
(* The tab.                                                                *)
(***************************************************************************)

\* Mutant of ReconnectCursor: the server's cursor taken for inclusive.
ReconnectCursorInclusive == last + 1

\* after_sequence of a reconnection, which is exclusive.
ReconnectCursor == last

\* Mutant of MayReconnect: off by one.
MayReconnectOnceMore == reconnects <= MaxReconnects

MayReconnect == reconnects < MaxReconnects

\* streamRun has returned or thrown, and its locals are gone.
EndStream == sse' = NoSse /\ last' = 0 /\ reconnects' = 0

\* What comes after it: catchUpAndStreamRun polls once more, but its poll returns
\* at once when an earlier one is still on its way.
AfterStream ==
  IF tab = "following" /\ ~poll.on
  THEN /\ tab' = "finishing"
       /\ poll' = [on |-> TRUE, from |-> latest, upto |-> Len(log)]
  ELSE /\ tab' = "idle"
       /\ UNCHANGED poll

\* The connection breaks, before or after the first event, and streamRun posts
\* again. A request without run_id is a new command, so that without an event
\* received so far the tab is from now on shown another Run.
Reconnect ==
  /\ sse.kind # "none"
  /\ MayReconnect
  /\ reconnects' = reconnects + 1
  /\ IF last = 0
     THEN sse' = NoSse /\ tab' = "strayed"
     ELSE sse' = Reader(ReconnectCursor) /\ UNCHANGED tab
  /\ UNCHANGED <<backend, click, start, latest, last, poll, applied, interrupted>>

\* The connection breaks for the last time, or the answer is an error, which is
\* not retried. Only send leaves a local event.
GiveUp ==
  /\ sse.kind # "none"
  /\ EndStream
  /\ AfterStream
  /\ interrupted' = (interrupted \/ tab = "sending")
  /\ UNCHANGED <<backend, click, start, latest, applied>>

\* The stream has been read to its end.
Complete ==
  /\ sse.kind = "done"
  /\ EndStream
  /\ AfterStream
  /\ UNCHANGED <<backend, click, start, latest, applied, interrupted>>

\* The user cancels the Run, or does what aborts the stream without a cancel: a
\* new conversation, a decision, leaving the page. A poll on its way is not
\* aborted. The local event of a cancel follows the abort.
Abort(cancels) ==
  /\ tab # "strayed"
  /\ tab \in {"idle", "finishing"} => cancels
  /\ cancels => applied # {}
  /\ tab' = "idle"
  /\ EndStream
  /\ interrupted' = (interrupted \/ cancels)
  /\ UNCHANGED <<backend, click, start, latest, poll, applied>>

\* The cursor of followRun: the greatest sequence number in rawEvents.
IsRawMax(c) ==
  IF interrupted THEN c = Far
  ELSE c \in applied /\ \A s \in applied : s <= c

\* The user decides on an approval in this tab. The handler keeps the state of
\* the render it was made in. An auto Run goes back to running at once.
Decide(c, s) ==
  /\ tab # "strayed"
  /\ status = "approval_required"
  /\ click = 0
  /\ applied # {}
  /\ IsRawMax(c)
  /\ click' = c
  /\ s \in {"running", status}
  /\ status' = s
  /\ UNCHANGED <<log, producing, locked, sse, tab, start, latest, last, reconnects,
                 poll, applied, interrupted>>

\* The decide request has been answered and the stream of before is aborted:
\* followRun, with its first poll. Polls of an earlier follow are over.
FollowRun ==
  /\ click # 0
  /\ tab = "idle"
  /\ ~poll.on
  /\ click' = 0
  /\ start' = click
  /\ latest' = click
  /\ poll' = [on |-> TRUE, from |-> click, upto |-> Len(log)]
  /\ tab' = "catching_up"
  /\ UNCHANGED <<backend, sse, last, reconnects, applied, interrupted>>

\* Mutant of MayPoll: there is no interval timer.
MayPollNever == FALSE

\* The interval timer; the polling flag keeps a second poll from starting.
MayPoll == tab = "following" /\ ~poll.on

IntervalPoll ==
  /\ MayPoll
  /\ poll' = [on |-> TRUE, from |-> latest, upto |-> Len(log)]
  /\ UNCHANGED <<backend, sse, tab, click, start, latest, last, reconnects, applied,
                 interrupted>>

\* Mutant of StreamFrom: the stream of a follow is opened at the end of the log.
StreamFromNow(reached) == Len(log)

\* after_sequence of the stream that a follow opens after its first poll.
StreamFrom(reached) == reached

\* What follows on the poll that catchUpAndStreamRun awaits: the first one opens
\* the stream, the last one ends the follow.
AfterPoll(reached) ==
  CASE tab = "catching_up" -> tab' = "following" /\ sse' = Reader(StreamFrom(reached))
    [] tab = "finishing"   -> tab' = "idle" /\ UNCHANGED sse
    [] OTHER               -> UNCHANGED <<tab, sse>>

\* The answer of a poll is applied event by event, without an await.
PollAnswered ==
  LET reached == Upto(latest, poll.upto)
  IN /\ poll.on
     /\ tab # "strayed"
     /\ applied' = applied \cup (poll.from + 1)..poll.upto
     /\ latest' = reached
     /\ poll' = NoPoll
     /\ AfterPoll(reached)
     /\ UNCHANGED <<backend, click, start, last, reconnects, interrupted>>

PollFails ==
  /\ poll.on
  /\ poll' = NoPoll
  /\ tab' = IF tab \in {"catching_up", "finishing"} THEN "idle" ELSE tab
  /\ UNCHANGED <<backend, sse, click, start, latest, last, reconnects, applied,
                 interrupted>>

-----------------------------------------------------------------------------
Backend ==
  \/ \E w \in Writers, s \in Statuses : Persist(w, s)
  \/ \E s \in Statuses : ChangeStatus(s)
  \/ ProducerEnds
  \/ ResumeLocks
  \/ ResumeUnlocks

Serve ==
  \/ \E s \in 1..MaxEvents : QueueSends(s)
  \/ QueueCloses
  \/ ReaderLists
  \/ ReaderSends
  \/ ReaderChecks
  \/ ReaderWakes

Next ==
  \/ Backend
  \/ Serve
  \/ Reconnect
  \/ GiveUp
  \/ Complete
  \/ \E cancels \in BOOLEAN : Abort(cancels)
  \/ \E c \in Sequence, s \in Statuses : Decide(c, s)
  \/ FollowRun
  \/ IntervalPoll
  \/ PollAnswered
  \/ PollFails

Spec == Init /\ [][Next]_vars

\* The server's tasks and the tab's run when they are ready, and the timer of
\* the polls keeps firing; some of the polls are answered, however many fail.
\* The Run itself, its resume and the user owe nothing.
Fairness ==
  /\ WF_vars(Serve)
  /\ WF_vars(Complete)
  /\ WF_vars(IntervalPoll)
  /\ SF_vars(PollAnswered)

FairSpec == Spec /\ Fairness

-----------------------------------------------------------------------------
TypeOK ==
  /\ log \in Seq(Writers)
  /\ Len(log) <= MaxEvents
  /\ status \in Statuses
  /\ producing \in BOOLEAN
  /\ locked \in BOOLEAN
  /\ sse \in Connections
  /\ tab \in {"sending", "catching_up", "following", "finishing", "idle", "strayed"}
  /\ click \in Sequence
  /\ start \in Sequence
  /\ latest \in Sequence
  /\ last \in Sequence
  /\ reconnects \in 0..MaxReconnects
  /\ poll \in Polls
  /\ applied \subseteq 1..MaxEvents
  /\ interrupted \in BOOLEAN

\* Between the cursor a follow started from and the position it has reached
\* (and reconnects and polls from) no event is missing, although the stream,
\* its reconnection and the polls deliver side by side (runStream.js,
\* catchUpAndStreamRun).
FollowLeavesNoGap ==
  \A s \in 1..Len(log) : s > start /\ s <= latest => s \in applied

\* While a message is being sent, what is missing before the cursor that a
\* reconnection would use was not written by the producer of the Run
\* (api/runs.py, the queue of the first request; runStream.js, lastSequence).
SendMissesNoProducerEvent ==
  tab = "sending" =>
    \A s \in 1..Len(log) : s <= last /\ log[s] = "producer" => s \in applied

\* A follow that lags behind the log catches up with all of it (a log is finite),
\* even when the live stream is held up by a resume that keeps the condition of
\* the Run (runStream.js, the interval poll beside the stream).
Behind == tab = "following" /\ \E s \in (start + 1)..Len(log) : s \notin applied
FollowShowsEveryEvent == Behind ~> ~Behind

\* The stream of a Run that has ended comes to its end too, without a
\* notification and whatever order event, status and reader came in, unless a
\* resume still has the condition or the Run is revived (api/runs.py,
\* event_stream; service.py, wait_for_events).
Streaming == tab \in {"sending", "following"}
StreamEndsWithRun ==
  (Streaming /\ status = "closed" /\ ~producing)
    ~> (~Streaming \/ status # "closed" \/ locked)

\* What a follow promises, whichever way the events take.
Feed == INSTANCE EventFeed WITH
  end <- Len(log),
  shown <- applied,
  position <- latest,
  following <- tab \in {"catching_up", "following"}
ShowsTheLogInOrder == Feed!Spec
=============================================================================
