--------------------------- MODULE RunStream_proofs ---------------------------
(***************************************************************************)
(* Theorems about RunStream, for a log of any length and any number of     *)
(* reconnections.                                                          *)
(***************************************************************************)
EXTENDS RunStream, TLAPS

\* Where the cursors are. last, the server's cursor, the position of the follow
\* and the bounds of a poll never get ahead of the log or apart from each other;
\* only the cursor that a local event made unreachable is beyond its end.
Cursors ==
  /\ last <= Len(log)
  /\ applied \subseteq 1..Len(log)
  /\ poll.upto <= Len(log)
  /\ sse.upto <= Len(log)
  /\ start <= latest
  /\ latest <= Len(log) \/ latest = start
  /\ poll.on => start <= poll.from /\ poll.from <= latest
  /\ sse.kind # "none" => tab \in {"sending", "following"}
  /\ sse.kind = "first" => tab = "sending"
  /\ (tab = "sending" /\ sse.kind \in {"first", "reader"}) => sse.cursor = last
  /\ (tab = "following" /\ sse.kind = "reader")
       => start <= sse.cursor /\ sse.cursor <= latest
  /\ tab = "following" => last = 0 \/ (start <= last /\ last <= latest)
  /\ tab \in {"catching_up", "finishing", "idle"} => last = 0

StreamInv == TypeOK /\ Cursors /\ FollowLeavesNoGap /\ SendMissesNoProducerEvent

-----------------------------------------------------------------------------
(***************************************************************************)
(* Type correctness.                                                       *)
(***************************************************************************)

\* The greater of two sequence numbers is one, and is not less than either.
LEMMA UptoType ==
  \A a, b \in Sequence : /\ Upto(a, b) \in Sequence
                         /\ Upto(a, b) \in {a, b}
                         /\ a <= Upto(a, b) /\ b <= Upto(a, b)
BY BoundsOK DEF Upto, Sequence, Far

\* Sequence numbers are natural numbers, and those of the log are below Far.
LEMMA LogType ==
  ASSUME TypeOK
  PROVE  /\ Sequence \subseteq Nat
         /\ Len(log) \in Nat
         /\ Len(log) \in Sequence
         /\ Len(log) < Far
         /\ 0 \in Sequence
         /\ 1..Len(log) \subseteq 1..MaxEvents
         /\ 1..Len(log) \subseteq Sequence
BY BoundsOK DEF TypeOK, Sequence, Far

\* A connection that starts at a sequence number is one.
LEMMA ReaderType ==
  ASSUME NEW c \in Sequence
  PROVE  /\ NoSse \in Connections
         /\ Queue \in Connections
         /\ Done \in Connections
         /\ Reader(c) \in Connections
<1>1. 0 \in Sequence
  BY BoundsOK DEF Sequence, Far
<1>2. NoSse \in Connections
  BY <1>1 DEF NoSse, Connections
<1> QED BY <1>2 DEF Queue, Done, Reader, Connections

\* Receiving an event of the log keeps the types.
LEMMA ReceiveType ==
  ASSUME TypeOK, NEW s \in 1..Len(log), Receive(s), NEW c \in Sequence,
         sse' = [sse EXCEPT !.cursor = c]
  PROVE  TypeOK'
<1>1. s \in Sequence /\ s \in 1..MaxEvents
  BY LogType
<1>2. last' \in Sequence /\ latest' \in Sequence
  BY <1>1, UptoType DEF Receive, TypeOK, LatestAfter
<1>3. applied' \subseteq 1..MaxEvents
  BY <1>1 DEF Receive, TypeOK
<1> QED BY <1>2, <1>3 DEF Receive, TypeOK, Connections, Polls

\* What a reader does after a batch is a state of a connection.
LEMMA AfterBatchType ==
  ASSUME TypeOK, sse' = AfterBatch,
         UNCHANGED <<backend, tab, click, start, latest, last, reconnects, poll,
                     applied, interrupted>>
  PROVE  TypeOK'
<1>1. sse.cursor \in Sequence
  BY DEF TypeOK, Connections, Polls
<1>2. sse' \in Connections
  BY <1>1, ReaderType DEF AfterBatch, TypeOK, Connections, Polls
<1> QED BY <1>2 DEF TypeOK, backend

\* What is left when streamRun is over, and the poll that may follow.
LEMMA AfterStreamType ==
  ASSUME TypeOK, EndStream, AfterStream,
         UNCHANGED <<backend, click, start, latest, applied>>,
         interrupted' \in BOOLEAN
  PROVE  TypeOK'
<1>1. 0 \in Sequence /\ Len(log) \in Sequence
  BY LogType
<1>2. sse' \in Connections
  BY <1>1, ReaderType DEF EndStream
<1>3. poll' \in Polls
  <2>1. latest \in Sequence /\ poll \in Polls
    BY DEF TypeOK
  <2>2. [on |-> TRUE, from |-> latest, upto |-> Len(log)] \in Polls
    BY <1>1, <2>1 DEF Polls
  <2> QED BY <2>1, <2>2 DEF AfterStream
<1>4. last' \in Sequence /\ reconnects' \in 0..MaxReconnects
  BY <1>1, BoundsOK DEF EndStream
<1>5. tab' \in {"idle", "finishing"}
  BY DEF AfterStream
<1> QED BY <1>2, <1>3, <1>4, <1>5 DEF TypeOK, backend

\* A step of the backend keeps the types.
LEMMA BackendType ==
  ASSUME TypeOK, Backend
  PROVE  TypeOK'
<1>1. ASSUME NEW w \in Writers, NEW s \in Statuses, Persist(w, s) PROVE TypeOK'
  <2>1. log' \in Seq(Writers) /\ Len(log') <= MaxEvents
    BY <1>1, BoundsOK DEF Persist, TypeOK
  <2>2. sse' \in Connections
    BY <1>1 DEF Persist, TypeOK, Connections, Polls
  <2> QED BY <1>1, <2>1, <2>2 DEF Persist, TypeOK
<1>2. ASSUME NEW s \in Statuses, ChangeStatus(s) PROVE TypeOK'
  BY <1>2 DEF ChangeStatus, TypeOK
<1>3. ASSUME ProducerEnds \/ ResumeLocks \/ ResumeUnlocks PROVE TypeOK'
  BY <1>3 DEF ProducerEnds, ResumeLocks, ResumeUnlocks, TypeOK
<1> QED BY <1>1, <1>2, <1>3 DEF Backend

\* A step of the server keeps the types.
LEMMA ServeType ==
  ASSUME TypeOK, Cursors, Serve
  PROVE  TypeOK'
<1>1. ASSUME NEW s \in 1..MaxEvents, QueueSends(s) PROVE TypeOK'
  <2>1. s \in 1..Len(log)
    BY <1>1 DEF QueueSends, Queued
  <2>2. s \in Sequence
    BY <2>1, LogType
  <2> QED BY <1>1, <2>1, <2>2, ReceiveType DEF QueueSends
<1>2. ASSUME QueueCloses PROVE TypeOK'
  <2>1. 0 \in Sequence
    BY LogType
  <2> QED BY <1>2, <2>1, ReaderType DEF QueueCloses, TypeOK, backend
<1>3. ASSUME ReaderLists PROVE TypeOK'
  <2>1. CASE sse.cursor < Len(log)
    BY <1>3, <2>1, LogType DEF ReaderLists, TypeOK, backend, Connections, Polls
  <2>2. CASE ~(sse.cursor < Len(log))
    BY <1>3, <2>2, AfterBatchType DEF ReaderLists
  <2> QED BY <2>1, <2>2
<1>4. ASSUME ReaderSends PROVE TypeOK'
  <2>1. sse.cursor + 1 \in 1..Len(log)
    BY <1>4, LogType DEF ReaderSends, TypeOK, Cursors, Connections, Polls
  <2>2. sse.cursor + 1 \in Sequence
    BY <2>1, LogType
  <2>3. sse' = [sse EXCEPT !.cursor = sse.cursor + 1]
    BY <1>4 DEF ReaderSends
  <2> QED BY <1>4, <2>1, <2>2, <2>3, ReceiveType DEF ReaderSends
<1>5. ASSUME ReaderChecks PROVE TypeOK'
  BY <1>5, AfterBatchType DEF ReaderChecks
<1>6. ASSUME ReaderWakes PROVE TypeOK'
  <2>1. sse.cursor \in Sequence
    BY DEF TypeOK, Connections, Polls
  <2> QED BY <1>6, <2>1, ReaderType DEF ReaderWakes, TypeOK, backend
<1> QED BY <1>1, <1>2, <1>3, <1>4, <1>5, <1>6 DEF Serve

\* A step of the tab keeps the types.
LEMMA TabType ==
  ASSUME TypeOK, Cursors, Next, ~Backend, ~Serve
  PROVE  TypeOK'
<1> USE DEF backend
<1>0. 0 \in Sequence /\ Len(log) \in Sequence
  BY LogType
<1>1. ASSUME Reconnect PROVE TypeOK'
  <2>1. ReconnectCursor \in Sequence
    BY DEF ReconnectCursor, TypeOK
  <2>2. sse' \in Connections
    BY <1>1, <2>1, ReaderType DEF Reconnect
  <2>3. reconnects' \in 0..MaxReconnects
    BY <1>1, BoundsOK DEF Reconnect, MayReconnect, TypeOK
  <2> QED BY <1>1, <2>2, <2>3 DEF Reconnect, TypeOK
<1>2. ASSUME GiveUp PROVE TypeOK'
  <2>1. interrupted' \in BOOLEAN
    BY <1>2 DEF GiveUp, TypeOK
  <2> QED BY <1>2, <2>1, AfterStreamType DEF GiveUp
<1>3. ASSUME Complete PROVE TypeOK'
  <2>1. interrupted' \in BOOLEAN
    BY <1>3 DEF Complete, TypeOK
  <2> QED BY <1>3, <2>1, AfterStreamType DEF Complete
<1>4. ASSUME NEW cancels \in BOOLEAN, Abort(cancels) PROVE TypeOK'
  <2>1. interrupted' \in BOOLEAN
    BY <1>4 DEF Abort, TypeOK
  <2>2. sse' \in Connections
    BY <1>0, <1>4, ReaderType DEF Abort, EndStream
  <2> QED BY <1>0, <1>4, <2>1, <2>2, BoundsOK DEF Abort, EndStream, TypeOK
<1>5. ASSUME NEW c \in Sequence, NEW s \in Statuses, Decide(c, s) PROVE TypeOK'
  BY <1>5 DEF Decide, TypeOK
<1>6. ASSUME FollowRun PROVE TypeOK'
  BY <1>0, <1>6 DEF FollowRun, TypeOK, Connections, Polls
<1>7. ASSUME IntervalPoll PROVE TypeOK'
  BY <1>0, <1>7 DEF IntervalPoll, TypeOK, Connections, Polls
<1>8. ASSUME PollFails PROVE TypeOK'
  BY <1>0, <1>8 DEF PollFails, NoPoll, TypeOK, Connections, Polls
<1>9. ASSUME PollAnswered PROVE TypeOK'
  <2> DEFINE reached == Upto(latest, poll.upto)
  <2>1. poll.from \in Nat /\ poll.upto \in Sequence /\ poll.upto <= Len(log)
    BY LogType DEF TypeOK, Polls, Cursors
  <2>2. reached \in Sequence
    BY <2>1, UptoType DEF TypeOK
  <2>3. (poll.from + 1)..poll.upto \subseteq 1..MaxEvents
    BY <2>1, LogType DEF TypeOK
  <2>4. StreamFrom(reached) \in Sequence
    BY <2>2 DEF StreamFrom
  <2>5. sse' \in Connections /\ tab' \in {tab, "following", "idle"}
    BY <1>9, <2>4, ReaderType DEF PollAnswered, AfterPoll, TypeOK
  <2>6. poll' \in Polls
    BY <1>0, <1>9 DEF PollAnswered, NoPoll, Polls
  <2> QED BY <1>9, <2>2, <2>3, <2>5, <2>6 DEF PollAnswered, TypeOK
<1> QED
  BY <1>1, <1>2, <1>3, <1>4, <1>5, <1>6, <1>7, <1>8, <1>9 DEF Next

-----------------------------------------------------------------------------
(***************************************************************************)
(* The cursors, and what is shown before them.                             *)
(***************************************************************************)

\* Facts about the numbers that every step below needs.
LEMMA Numbers ==
  ASSUME TypeOK
  PROVE  /\ Len(log) \in Nat /\ Far \in Nat
         /\ last \in Nat /\ start \in Nat /\ latest \in Nat /\ click \in Nat
         /\ sse.cursor \in Nat /\ sse.upto \in Nat
         /\ poll.from \in Nat /\ poll.upto \in Nat /\ poll.on \in BOOLEAN
BY LogType, BoundsOK DEF TypeOK, Connections, Polls, Far

\* Persisting an event moves the end of the log away from every cursor.
LEMMA BackendInv ==
  ASSUME StreamInv, Backend
  PROVE  Cursors' /\ FollowLeavesNoGap' /\ SendMissesNoProducerEvent'
<1> USE Numbers DEF StreamInv
<1>1. ASSUME NEW w \in Writers, NEW s \in Statuses, Persist(w, s)
      PROVE  Cursors' /\ FollowLeavesNoGap' /\ SendMissesNoProducerEvent'
  <2>1. /\ Len(log') = Len(log) + 1
        /\ \A i \in 1..Len(log) : log'[i] = log[i]
    BY <1>1 DEF Persist, TypeOK
  <2>2. /\ sse'.kind = sse.kind /\ sse'.cursor = sse.cursor /\ sse'.upto = sse.upto
        /\ UNCHANGED <<tab, start, latest, last, poll, applied>>
    BY <1>1 DEF Persist, TypeOK, Connections
  <2>3. Cursors'
    BY <2>1, <2>2 DEF Cursors
  <2>4. FollowLeavesNoGap'
    BY <2>1, <2>2 DEF FollowLeavesNoGap, Cursors
  <2>5. ASSUME tab = "sending", NEW i \in 1..Len(log'), i <= last, log'[i] = "producer"
        PROVE  i \in applied
    <3>1. i \in 1..Len(log)
      BY <2>1, <2>5 DEF Cursors
    <3>2. log[i] = "producer"
      BY <2>1, <2>5, <3>1
    <3> QED BY <2>5, <3>1, <3>2 DEF SendMissesNoProducerEvent
  <2>6. SendMissesNoProducerEvent'
    BY <2>2, <2>5 DEF SendMissesNoProducerEvent
  <2> QED BY <2>3, <2>4, <2>6
<1>2. ASSUME UNCHANGED <<log, sse, tab, start, latest, last, poll, applied>>
      PROVE  Cursors' /\ FollowLeavesNoGap' /\ SendMissesNoProducerEvent'
  BY <1>2 DEF Cursors, FollowLeavesNoGap, SendMissesNoProducerEvent
<1>3. ASSUME NEW s \in Statuses, ChangeStatus(s)
      PROVE  UNCHANGED <<log, sse, tab, start, latest, last, poll, applied>>
  BY <1>3 DEF ChangeStatus
<1>4. ASSUME ProducerEnds \/ ResumeLocks \/ ResumeUnlocks
      PROVE  UNCHANGED <<log, sse, tab, start, latest, last, poll, applied>>
  BY <1>4 DEF ProducerEnds, ResumeLocks, ResumeUnlocks
<1> QED BY <1>1, <1>2, <1>3, <1>4 DEF Backend

\* An event received in a follow is the next one of the position, or one that
\* is shown already.
LEMMA ReceiveInFollow ==
  ASSUME StreamInv, tab = "following", NEW s \in 1..Len(log), Receive(s),
         start < s, s <= latest + 1
  PROVE  /\ latest' = IF s <= latest THEN latest ELSE s
         /\ s <= latest => applied' = applied
         /\ latest' \in Nat /\ s <= latest'
<1> USE Numbers DEF StreamInv
<1>1. latest' = IF s <= latest THEN latest ELSE s
  BY DEF Receive, LatestAfter, Upto
<1>2. s <= latest => s \in applied
  BY DEF FollowLeavesNoGap
<1> QED BY <1>1, <1>2 DEF Receive

\* A step of the server.
LEMMA ServeInv ==
  ASSUME StreamInv, Serve
  PROVE  Cursors' /\ FollowLeavesNoGap' /\ SendMissesNoProducerEvent'
<1> USE Numbers DEF StreamInv
<1>1. ASSUME NEW s \in 1..MaxEvents, QueueSends(s)
      PROVE  Cursors' /\ FollowLeavesNoGap' /\ SendMissesNoProducerEvent'
  <2>1. /\ s \in 1..Len(log) /\ s > sse.cursor /\ log[s] = "producer"
        /\ \A i \in 1..Len(log) : log[i] = "producer" /\ i > sse.cursor => s <= i
    BY <1>1 DEF QueueSends, Queued
  <2>2. tab = "sending" /\ sse.cursor = last /\ sse.kind = "first"
    BY <1>1 DEF QueueSends, Cursors
  <2>3. /\ last' = s /\ latest' = latest /\ applied' = applied \cup {s}
        /\ UNCHANGED <<log, tab, start, poll>>
    BY <1>1, <2>1, <2>2 DEF QueueSends, Receive, Upto
  <2>4. sse'.kind = "first" /\ sse'.cursor = s /\ sse'.upto = sse.upto
    BY <1>1, <2>2 DEF QueueSends, TypeOK, Connections
  <2>5. Cursors'
    BY <2>1, <2>2, <2>3, <2>4 DEF Cursors
  <2>6. FollowLeavesNoGap'
    BY <2>3 DEF FollowLeavesNoGap
  <2>7. SendMissesNoProducerEvent'
    BY <2>1, <2>2, <2>3 DEF SendMissesNoProducerEvent
  <2> QED BY <2>5, <2>6, <2>7
<1>2. ASSUME NEW k \in {"reader", "done"},
             sse' \in Connections, sse'.kind = k, sse'.upto <= Len(log),
             k = "reader" => sse.kind = "reader" /\ sse'.cursor = sse.cursor,
             sse.kind # "none",
             UNCHANGED <<backend, tab, start, latest, last, poll, applied>>
      PROVE  Cursors' /\ FollowLeavesNoGap' /\ SendMissesNoProducerEvent'
  <2>1. Cursors'
    BY <1>2 DEF Cursors, backend
  <2>2. FollowLeavesNoGap' /\ SendMissesNoProducerEvent'
    BY <1>2 DEF FollowLeavesNoGap, SendMissesNoProducerEvent, backend
  <2> QED BY <2>1, <2>2
<1>3. ASSUME QueueCloses
      PROVE  Cursors' /\ FollowLeavesNoGap' /\ SendMissesNoProducerEvent'
  <2>1. sse' \in Connections /\ sse'.kind = "done" /\ sse'.upto = 0
    BY <1>3, LogType, ReaderType DEF QueueCloses, Done, NoSse
  <2> QED BY <1>2, <1>3, <2>1 DEF QueueCloses
<1>4. ASSUME sse.kind = "reader", sse' = AfterBatch,
             UNCHANGED <<backend, tab, start, latest, last, poll, applied>>
      PROVE  Cursors' /\ FollowLeavesNoGap' /\ SendMissesNoProducerEvent'
  <2>1. CASE sse' = Done
    <3>1. sse' \in Connections /\ sse'.kind = "done" /\ sse'.upto = 0
      BY <2>1, LogType, ReaderType DEF Done, NoSse
    <3> QED BY <1>2, <1>4, <3>1
  <2>2. CASE sse' = Reader(sse.cursor)
    <3>1. /\ sse' \in Connections /\ sse'.kind = "reader"
          /\ sse'.upto = 0 /\ sse'.cursor = sse.cursor
      BY <2>2, ReaderType DEF Reader, NoSse, TypeOK, Connections
    <3> QED BY <1>2, <1>4, <3>1
  <2>3. CASE sse' = [sse EXCEPT !.at = "wait"]
    <3>1. /\ sse' \in Connections /\ sse'.kind = "reader"
          /\ sse'.upto = sse.upto /\ sse'.cursor = sse.cursor
      BY <1>4, <2>3 DEF TypeOK, Connections
    <3> QED BY <1>2, <1>4, <3>1 DEF Cursors
  <2> QED BY <1>4, <2>1, <2>2, <2>3 DEF AfterBatch
<1>5. ASSUME ReaderLists
      PROVE  Cursors' /\ FollowLeavesNoGap' /\ SendMissesNoProducerEvent'
  <2>1. CASE sse.cursor < Len(log)
    <3>1. /\ sse' \in Connections /\ sse'.kind = "reader"
          /\ sse'.upto = Len(log) /\ sse'.cursor = sse.cursor
      BY <1>5, <2>1, LogType DEF ReaderLists, TypeOK, Connections
    <3> QED BY <1>2, <1>5, <3>1 DEF ReaderLists
  <2>2. CASE ~(sse.cursor < Len(log))
    BY <1>4, <1>5, <2>2 DEF ReaderLists
  <2> QED BY <2>1, <2>2
<1>6. ASSUME ReaderChecks
      PROVE  Cursors' /\ FollowLeavesNoGap' /\ SendMissesNoProducerEvent'
  BY <1>4, <1>6 DEF ReaderChecks
<1>7. ASSUME ReaderWakes
      PROVE  Cursors' /\ FollowLeavesNoGap' /\ SendMissesNoProducerEvent'
  <2>1. /\ sse' \in Connections /\ sse'.kind = "reader"
        /\ sse'.upto = 0 /\ sse'.cursor = sse.cursor
    BY <1>7, ReaderType DEF ReaderWakes, Reader, NoSse, TypeOK, Connections
  <2> QED BY <1>2, <1>7, <2>1 DEF ReaderWakes
<1>8. ASSUME ReaderSends
      PROVE  Cursors' /\ FollowLeavesNoGap' /\ SendMissesNoProducerEvent'
  <2> DEFINE s == sse.cursor + 1
  <2>1. s \in 1..Len(log) /\ Receive(s) /\ sse.kind = "reader"
    BY <1>8 DEF ReaderSends, Cursors
  <2>2. sse'.kind = "reader" /\ sse'.cursor = s /\ sse'.upto = sse.upto
    BY <1>8 DEF ReaderSends, TypeOK, Connections
  <2>3. /\ applied' = applied \cup {s} /\ last' = Upto(last, s)
        /\ applied' \subseteq 1..Len(log)
        /\ UNCHANGED <<log, tab, start, poll>>
    BY <2>1 DEF Receive, Cursors
  <2>4. CASE tab = "sending"
    <3>1. s = last + 1 /\ last' = s /\ latest' = latest
      BY <2>1, <2>4 DEF Cursors, Receive, Upto
    <3>2. Cursors'
      <4> HIDE DEF s
      <4> QED BY <2>1, <2>2, <2>3, <2>4, <3>1 DEF Cursors
    <3>3. FollowLeavesNoGap' /\ SendMissesNoProducerEvent'
      BY <2>1, <2>3, <2>4, <3>1 DEF FollowLeavesNoGap, SendMissesNoProducerEvent
    <3> QED BY <3>2, <3>3
  <2>5. CASE tab = "following"
    <3>1. start < s /\ s <= latest + 1
      BY <2>1, <2>5 DEF Cursors
    <3>2. /\ latest' = IF s <= latest THEN latest ELSE s
          /\ latest' \in Nat /\ s <= latest'
      BY <2>1, <2>5, <3>1, ReceiveInFollow
    <3>3. last' \in {last, s} /\ s <= last'
      BY <2>3 DEF Upto
    <3>4. Cursors'
      <4> HIDE DEF s
      <4> QED BY <2>1, <2>2, <2>3, <2>5, <3>1, <3>2, <3>3 DEF Cursors
    <3>5. FollowLeavesNoGap' /\ SendMissesNoProducerEvent'
      BY <2>1, <2>3, <2>5, <3>1, <3>2 DEF FollowLeavesNoGap, SendMissesNoProducerEvent
    <3> QED BY <3>4, <3>5
  <2> QED BY <2>1, <2>4, <2>5 DEF Cursors
<1> QED BY <1>1, <1>3, <1>5, <1>6, <1>7, <1>8 DEF Serve

\* What is left when streamRun is over.
LEMMA AfterStreamInv ==
  ASSUME StreamInv, EndStream, AfterStream,
         UNCHANGED <<backend, start, latest, applied>>
  PROVE  Cursors' /\ FollowLeavesNoGap' /\ SendMissesNoProducerEvent'
<1> USE Numbers DEF StreamInv
<1>1. sse'.kind = "none" /\ sse'.upto = 0 /\ last' = 0
  BY DEF EndStream, NoSse
<1>2. tab' \in {"finishing", "idle"}
  BY DEF AfterStream
<1>3. \/ poll' = poll
      \/ poll'.on /\ poll'.from = latest /\ poll'.upto = Len(log)
  BY DEF AfterStream
<1>4. Cursors'
  BY <1>1, <1>2, <1>3 DEF Cursors, backend
<1>5. FollowLeavesNoGap' /\ SendMissesNoProducerEvent'
  BY <1>2 DEF FollowLeavesNoGap, SendMissesNoProducerEvent, backend
<1> QED BY <1>4, <1>5

\* The answer of a poll closes up to the position, wherever the stream has got
\* to in the meantime.
LEMMA PollShowsTheNext ==
  ASSUME StreamInv, PollAnswered
  PROVE  /\ latest' = IF latest >= poll.upto THEN latest ELSE poll.upto
         /\ latest' \in Nat
         /\ latest >= poll.upto => applied' = applied
         /\ latest < poll.upto =>
              applied' = applied \cup (latest + 1)..poll.upto
<1> USE Numbers DEF StreamInv
<1>1. poll.on /\ start <= poll.from /\ poll.from <= latest /\ poll.upto <= Len(log)
  BY DEF PollAnswered, Cursors
<1>2. latest' = IF latest >= poll.upto THEN latest ELSE poll.upto
  BY DEF PollAnswered, Upto
<1>3. applied' = applied \cup (poll.from + 1)..poll.upto
  BY DEF PollAnswered
<1>4. \A s \in (poll.from + 1)..poll.upto : s <= latest => s \in applied
  BY <1>1 DEF FollowLeavesNoGap
<1>5. latest >= poll.upto => applied' = applied
  BY <1>3, <1>4
<1>6. latest < poll.upto => applied' = applied \cup (latest + 1)..poll.upto
  BY <1>1, <1>3, <1>4
<1> QED BY <1>2, <1>5, <1>6

\* A step of the tab.
LEMMA TabInv ==
  ASSUME StreamInv, Next, ~Backend, ~Serve
  PROVE  Cursors' /\ FollowLeavesNoGap' /\ SendMissesNoProducerEvent'
<1> USE Numbers DEF StreamInv, backend
<1>1. ASSUME Reconnect
      PROVE  Cursors' /\ FollowLeavesNoGap' /\ SendMissesNoProducerEvent'
  <2>1. UNCHANGED <<log, start, latest, last, poll, applied>>
    BY <1>1 DEF Reconnect
  <2>2. CASE last = 0
    <3>1. sse'.kind = "none" /\ sse'.upto = 0 /\ tab' = "strayed"
      BY <1>1, <2>2 DEF Reconnect, NoSse
    <3> QED
      BY <2>1, <3>1 DEF Cursors, FollowLeavesNoGap, SendMissesNoProducerEvent
  <2>3. CASE last # 0
    <3>1. sse'.kind = "reader" /\ sse'.cursor = last /\ sse'.upto = 0 /\ tab' = tab
      BY <1>1, <2>3 DEF Reconnect, Reader, NoSse, ReconnectCursor
    <3>2. tab \in {"sending", "following"}
      BY <1>1 DEF Reconnect, Cursors
    <3>3. Cursors'
      BY <2>1, <2>3, <3>1, <3>2 DEF Cursors
    <3>4. FollowLeavesNoGap' /\ SendMissesNoProducerEvent'
      BY <2>1, <3>1 DEF FollowLeavesNoGap, SendMissesNoProducerEvent
    <3> QED BY <3>3, <3>4
  <2> QED BY <2>2, <2>3
<1>2. ASSUME GiveUp \/ Complete
      PROVE  Cursors' /\ FollowLeavesNoGap' /\ SendMissesNoProducerEvent'
  BY <1>2, AfterStreamInv DEF GiveUp, Complete
<1>3. ASSUME NEW cancels \in BOOLEAN, Abort(cancels)
      PROVE  Cursors' /\ FollowLeavesNoGap' /\ SendMissesNoProducerEvent'
  <2>1. /\ sse'.kind = "none" /\ sse'.upto = 0 /\ last' = 0 /\ tab' = "idle"
        /\ UNCHANGED <<log, start, latest, poll, applied>>
    BY <1>3 DEF Abort, EndStream, NoSse
  <2> QED
    BY <2>1 DEF Cursors, FollowLeavesNoGap, SendMissesNoProducerEvent
<1>4. ASSUME NEW c \in Sequence, NEW s \in Statuses, Decide(c, s)
      PROVE  Cursors' /\ FollowLeavesNoGap' /\ SendMissesNoProducerEvent'
  BY <1>4 DEF Decide, Cursors, FollowLeavesNoGap, SendMissesNoProducerEvent
<1>5. ASSUME FollowRun
      PROVE  Cursors' /\ FollowLeavesNoGap' /\ SendMissesNoProducerEvent'
  <2>1. /\ tab = "idle" /\ tab' = "catching_up"
        /\ start' = click /\ latest' = click
        /\ poll'.from = click /\ poll'.upto = Len(log)
        /\ UNCHANGED <<log, sse, last, applied>>
    BY <1>5 DEF FollowRun
  <2>2. Cursors'
    BY <2>1 DEF Cursors
  <2>3. FollowLeavesNoGap' /\ SendMissesNoProducerEvent'
    BY <2>1 DEF FollowLeavesNoGap, SendMissesNoProducerEvent
  <2> QED BY <2>2, <2>3
<1>6. ASSUME IntervalPoll
      PROVE  Cursors' /\ FollowLeavesNoGap' /\ SendMissesNoProducerEvent'
  <2>1. /\ poll'.from = latest /\ poll'.upto = Len(log)
        /\ UNCHANGED <<log, sse, tab, start, latest, last, applied>>
    BY <1>6 DEF IntervalPoll
  <2> QED
    BY <2>1 DEF Cursors, FollowLeavesNoGap, SendMissesNoProducerEvent
<1>7. ASSUME PollAnswered
      PROVE  Cursors' /\ FollowLeavesNoGap' /\ SendMissesNoProducerEvent'
  <2>1. /\ poll'.on = FALSE /\ poll'.upto = 0 /\ poll.upto <= Len(log)
        /\ UNCHANGED <<log, start, last>>
    BY <1>7 DEF PollAnswered, NoPoll, Cursors
  <2>2. /\ latest' = IF latest >= poll.upto THEN latest ELSE poll.upto
        /\ latest >= poll.upto => applied' = applied
        /\ latest < poll.upto =>
             applied' = applied \cup (latest + 1)..poll.upto
    BY <1>7, PollShowsTheNext
  <2>3. applied' \subseteq 1..Len(log)
    <3>1. applied \subseteq 1..Len(log)
      BY DEF Cursors
    <3>2. (latest + 1)..poll.upto \subseteq 1..Len(log)
      BY <2>1
    <3>3. CASE latest >= poll.upto
      BY <2>2, <3>1, <3>3
    <3>4. CASE latest < poll.upto
      BY <2>2, <3>1, <3>2, <3>4
    <3> QED BY <3>3, <3>4
  <2>4. \/ /\ tab = "catching_up" /\ tab' = "following"
           /\ sse'.kind = "reader" /\ sse'.cursor = latest' /\ sse'.upto = 0
        \/ /\ tab = "finishing" /\ tab' = "idle" /\ sse' = sse
        \/ /\ tab \notin {"catching_up", "finishing"} /\ tab' = tab /\ sse' = sse
    BY <1>7 DEF PollAnswered, AfterPoll, StreamFrom, Reader, NoSse
  <2>5. Cursors'
    BY <2>1, <2>2, <2>3, <2>4 DEF Cursors
  <2>6. FollowLeavesNoGap'
    BY <2>1, <2>2 DEF FollowLeavesNoGap
  <2>7. SendMissesNoProducerEvent'
    BY <2>1, <2>2, <2>4 DEF SendMissesNoProducerEvent
  <2> QED BY <2>5, <2>6, <2>7
<1>8. ASSUME PollFails
      PROVE  Cursors' /\ FollowLeavesNoGap' /\ SendMissesNoProducerEvent'
  <2>1. /\ poll'.on = FALSE /\ poll'.upto = 0
        /\ UNCHANGED <<log, sse, start, latest, last, applied>>
        /\ \/ tab \in {"catching_up", "finishing"} /\ tab' = "idle"
           \/ tab' = tab
    BY <1>8 DEF PollFails, NoPoll
  <2> QED
    BY <2>1 DEF Cursors, FollowLeavesNoGap, SendMissesNoProducerEvent
<1> QED
  BY <1>1, <1>2, <1>3, <1>4, <1>5, <1>6, <1>7, <1>8 DEF Next

-----------------------------------------------------------------------------
(***************************************************************************)
(* The theorems.                                                           *)
(***************************************************************************)

\* The initial state satisfies the invariant.
LEMMA InitInv == Init => StreamInv
<1> SUFFICES ASSUME Init PROVE StreamInv
  OBVIOUS
<1>1. 0 \in Sequence /\ MaxEvents \in Nat /\ MaxReconnects \in Nat
  BY BoundsOK DEF Sequence, Far, BoundsOK
<1>2. log = <<>> /\ Len(log) = 0 /\ log \in Seq(Writers)
  BY DEF Init
<1>3. sse \in Connections /\ sse.cursor = 0 /\ sse.upto = 0 /\ sse.kind = "first"
  BY <1>1 DEF Init, Queue, NoSse, Connections
<1>4. poll \in Polls /\ poll.on = FALSE /\ poll.upto = 0
  BY <1>1 DEF Init, NoPoll, Polls
<1>5. TypeOK
  <2>1. Len(log) <= MaxEvents /\ 0 \in 0..MaxReconnects
    BY <1>1, <1>2
  <2>2. reconnects \in 0..MaxReconnects /\ applied \subseteq 1..MaxEvents
    BY <2>1, Zenon DEF Init
  <2>3. /\ click \in Sequence /\ start \in Sequence
        /\ latest \in Sequence /\ last \in Sequence
    BY <1>1 DEF Init
  <2>4. /\ status \in Statuses /\ producing \in BOOLEAN
        /\ locked \in BOOLEAN /\ interrupted \in BOOLEAN
        /\ tab \in {"sending", "catching_up", "following", "finishing", "idle", "strayed"}
    BY DEF Init, Statuses
  <2> QED
    BY <1>2, <1>3, <1>4, <2>1, <2>2, <2>3, <2>4 DEF TypeOK
<1>6. Cursors
  BY <1>2, <1>3, <1>4 DEF Init, Cursors
<1>7. FollowLeavesNoGap /\ SendMissesNoProducerEvent
  BY <1>2 DEF FollowLeavesNoGap, SendMissesNoProducerEvent
<1> QED BY <1>5, <1>6, <1>7 DEF StreamInv

\* Every step preserves it.
LEMMA NextInv == StreamInv /\ [Next]_vars => StreamInv'
<1> SUFFICES ASSUME StreamInv, [Next]_vars PROVE StreamInv'
  OBVIOUS
<1> USE DEF StreamInv
<1>1. CASE Backend
  BY <1>1, BackendType, BackendInv
<1>2. CASE Serve
  BY <1>2, ServeType, ServeInv
<1>3. CASE Next /\ ~Backend /\ ~Serve
  BY <1>3, TabType, TabInv
<1>4. CASE UNCHANGED vars
  BY <1>4 DEF vars, TypeOK, Cursors, FollowLeavesNoGap, SendMissesNoProducerEvent
<1> QED BY <1>1, <1>2, <1>3, <1>4

\* In every behaviour.
LEMMA Invariance == Spec => []StreamInv
BY InitInv, NextInv, PTL DEF Spec

\* Every variable keeps its type.
THEOREM StreamTypeCorrect == Spec => []TypeOK
<1>1. StreamInv => TypeOK
  BY DEF StreamInv
<1> QED BY <1>1, Invariance, PTL

\* Between the start of a follow and the position it has reached no event is
\* missing, in whatever order the stream, a reconnection and the polls deliver.
THEOREM FollowsHaveNoGap == Spec => []FollowLeavesNoGap
<1>1. StreamInv => FollowLeavesNoGap
  BY DEF StreamInv
<1> QED BY <1>1, Invariance, PTL

\* A stream that carries on after its reconnection has lost no event of the
\* producer.
THEOREM SendsKeepProducerEvents == Spec => []SendMissesNoProducerEvent
<1>1. StreamInv => SendMissesNoProducerEvent
  BY DEF StreamInv
<1> QED BY <1>1, Invariance, PTL

\* Receiving an event shows the next one of a follow, or one that is known.
LEMMA ReceiveShows ==
  ASSUME StreamInv, NEW s \in 1..Len(log), Receive(s),
         tab \in {"sending", "following"},
         tab = "following" => start < s /\ s <= latest + 1
  PROVE  [Feed!Next]_(Feed!vars)
<1> USE Numbers DEF StreamInv
<1>1. CASE tab = "sending"
  BY <1>1 DEF Receive, Cursors, Feed!Next, Feed!Glimpse
<1>2. CASE tab = "following"
  <2>1. /\ latest' = IF s <= latest THEN latest ELSE s
        /\ s <= latest => applied' = applied
        /\ UNCHANGED <<log, tab>>
    BY <1>2, ReceiveInFollow DEF Receive
  <2>2. CASE s <= latest
    BY <2>1, <2>2 DEF Feed!vars
  <2>3. CASE ~(s <= latest)
    <3>1. latest' = s /\ s = latest + 1
      BY <1>2, <2>1, <2>3
    <3>2. applied' = applied \cup (latest + 1)..latest'
      BY <3>1 DEF Receive
    <3> QED BY <2>1, <3>1, <3>2 DEF Feed!Next, Feed!Show
  <2> QED BY <2>2, <2>3
<1> QED BY <1>1, <1>2

\* A step that touches neither log, events shown nor position, and does not
\* start a follow, ends it or goes unseen.
LEMMA Unseen ==
  ASSUME UNCHANGED <<log, applied, latest>>,
         \/ tab' = tab
         \/ tab' \notin {"catching_up", "following"}
  PROVE  [Feed!Next]_(Feed!vars)
<1>1. CASE tab' = tab
  BY <1>1 DEF Feed!vars
<1>2. CASE tab' \notin {"catching_up", "following"}
  BY <1>2 DEF Feed!Next, Feed!Stop
<1> QED BY <1>1, <1>2

\* Every step of the stream is a step of the promised feed, or goes unseen.
LEMMA StepShows ==
  ASSUME StreamInv, [Next]_vars
  PROVE  [Feed!Next]_(Feed!vars)
<1> USE Numbers DEF StreamInv, backend
<1>1. ASSUME NEW w \in Writers, NEW s \in Statuses, Persist(w, s)
      PROVE  [Feed!Next]_(Feed!vars)
  <2>1. Len(log') = Len(log) + 1 /\ UNCHANGED <<applied, latest, tab>>
    BY <1>1 DEF Persist, TypeOK
  <2> QED BY <2>1 DEF Feed!Next, Feed!Persist
<1>2. ASSUME NEW s \in Statuses, ChangeStatus(s) PROVE [Feed!Next]_(Feed!vars)
  BY <1>2, Unseen DEF ChangeStatus
<1>3. ASSUME \/ ProducerEnds \/ ResumeLocks \/ ResumeUnlocks \/ QueueCloses
             \/ ReaderLists \/ ReaderChecks \/ ReaderWakes \/ IntervalPoll
      PROVE  [Feed!Next]_(Feed!vars)
  <2>1. UNCHANGED <<log, applied, latest, tab>>
    BY <1>3 DEF ProducerEnds, ResumeLocks, ResumeUnlocks, QueueCloses, ReaderLists,
                ReaderChecks, ReaderWakes, IntervalPoll
  <2> QED BY <2>1, Unseen
<1>4. ASSUME NEW s \in 1..MaxEvents, QueueSends(s) PROVE [Feed!Next]_(Feed!vars)
  <2>1. s \in 1..Len(log) /\ Receive(s) /\ tab = "sending"
    BY <1>4 DEF QueueSends, Queued, Cursors
  <2> QED BY <2>1, ReceiveShows
<1>5. ASSUME ReaderSends PROVE [Feed!Next]_(Feed!vars)
  <2>1. /\ sse.cursor + 1 \in 1..Len(log) /\ Receive(sse.cursor + 1)
        /\ tab \in {"sending", "following"}
        /\ tab = "following" => start < sse.cursor + 1 /\ sse.cursor + 1 <= latest + 1
    BY <1>5 DEF ReaderSends, Cursors
  <2> QED BY <2>1, ReceiveShows
<1>6. ASSUME Reconnect PROVE [Feed!Next]_(Feed!vars)
  BY <1>6, Unseen DEF Reconnect
<1>7. ASSUME GiveUp \/ Complete PROVE [Feed!Next]_(Feed!vars)
  BY <1>7, Unseen DEF GiveUp, Complete, AfterStream
<1>8. ASSUME NEW cancels \in BOOLEAN, Abort(cancels) PROVE [Feed!Next]_(Feed!vars)
  BY <1>8, Unseen DEF Abort
<1>9. ASSUME NEW c \in Sequence, NEW s \in Statuses, Decide(c, s)
      PROVE  [Feed!Next]_(Feed!vars)
  BY <1>9, Unseen DEF Decide
<1>10. ASSUME FollowRun PROVE [Feed!Next]_(Feed!vars)
  BY <1>10 DEF FollowRun, Feed!Next, Feed!Follow
<1>11. ASSUME PollAnswered PROVE [Feed!Next]_(Feed!vars)
  <2>1. /\ latest' = IF latest >= poll.upto THEN latest ELSE poll.upto
        /\ latest >= poll.upto => applied' = applied
        /\ latest < poll.upto =>
             applied' = applied \cup (latest + 1)..poll.upto
    BY <1>11, PollShowsTheNext
  <2>2. /\ tab' \in {"catching_up", "following"} <=> tab \in {"catching_up", "following"}
        /\ log' = log /\ poll.upto <= Len(log)
    BY <1>11 DEF PollAnswered, AfterPoll, Cursors
  <2>3. CASE latest >= poll.upto
    BY <2>1, <2>2, <2>3 DEF Feed!vars
  <2>4. CASE latest < poll.upto
    <3>1. latest' \in (latest + 1)..Len(log)
      BY <2>1, <2>2, <2>4
    <3>2. applied' = applied \cup (latest + 1)..latest'
      BY <2>1, <2>4
    <3> QED BY <2>2, <3>1, <3>2 DEF Feed!Next, Feed!Show
  <2> QED BY <2>3, <2>4
<1>12. ASSUME PollFails PROVE [Feed!Next]_(Feed!vars)
  BY <1>12, Unseen DEF PollFails
<1>13. CASE UNCHANGED vars
  BY <1>13, Unseen DEF vars
<1> QED
  BY <1>1, <1>2, <1>3, <1>4, <1>5, <1>6, <1>7, <1>8, <1>9, <1>10, <1>11, <1>12, <1>13
     DEF Next, Backend, Serve

\* The tab, its stream and its polls implement the feed: a follow shows the log
\* in order, from where it started, leaving nothing out and never going back.
THEOREM StreamImplementsFeed == Spec => ShowsTheLogInOrder
<1>1. Init => Feed!Init
  BY DEF Init, Feed!Init
<1>2. StreamInv /\ [Next]_vars => [Feed!Next]_(Feed!vars)
  BY StepShows
<1> QED BY <1>1, <1>2, Invariance, PTL DEF Spec, ShowsTheLogInOrder, Feed!Spec
=============================================================================
