------------------------ MODULE WorkspaceView_proofs ------------------------
(***************************************************************************)
(* Theorems about Workspace, for any number of requests on their way, of   *)
(* conversations, of Runs and of troubles: the composer and the address,   *)
(* then what the page shows. That argument goes up in layers: what the     *)
(* database holds of a Run; what a request can ask and a view can hold;    *)
(* what a user who waits for answers is shown.                             *)
(***************************************************************************)
EXTENDS Workspace, FiniteSetTheorems, TLAPS

Fields == {"kind", "at", "run", "conv", "old", "upto", "row", "card", "shown"}

\* A request has these fields, whatever they hold.
IsRequest(j) == j = [f \in Fields |-> j[f]]
JobsOK == job = [s \in Slots |-> job[s]] /\ \A s \in Slots : IsRequest(job[s])

\* The stream that can be aborted is a stream.
RefOK ==
  /\ ref \in Slots \cup {NoRef}
  /\ ref # NoRef => job[ref].kind \in {"send", "follow"}

\* The requests that enable the composer when they settle.
Freeing == {"restore", "send", "follow"}

PageInv == JobsOK /\ RefOK /\ ComposerIsFreed

-----------------------------------------------------------------------------
(***************************************************************************)
(* Requests.                                                               *)
(***************************************************************************)

\* A free slot and a new restore are requests.
LEMMA NewRequests ==
  /\ IsRequest(Idle) /\ Idle.kind = "none"
  /\ \A c : IsRequest(Restoring(c)) /\ Restoring(c).kind = "restore"
BY DEF IsRequest, Idle, Restoring, Fields

\* Another value of a field leaves a request, and its kind unless it is the kind.
LEMMA FieldSet ==
  ASSUME NEW j, IsRequest(j), NEW f \in Fields, NEW v
  PROVE  /\ IsRequest([j EXCEPT ![f] = v])
         /\ [j EXCEPT ![f] = v][f] = v
         /\ \A g \in Fields \ {f} : [j EXCEPT ![f] = v][g] = j[g]
BY DEF IsRequest, Fields

\* Another request in one slot.
LEMMA SlotSet ==
  ASSUME NEW jobs, jobs = [s \in Slots |-> jobs[s]], \A s \in Slots : IsRequest(jobs[s]),
         NEW s \in Slots, NEW j, IsRequest(j)
  PROVE  /\ [jobs EXCEPT ![s] = j] = [t \in Slots |-> [jobs EXCEPT ![s] = j][t]]
         /\ \A t \in Slots : IsRequest([jobs EXCEPT ![s] = j][t])
         /\ [jobs EXCEPT ![s] = j][s] = j
         /\ \A t \in Slots \ {s} : [jobs EXCEPT ![s] = j][t] = jobs[t]
OBVIOUS

-----------------------------------------------------------------------------
(***************************************************************************)
(* What a step does to the requests.                                       *)
(***************************************************************************)

\* A step that leaves the kinds of the requests, the flag and the stream.
LEMMA KindsKept ==
  ASSUME PageInv, JobsOK', UNCHANGED <<loading, ref>>,
         \A t \in Slots : job'[t].kind = job[t].kind
  PROVE  PageInv'
BY DEF PageInv, RefOK, ComposerIsFreed, Waits

\* A request that is made from a free slot; the flag is set for one that will
\* clear it, and only a send is a stream then.
LEMMA Made ==
  ASSUME PageInv, JobsOK', NEW s \in Slots, Free(s),
         \A t \in Slots \ {s} : job'[t] = job[t],
         loading' = loading \/ job'[s].kind \in Freeing,
         ref' = ref \/ (ref' = s /\ job'[s].kind \in {"send", "follow"})
  PROVE  PageInv'
<1>1. RefOK'
  BY DEF PageInv, RefOK, Free
<1>2. ComposerIsFreed'
  BY DEF PageInv, ComposerIsFreed, Waits, Free, Freeing
<1> QED BY <1>1, <1>2 DEF PageInv

\* A request that settles, unless it leaves the flag that it would clear or
\* remains the stream to abort.
LEMMA Gone ==
  ASSUME PageInv, JobsOK', NEW s \in Slots,
         \A t \in Slots \ {s} : job'[t] = job[t],
         loading' = FALSE \/ (loading' = loading /\ job[s].kind \notin Freeing),
         ref' = NoRef \/ (ref' = ref /\ ref # s)
  PROVE  PageInv'
<1>1. RefOK'
  BY DEF PageInv, RefOK
<1>2. ComposerIsFreed'
  BY DEF PageInv, ComposerIsFreed, Waits, Freeing
<1> QED BY <1>1, <1>2 DEF PageInv

\* What an abort leaves is a request; a first request of a follow goes on.
LEMMA AbortLeaves ==
  ASSUME NEW j, IsRequest(j), NEW late \in BOOLEAN
  PROVE  /\ IsRequest(AfterAbort(j, late))
         /\ j.kind = "follow" /\ j.at = "first" => AfterAbort(j, late).kind = "follow"
<1> DEFINE asPoll == [j EXCEPT !.kind = "poll"]
<1>1. "at" \in Fields /\ "kind" \in Fields /\ "kind" # "at"
  BY DEF Fields
<1>2. IsRequest([j EXCEPT !.at = "late"]) /\ [j EXCEPT !.at = "late"].kind = j.kind
  BY <1>1, FieldSet
<1>3. IsRequest(asPoll)
  BY <1>1, FieldSet
<1>4. IsRequest([asPoll EXCEPT !.at = "late"])
  <2> HIDE DEF asPoll
  <2> QED BY <1>1, <1>3, FieldSet
<1>5. CASE j.kind = "follow" /\ j.at = "first"
  BY <1>2, <1>5 DEF AfterAbort
<1>6. CASE ~(j.kind = "follow" /\ j.at = "first") /\ j.kind = "follow" /\ late
  BY <1>4, <1>6 DEF AfterAbort
<1>7. CASE ~(j.kind = "follow" /\ j.at = "first") /\ ~(j.kind = "follow" /\ late)
  BY <1>7, NewRequests DEF AfterAbort
<1> QED BY <1>5, <1>6, <1>7

\* What is left of an aborted stream: the others are as they were, and a follow
\* whose first request is out is still a follow.
LEMMA AfterCut ==
  ASSUME RefOK, NEW jobs, jobs = [s \in Slots |-> jobs[s]],
         \A s \in Slots : IsRequest(jobs[s]), NEW late \in BOOLEAN
  PROVE  /\ Cut(jobs, late) = [s \in Slots |-> Cut(jobs, late)[s]]
         /\ \A s \in Slots : IsRequest(Cut(jobs, late)[s])
         /\ \A s \in Slots \ {ref} : Cut(jobs, late)[s] = jobs[s]
         /\ ref # NoRef /\ jobs[ref].kind = "follow" /\ jobs[ref].at = "first"
              => Cut(jobs, late)[ref].kind = "follow"
<1>1. CASE ref = NoRef
  BY <1>1 DEF Cut
<1>2. CASE ref # NoRef
  <2>1. ref \in Slots
    BY <1>2 DEF RefOK
  <2>2. IsRequest(jobs[ref])
    BY <2>1
  <2>3. Cut(jobs, late) = [jobs EXCEPT ![ref] = AfterAbort(jobs[ref], late)]
    BY <1>2, <2>1 DEF Cut
  <2>4. IsRequest(AfterAbort(jobs[ref], late))
    BY <2>2, AbortLeaves
  <2>5. jobs[ref].kind = "follow" /\ jobs[ref].at = "first"
          => AfterAbort(jobs[ref], late).kind = "follow"
    BY <2>2, AbortLeaves
  <2> QED BY <2>1, <2>3, <2>4, <2>5, SlotSet
<1> QED BY <1>1, <1>2

\* An abort that leaves the flag leaves a follow that will clear it.
LEMMA Aborted ==
  ASSUME PageInv, NEW jobs, jobs = [s \in Slots |-> jobs[s]],
         \A s \in Slots : IsRequest(jobs[s]), NEW late \in BOOLEAN,
         \A s \in Slots : jobs[s] = job[s] \/ (job[s].kind \notin Freeing /\ jobs[s].kind \notin Freeing),
         job' = Cut(jobs, late), loading' = LoadingAfterCut \/ loading' = FALSE, ref' = NoRef
  PROVE  PageInv'
<1>1. JobsOK'
  BY AfterCut DEF PageInv, JobsOK
<1>2. RefOK'
  BY DEF RefOK
<1>3. ComposerIsFreed'
  <2> SUFFICES ASSUME loading' PROVE \E s \in Slots : job'[s].kind \in Freeing
    BY DEF ComposerIsFreed, Waits, Freeing
  <2>1. CASE ref = NoRef
    <3>1. PICK s \in Slots : job[s].kind \in Freeing
      BY <2>1 DEF PageInv, ComposerIsFreed, Waits, Freeing, LoadingAfterCut
    <3>2. job' = jobs
      BY <2>1 DEF Cut
    <3> QED BY <3>1, <3>2
  <2>2. CASE ref # NoRef
    <3>1. ref \in Slots /\ job[ref].kind = "follow" /\ job[ref].at = "first"
      BY <2>2 DEF PageInv, RefOK, LoadingAfterCut
    <3>2. jobs[ref] = job[ref]
      BY <3>1 DEF Freeing
    <3>3. Cut(jobs, late)[ref].kind = "follow"
      BY <2>2, <3>1, <3>2, AfterCut DEF PageInv
    <3> QED BY <3>1, <3>3 DEF Freeing
  <2> QED BY <2>1, <2>2
<1> QED BY <1>1, <1>2, <1>3 DEF PageInv

\* A request that is changed in fields other than its kind.
LEMMA Changed ==
  ASSUME PageInv, NEW s \in Slots, NEW j, IsRequest(j), j.kind = job[s].kind,
         job' = [job EXCEPT ![s] = j], UNCHANGED <<loading, ref>>
  PROVE  PageInv'
<1>1. JobsOK' /\ \A t \in Slots : job'[t].kind = job[t].kind
  BY SlotSet DEF PageInv, JobsOK
<1> QED BY <1>1, KindsKept

\* Another request in a slot: the requests are requests, the others the same.
LEMMA Replaced ==
  ASSUME PageInv, NEW s \in Slots, NEW j, IsRequest(j), job' = [job EXCEPT ![s] = j]
  PROVE  JobsOK' /\ job'[s] = j /\ \A t \in Slots \ {s} : job'[t] = job[t]
BY SlotSet DEF PageInv, JobsOK

-----------------------------------------------------------------------------
(***************************************************************************)
(* The steps.                                                              *)
(***************************************************************************)

\* The page starts with no request, and the composer enabled.
LEMMA InitPage == Init => PageInv
<1> SUFFICES ASSUME Init PROVE PageInv
  OBVIOUS
<1>1. JobsOK
  BY NewRequests DEF Init, JobsOK
<1>2. RefOK /\ ComposerIsFreed
  BY DEF Init, RefOK, ComposerIsFreed
<1> QED BY <1>1, <1>2 DEF PageInv

\* What the user does.
LEMMA UserKeepsPage ==
  ASSUME PageInv, UserActs
  PROVE  PageInv'
<1>1. CASE \E c \in Conversations : Select(c)
  <2>1. PICK c \in Conversations, s \in Slots :
                          /\ Free(s) /\ job' = [job EXCEPT ![s] = Restoring(c)]
                          /\ ref' = ref
    BY <1>1 DEF Select
  <2>2. IsRequest(Restoring(c)) /\ Restoring(c).kind \in Freeing
    BY NewRequests DEF Freeing
  <2> QED BY <2>1, <2>2, Replaced, Made
<1>2. CASE \E late \in BOOLEAN : New(late)
  <2>1. PICK late \in BOOLEAN : Fresh(job, late)
    BY <1>2 DEF New
  <2> QED BY <2>1, Aborted DEF Fresh, PageInv, JobsOK
<1>3. CASE Send
  <2>1. PICK s \in Slots :
          /\ Free(s) /\ ref' = s
          /\ job' = [job EXCEPT ![s] = [Idle EXCEPT !.kind = "send", !.at = "posted",
                                                    !.conv = conv, !.old = view.run]]
    BY <1>3 DEF Send
  <2> DEFINE j == [Idle EXCEPT !.kind = "send", !.at = "posted", !.conv = conv, !.old = view.run]
  <2>2. IsRequest(j) /\ j.kind = "send"
    BY DEF IsRequest, Idle, Fields
  <2> HIDE DEF j
  <2>3. job'[s].kind = "send" /\ JobsOK' /\ \A t \in Slots \ {s} : job'[t] = job[t]
    BY <2>1, <2>2, Replaced DEF j
  <2> QED BY <2>1, <2>3, Made DEF Freeing
<1>4. CASE \E r \in Runs : Decide(r)
  <2>1. PICK r \in Runs, s \in Slots :
          /\ Free(s) /\ UNCHANGED <<loading, ref>>
          /\ job' = [job EXCEPT ![s] = [Idle EXCEPT !.kind = "decide", !.at = "asked",
                                                    !.run = r, !.upto = Cursor]]
    BY <1>4 DEF Decide, page
  <2> DEFINE j == [Idle EXCEPT !.kind = "decide", !.at = "asked", !.run = r, !.upto = Cursor]
  <2>2. IsRequest(j)
    BY DEF IsRequest, Idle, Fields
  <2> HIDE DEF j
  <2>3. JobsOK' /\ \A t \in Slots \ {s} : job'[t] = job[t]
    BY <2>1, <2>2, Replaced DEF j
  <2> QED BY <2>1, <2>3, Made
<1>5. CASE \E c \in Conversations : Delete(c)
  <2>1. PICK c \in Conversations, s \in Slots :
          /\ Free(s) /\ UNCHANGED <<loading, ref>>
          /\ job' = [job EXCEPT ![s] = [Idle EXCEPT !.kind = "delete", !.at = "asked",
                                                    !.conv = c, !.shown = (conv = c)]]
    BY <1>5 DEF Delete, page
  <2> DEFINE j == [Idle EXCEPT !.kind = "delete", !.at = "asked", !.conv = c, !.shown = (conv = c)]
  <2>2. IsRequest(j)
    BY DEF IsRequest, Idle, Fields
  <2> HIDE DEF j
  <2>3. JobsOK' /\ \A t \in Slots \ {s} : job'[t] = job[t]
    BY <2>1, <2>2, Replaced DEF j
  <2> QED BY <2>1, <2>3, Made
<1>6. CASE \E late \in BOOLEAN : Stop(late)
  <2>1. PICK late \in BOOLEAN : Stop(late)
    BY <1>6
  <2>2. CASE view.run = NoRun
    BY <2>1, <2>2, Aborted DEF Stop, PageInv, JobsOK
  <2>3. CASE view.run # NoRun
    <3> DEFINE j == [Idle EXCEPT !.kind = "cancel", !.at = "asked", !.run = view.run]
    <3>1. PICK s \in Slots : /\ Free(s) /\ job' = [Cut(job, late) EXCEPT ![s] = j]
                             /\ loading' = LoadingAfterCut /\ ref' = NoRef
      BY <2>1, <2>3 DEF Stop
    <3>2. IsRequest(j) /\ j.kind = "cancel"
      BY DEF IsRequest, Idle, Fields
    <3> HIDE DEF j
    <3> DEFINE jobs == [job EXCEPT ![s] = j]
    <3>3. /\ jobs = [t \in Slots |-> jobs[t]] /\ \A t \in Slots : IsRequest(jobs[t])
          /\ jobs[s] = j /\ \A t \in Slots \ {s} : jobs[t] = job[t]
      BY <3>2, SlotSet DEF PageInv, JobsOK
    <3>4. ref # s
      BY <3>1, NoRefOK DEF PageInv, RefOK, Free
    <3>5. job' = Cut(jobs, late)
      <4>1. CASE ref = NoRef
        BY <3>1, <4>1 DEF Cut
      <4>2. CASE ref # NoRef
        <5>1. ref \in Slots
          BY <4>2 DEF PageInv, RefOK
        <5>2. jobs[ref] = job[ref]
          BY <5>1, <3>3, <3>4
        <5>3. /\ Cut(jobs, late) = [jobs EXCEPT ![ref] = AfterAbort(job[ref], late)]
              /\ Cut(job, late) = [job EXCEPT ![ref] = AfterAbort(job[ref], late)]
          BY <4>2, <5>1, <5>2 DEF Cut, PageInv, JobsOK
        <5> QED BY <3>1, <3>4, <5>1, <5>3 DEF PageInv, JobsOK
      <4> QED BY <4>1, <4>2
    <3>6. job[s].kind \notin Freeing /\ jobs[s].kind \notin Freeing
      BY <3>1, <3>2, <3>3 DEF Free, Freeing
    <3> HIDE DEF jobs
    <3> QED BY <3>1, <3>3, <3>5, <3>6, Aborted
  <2> QED BY <2>2, <2>3
<1>7. CASE Reload
  <2>1. PICK first \in Slots :
          job' = [s \in Slots |-> IF url # None /\ s = first THEN Restoring(url) ELSE Idle]
    BY <1>7 DEF Reload
  <2>2. JobsOK'
    BY <2>1, NewRequests DEF JobsOK
  <2>3. RefOK'
    BY <1>7 DEF Reload, RefOK
  <2>4. ComposerIsFreed'
    BY <1>7, <2>1, NewRequests DEF Reload, ComposerIsFreed, Waits
  <2> QED BY <2>2, <2>3, <2>4 DEF PageInv
<1> QED BY <1>1, <1>2, <1>3, <1>4, <1>5, <1>6, <1>7 DEF UserActs

\* What is answered of a restore.
LEMMA RestoreKeepsPage ==
  ASSUME PageInv, NEW s \in Slots,
         \/ RestoreLists(s) \/ RestoreReadsCard(s) \/ RestoreApplies(s) \/ RestoreFails(s)
         \/ \E fails \in BOOLEAN : RestoreReadsEvents(s, fails)
  PROVE  PageInv'
<1>1. IsRequest(job[s])
  BY DEF PageInv, JobsOK
<1>2. CASE RestoreLists(s)
  <2> DEFINE r == LatestRun(job[s].conv)
             v == IF r = NoRun THEN "none" ELSE row[r]
             j == [job[s] EXCEPT !.at = "listed", !.run = r, !.row = v]
  <2>1. IsRequest(j) /\ j.kind = job[s].kind
    <3> HIDE DEF r, v
    <3> QED BY <1>1 DEF IsRequest, Fields
  <2>2. job' = [job EXCEPT ![s] = j] /\ UNCHANGED <<loading, ref>>
    <3>1. job' = [job EXCEPT ![s].at = "listed", ![s].run = r, ![s].row = v]
      BY <1>2 DEF RestoreLists
    <3> HIDE DEF r, v
    <3> QED BY <1>2, <3>1 DEF RestoreLists, page, PageInv, JobsOK
  <2> HIDE DEF j
  <2> QED BY <2>1, <2>2, Changed
<1>3. CASE RestoreReadsCard(s)
  <2> DEFINE j == [job[s] EXCEPT !.card = card[job[s].run]]
  <2>1. IsRequest(j) /\ j.kind = job[s].kind
    BY <1>1 DEF IsRequest, Fields
  <2>2. job' = [job EXCEPT ![s] = j] /\ UNCHANGED <<loading, ref>>
    BY <1>3 DEF RestoreReadsCard, page, PageInv, JobsOK
  <2> HIDE DEF j
  <2> QED BY <2>1, <2>2, Changed
<1>4. CASE \E fails \in BOOLEAN : RestoreReadsEvents(s, fails)
  <2>1. PICK v : job' = [job EXCEPT ![s].upto = v]
    BY <1>4 DEF RestoreReadsEvents
  <2> DEFINE j == [job[s] EXCEPT !.upto = v]
  <2>2. IsRequest(j) /\ j.kind = job[s].kind
    BY <1>1 DEF IsRequest, Fields
  <2>3. job' = [job EXCEPT ![s] = j] /\ UNCHANGED <<loading, ref>>
    BY <1>4, <2>1 DEF RestoreReadsEvents, page, PageInv, JobsOK
  <2> HIDE DEF j
  <2> QED BY <2>2, <2>3, Changed
<1>5. CASE RestoreApplies(s) \/ RestoreFails(s)
  <2>1. /\ job[s].kind = "restore" /\ job' = [job EXCEPT ![s] = Idle]
        /\ loading' = FALSE /\ ref' = ref
    BY <1>5 DEF RestoreApplies, RestoreFails
  <2>2. ref # s
    BY <2>1, NoRefOK DEF PageInv, RefOK
  <2> QED BY <2>1, <2>2, NewRequests, Replaced, Gone
<1> QED BY <1>2, <1>3, <1>4, <1>5

\* What happens to a stream.
LEMMA StreamKeepsPage ==
  ASSUME PageInv, NEW s \in Slots,
         \/ \E c \in Conversations : SendStarts(s, c)
         \/ Deliver(s) \/ End(s) \/ Break(s) \/ FirstPoll(s) \/ LatePoll(s)
  PROVE  PageInv'
<1>1. IsRequest(job[s])
  BY DEF PageInv, JobsOK
<1>2. CASE \E c \in Conversations : SendStarts(s, c)
  <2>1. PICK r : job' = [job EXCEPT ![s].at = "open", ![s].run = r]
    BY <1>2 DEF SendStarts
  <2> DEFINE j == [job[s] EXCEPT !.at = "open", !.run = r]
  <2>2. IsRequest(j) /\ j.kind = job[s].kind
    BY <1>1 DEF IsRequest, Fields
  <2>3. job' = [job EXCEPT ![s] = j] /\ UNCHANGED <<loading, ref>>
    BY <1>2, <2>1 DEF SendStarts, page, PageInv, JobsOK
  <2> HIDE DEF j
  <2> QED BY <2>2, <2>3, Changed
<1>3. CASE Deliver(s)
  <2> DEFINE j == [job[s] EXCEPT !.upto = @ + 1]
  <2>1. IsRequest(j) /\ j.kind = job[s].kind
    BY <1>1 DEF IsRequest, Fields
  <2>2. job' = [job EXCEPT ![s] = j] /\ UNCHANGED <<loading, ref>>
    BY <1>3 DEF Deliver, PageInv, JobsOK
  <2> HIDE DEF j
  <2> QED BY <2>1, <2>2, Changed
<1>4. ASSUME Settled(s), job[s].kind \in {"send", "follow"}
      PROVE  PageInv'
  <2>1. job' = [job EXCEPT ![s] = Idle] /\ loading' = FALSE
    BY <1>4 DEF Settled
  <2>2. ref' = NoRef \/ (ref' = ref /\ ref # s)
    BY <1>4 DEF Settled
  <2> QED BY <2>1, <2>2, NewRequests, Replaced, Gone
<1>5. CASE End(s)
  BY <1>4, <1>5 DEF End, Streams
<1>6. CASE Break(s)
  BY <1>4, <1>6 DEF Break
<1>7. CASE FirstPoll(s)
  <2>1. CASE job[s].at = "first"
    <3>1. PICK v : job' = [job EXCEPT ![s].at = "open", ![s].upto = v]
      BY <1>7, <2>1 DEF FirstPoll
    <3> DEFINE j == [job[s] EXCEPT !.at = "open", !.upto = v]
    <3>2. IsRequest(j) /\ j.kind = job[s].kind
      BY <1>1 DEF IsRequest, Fields
    <3>3. job' = [job EXCEPT ![s] = j] /\ UNCHANGED <<loading, ref>>
      BY <1>7, <2>1, <3>1 DEF FirstPoll, PageInv, JobsOK
    <3> HIDE DEF j
    <3> QED BY <3>2, <3>3, Changed
  <2>2. CASE job[s].at # "first"
    BY <1>4, <1>7, <2>2 DEF FirstPoll
  <2> QED BY <2>1, <2>2
<1>8. CASE LatePoll(s)
  <2>1. /\ job[s].kind = "poll" /\ job' = [job EXCEPT ![s] = Idle]
        /\ UNCHANGED <<loading, ref>>
    BY <1>8 DEF LatePoll
  <2>2. ref # s
    BY <2>1, NoRefOK DEF PageInv, RefOK
  <2> QED BY <2>1, <2>2, NewRequests, Replaced, Gone DEF Freeing
<1> QED BY <1>2, <1>3, <1>5, <1>6, <1>7, <1>8

\* What happens to the requests for a decision, a cancellation and a deletion.
LEMMA RequestKeepsPage ==
  ASSUME PageInv, NEW s \in Slots,
         \/ Claims(s) \/ Cancels(s) \/ Deletes(s) \/ NoAnswer(s) \/ Cancelled(s)
         \/ \E late \in BOOLEAN : Follow(s, late) \/ Deleted(s, late)
  PROVE  PageInv'
<1>1. IsRequest(job[s])
  BY DEF PageInv, JobsOK
<1>2. job[s].kind \in {"decide", "cancel", "delete"} /\ ref # s
  BY NoRefOK DEF Claims, Cancels, Deletes, NoAnswer, Cancelled, Follow, Deleted, PageInv, RefOK
<1>3. CASE Claims(s) \/ Cancels(s) \/ Deletes(s)
  <2> DEFINE j == [job[s] EXCEPT !.at = "answered"]
  <2>1. IsRequest(j) /\ j.kind = job[s].kind
    BY <1>1 DEF IsRequest, Fields
  <2>2. job' = [job EXCEPT ![s].at = "answered"] /\ UNCHANGED <<loading, ref>>
    BY <1>3 DEF Claims, Cancels, Deletes, page
  <2>3. job' = [job EXCEPT ![s] = j]
    BY <2>2 DEF PageInv, JobsOK
  <2> HIDE DEF j
  <2> QED BY <2>1, <2>2, <2>3, Changed
<1>4. CASE NoAnswer(s) \/ Cancelled(s)
  <2>1. /\ job' = [job EXCEPT ![s] = Idle] /\ ref' = ref
        /\ loading' = loading \/ loading' = FALSE
    BY <1>4 DEF NoAnswer, Cancelled, page
  <2> QED BY <1>2, <2>1, NewRequests, Replaced, Gone DEF Freeing
<1>5. ASSUME NEW late \in BOOLEAN, Deleted(s, late)
      PROVE  PageInv'
  <2> DEFINE rest == [job EXCEPT ![s] = Idle]
  <2>1. CASE job[s].shown
    <3>1. /\ rest = [t \in Slots |-> rest[t]] /\ \A t \in Slots : IsRequest(rest[t])
          /\ rest[s] = Idle /\ \A t \in Slots \ {s} : rest[t] = job[t]
      BY NewRequests, SlotSet DEF PageInv, JobsOK
    <3>2. \A t \in Slots : rest[t] = job[t]
                             \/ (job[t].kind \notin Freeing /\ rest[t].kind \notin Freeing)
      BY <1>2, <3>1, NewRequests DEF Freeing
    <3>3. job' = Cut(rest, late) /\ loading' = LoadingAfterCut /\ ref' = NoRef
      BY <1>5, <2>1 DEF Deleted, Fresh
    <3> HIDE DEF rest
    <3> QED BY <3>1, <3>2, <3>3, Aborted
  <2>2. CASE ~job[s].shown
    <3>1. job' = rest /\ UNCHANGED <<loading, ref>>
      BY <1>5, <2>2 DEF Deleted, page
    <3>2. JobsOK' /\ \A t \in Slots \ {s} : job'[t] = job[t]
      BY <3>1, NewRequests, Replaced
    <3>3. loading' = loading /\ job[s].kind \notin Freeing /\ ref' = ref /\ ref # s
      BY <1>2, <3>1 DEF Freeing
    <3> HIDE DEF rest
    <3> QED BY <3>2, <3>3, Gone
  <2> QED BY <2>1, <2>2
<1>6. ASSUME NEW late \in BOOLEAN, Follow(s, late)
      PROVE  PageInv'
  <2> DEFINE j == [job[s] EXCEPT !.kind = "follow", !.at = "first"]
             cut == Cut(job, late)
  <2>1. IsRequest(j) /\ j.kind = "follow"
    BY <1>1 DEF IsRequest, Fields
  <2>2. /\ cut = [t \in Slots |-> cut[t]] /\ \A t \in Slots : IsRequest(cut[t])
        /\ \A t \in Slots \ {ref} : cut[t] = job[t]
    BY AfterCut DEF PageInv, JobsOK
  <2>3. job' = [cut EXCEPT ![s] = j]
    <3>1. job' = [cut EXCEPT ![s] = [@ EXCEPT !.kind = "follow", !.at = "first"]]
      BY <1>6 DEF Follow
    <3>2. cut[s] = job[s]
      BY <1>2, <2>2
    <3> HIDE DEF cut
    <3> QED BY <2>2, <3>1, <3>2
  <2> HIDE DEF j, cut
  <2>4. JobsOK' /\ job'[s].kind = "follow"
    BY <2>1, <2>2, <2>3, SlotSet DEF JobsOK
  <2>5. ref' = NoRef \/ ref' = s
    BY <1>6 DEF Follow
  <2> QED BY <2>4, <2>5 DEF PageInv, RefOK, ComposerIsFreed, Waits
<1> QED BY <1>3, <1>4, <1>5, <1>6

\* Every step of the page and of the backend.
LEMMA StepKeepsPage ==
  ASSUME PageInv, [Next]_vars
  PROVE  PageInv'
<1>1. CASE UserActs
  BY <1>1, UserKeepsPage
<1>2. CASE PageAnswered
  <2>1. PICK s \in Slots :
          \/ RestoreLists(s) \/ RestoreReadsCard(s)
          \/ RestoreApplies(s) \/ RestoreFails(s)
          \/ \E fails \in BOOLEAN : RestoreReadsEvents(s, fails)
          \/ \E c \in Conversations : SendStarts(s, c)
          \/ Deliver(s) \/ End(s) \/ Break(s) \/ FirstPoll(s) \/ LatePoll(s)
          \/ Claims(s) \/ Cancels(s) \/ Cancelled(s) \/ Deletes(s) \/ NoAnswer(s)
          \/ \E late \in BOOLEAN : Follow(s, late) \/ Deleted(s, late)
    BY <1>2 DEF PageAnswered
  <2> QED BY <2>1, RestoreKeepsPage, StreamKeepsPage, RequestKeepsPage
<1>3. CASE UNCHANGED <<page, job>>
  BY <1>3 DEF page, PageInv, JobsOK, RefOK, ComposerIsFreed, Waits
<1>4. CASE \E r \in Runs : RunPauses(r) \/ RunResumes(r) \/ RunEnds(r)
  BY <1>3, <1>4 DEF RunPauses, RunResumes, RunEnds
<1>5. CASE UNCHANGED vars
  BY <1>3, <1>5 DEF vars, page
<1> QED BY <1>1, <1>2, <1>4, <1>5 DEF Next

-----------------------------------------------------------------------------
(***************************************************************************)
(* Theorems.                                                               *)
(***************************************************************************)

\* The composer is disabled only while a request is on its way that will enable
\* it again (useRunStream's finally blocks): whatever number of restores, sends
\* and follows are aborted, answered or lost, in whatever order.
THEOREM ComposerFreed == Spec => []ComposerIsFreed
<1>1. PageInv => ComposerIsFreed
  BY DEF PageInv
<1> QED BY InitPage, StepKeepsPage, <1>1, PTL DEF Spec

\* The address names the conversation that is shown (the effects of
\* WorkspacePage), whatever is answered late.
THEOREM AddressNamesConversation == Spec => []UrlNamesConversation
<1>1. Init => UrlNamesConversation
  BY DEF Init, UrlNamesConversation
<1>2. ASSUME UrlNamesConversation, [Next]_vars
      PROVE  UrlNamesConversation'
  <2>1. CASE UNCHANGED <<conv, url>>
    BY <1>2, <2>1 DEF UrlNamesConversation
  <2>2. CASE UserActs
    BY <1>2, <2>1, <2>2 DEF UserActs, Select, New, Fresh, Send, Decide, Stop, Delete, Reload,
         page, UrlNamesConversation
  <2>3. CASE PageAnswered
    <3>1. PICK s \in Slots :
            \/ RestoreLists(s) \/ RestoreReadsCard(s)
            \/ RestoreApplies(s) \/ RestoreFails(s)
            \/ \E fails \in BOOLEAN : RestoreReadsEvents(s, fails)
            \/ \E c \in Conversations : SendStarts(s, c)
            \/ Deliver(s) \/ End(s) \/ Break(s) \/ FirstPoll(s) \/ LatePoll(s)
            \/ Claims(s) \/ Cancels(s) \/ Cancelled(s) \/ Deletes(s) \/ NoAnswer(s)
            \/ \E late \in BOOLEAN : Follow(s, late) \/ Deleted(s, late)
      BY <2>3 DEF PageAnswered
    <3>2. CASE RestoreApplies(s) \/ Deliver(s)
      BY <1>2, <3>2 DEF RestoreApplies, Deliver, Address, UrlNamesConversation
    <3>3. CASE \E late \in BOOLEAN : Deleted(s, late)
      BY <1>2, <2>1, <3>3 DEF Deleted, Fresh, page, UrlNamesConversation
    <3>4. CASE \/ RestoreLists(s) \/ RestoreReadsCard(s) \/ RestoreFails(s)
               \/ \E fails \in BOOLEAN : RestoreReadsEvents(s, fails)
               \/ \E c \in Conversations : SendStarts(s, c)
      BY <2>1, <3>4 DEF RestoreLists, RestoreReadsCard, RestoreFails, RestoreReadsEvents,
           SendStarts, page
    <3>5. CASE \/ End(s) \/ Break(s) \/ FirstPoll(s) \/ LatePoll(s)
               \/ Claims(s) \/ Cancels(s) \/ Cancelled(s) \/ Deletes(s) \/ NoAnswer(s)
               \/ \E late \in BOOLEAN : Follow(s, late)
      BY <2>1, <3>5 DEF End, Break, FirstPoll, LatePoll, Claims, Cancels, Cancelled, Deletes,
           NoAnswer, Follow, page
    <3> QED BY <3>1, <3>2, <3>3, <3>4, <3>5
  <2>4. CASE \E r \in Runs : RunPauses(r) \/ RunResumes(r) \/ RunEnds(r)
    BY <2>1, <2>4 DEF RunPauses, RunResumes, RunEnds, page
  <2>5. CASE UNCHANGED vars
    BY <2>1, <2>5 DEF vars
  <2> QED BY <1>2, <2>2, <2>3, <2>4, <2>5 DEF Next
<1> QED BY <1>1, <1>2, PTL DEF Spec

Seeing == INSTANCE SequenceLaws WITH Step <- See

-----------------------------------------------------------------------------
(***************************************************************************)
(* The database.                                                           *)
(***************************************************************************)
Rows == {"none", "running", "waiting", "completed", "cancelled"}
Cards == {"none", "pending", "claimed", "decided", "superseded"}
LogTypes == {"started", "required", "decided", "completed", "cancelled"}

Has(r, type) == \E i \in DOMAIN log[r] : log[r][i] = type

\* The log of a Run that started starts with that, and agrees with its rows.
RunOK(r) ==
  /\ home[r] = None => log[r] = <<>>
  /\ home[r] # None => log[r] # <<>>
  /\ row[r] # "none" <=> home[r] \in alive
  /\ card[r] # "none" => home[r] \in alive
  /\ \A i \in DOMAIN log[r] : log[r][i] = "started" <=> i = 1
  /\ row[r] = "completed" => Has(r, "completed")
  /\ card[r] = "pending" => row[r] \in {"waiting", "cancelled"}
  /\ home[r] \in alive /\ Has(r, "required") => card[r] # "none"
  /\ home[r] \in alive /\ Has(r, "decided") => card[r] = "decided"
  /\ card[r] = "decided" => Has(r, "decided")
  /\ \A i, k \in DOMAIN log[r] : log[r][i] = "required" /\ log[r][k] = "decided" => i < k

ServerTypeOK ==
  /\ home \in [Runs -> Conversations \cup {None}]
  /\ row \in [Runs -> Rows] /\ card \in [Runs -> Cards]
  /\ log \in [Runs -> Seq(LogTypes)]
  /\ alive \subseteq Conversations

ServerInv == ServerTypeOK /\ \A r \in Runs : RunOK(r)

\* A Run stays where it started and its log only grows.
Grows ==
  \A r \in Runs :
    /\ home[r] # None => home'[r] = home[r]
    /\ Len(log[r]) <= Len(log'[r]) /\ DOMAIN log[r] \subseteq DOMAIN log'[r]
    /\ \A i \in DOMAIN log[r] : log'[r][i] = log[r][i]

\* At first a Run is saved and waits, or has not started.
LEMMA InitServer == Init => ServerInv
<1> SUFFICES ASSUME Init PROVE ServerInv
  OBVIOUS
<1>1. ServerTypeOK
  <2>1. <<>> \in Seq(LogTypes) /\ <<"started", "required">> \in Seq(LogTypes)
    BY DEF LogTypes
  <2> QED BY <2>1, ConversationsOK DEF Init, ServerTypeOK, Rows, Cards
<1>2. ASSUME NEW r \in Runs PROVE RunOK(r)
  <2>1. home[r] = None \/ home[r] \in Saved
    BY DEF Init
  <2>2. None \notin Saved
    BY ConversationsOK
  <2>3. CASE home[r] = None
    <3>1. log[r] = <<>> /\ row[r] = "none" /\ card[r] = "none" /\ DOMAIN log[r] = {}
          /\ home[r] \notin alive
      BY <2>2, <2>3 DEF Init
    <3> QED BY <2>3, <3>1 DEF RunOK, Has
  <2>4. CASE home[r] \in Saved
    <3>1. /\ log[r] = <<"started", "required">> /\ row[r] = "waiting" /\ card[r] = "pending"
          /\ alive = Saved /\ home[r] # None
      BY <2>2, <2>4 DEF Init
    <3>2. DOMAIN log[r] = 1..2 /\ log[r][1] = "started" /\ log[r][2] = "required"
      BY <3>1
    <3> HIDE <2>1
    <3> QED BY <2>4, <3>1, <3>2 DEF RunOK, Has
  <2> QED BY <2>1, <2>3, <2>4
<1> QED BY <1>1, <1>2 DEF ServerInv

\* One more event in the log of Run r.
LEMMA OneMore ==
  ASSUME ServerTypeOK, NEW r \in Runs, NEW type \in LogTypes,
         log' = [log EXCEPT ![r] = Append(@, type)], home' = home
  PROVE  /\ log' \in [Runs -> Seq(LogTypes)] /\ Grows
         /\ \A q \in Runs \ {r} : log'[q] = log[q]
         /\ DOMAIN log[r] = 1..Len(log[r]) /\ DOMAIN log'[r] = 1..(Len(log[r]) + 1)
         /\ log'[r][Len(log[r]) + 1] = type /\ Len(log[r]) \in Nat
         /\ log'[r] # <<>>
         /\ \A i \in DOMAIN log[r] : log'[r][i] = log[r][i]
<1>1. log[r] \in Seq(LogTypes) /\ Append(log[r], type) \in Seq(LogTypes)
  BY DEF ServerTypeOK
<1>2. log'[r] = Append(log[r], type) /\ \A q \in Runs \ {r} : log'[q] = log[q]
  BY DEF ServerTypeOK
<1>3. log' \in [Runs -> Seq(LogTypes)]
  BY <1>1 DEF ServerTypeOK
<1>4. /\ Len(log[r]) \in Nat /\ DOMAIN log[r] = 1..Len(log[r])
      /\ Len(Append(log[r], type)) = Len(log[r]) + 1
      /\ DOMAIN Append(log[r], type) = 1..(Len(log[r]) + 1)
      /\ Append(log[r], type)[Len(log[r]) + 1] = type
      /\ \A i \in 1..Len(log[r]) : Append(log[r], type)[i] = log[r][i]
      /\ Append(log[r], type) # <<>>
  BY <1>1
<1>5. \A q \in Runs : Len(log[q]) \in Nat
  BY DEF ServerTypeOK
<1>6. Grows
  BY <1>2, <1>4, <1>5 DEF Grows
<1> QED BY <1>2, <1>3, <1>4, <1>6

\* What a Run keeps when nothing of it changes but other conversations come and
\* none of those that are alive goes.
LEMMA RunKept ==
  ASSUME NEW r \in Runs, RunOK(r), home'[r] = home[r], log'[r] = log[r],
         row'[r] = row[r], card'[r] = card[r],
         alive' = alive \/ (alive \subseteq alive' /\ (home[r] \in alive' => home[r] \in alive))
  PROVE  RunOK(r)'
BY DEF RunOK, Has

-----------------------------------------------------------------------------
\* The Run that a send starts: the first that did not start yet.
NewRun == CHOOSE q \in Runs : home[q] = None /\ \A p \in 1..(q - 1) : home[p] # None

LEMMA NewRunIsNew ==
  ASSUME \E q \in Runs : home[q] = None
  PROVE  NewRun \in Runs /\ home[NewRun] = None
<1> DEFINE S == {q \in Runs : home[q] = None}
<1>1. S \in SUBSET Nat /\ S # {}
  BY DEF Runs
<1>2. PICK q \in S : \A p \in S : q <= p
  BY <1>1, Seeing!Least
<1>3. \A p \in 1..(q - 1) : home[p] # None
  BY <1>2, ConversationsOK DEF Runs
<1>4. \E n \in Runs : home[n] = None /\ \A p \in 1..(n - 1) : home[p] # None
  BY <1>3
<1> QED BY <1>4 DEF NewRun

\* The latest Run of a conversation is one of its Runs.
LEMMA LatestIsOne ==
  ASSUME NEW c
  PROVE  LatestRun(c) = NoRun \/ (LatestRun(c) \in Runs /\ home[LatestRun(c)] = c)
<1> DEFINE of == {r \in Runs : home[r] = c}
<1>1. CASE of = {}
  BY <1>1 DEF LatestRun
<1>2. CASE of # {}
  <2>1. of \in SUBSET (1..MaxRuns) /\ MaxRuns \in Nat
    BY ConversationsOK DEF Runs
  <2>2. Seeing!Max(of) \in of /\ \A m \in of : m <= Seeing!Max(of)
    BY <1>2, <2>1, Seeing!Greatest
  <2>3. \E r \in of : \A q \in of : q <= r
    BY <2>2
  <2>4. (CHOOSE r \in of : \A q \in of : q <= r) \in of
    BY <2>3
  <2> QED BY <1>2, <2>4 DEF LatestRun
<1> QED BY <1>1, <1>2

\* A Run starts.
LEMMA StartKeepsServer ==
  ASSUME ServerInv, NEW s \in Slots, NEW c \in Conversations, SendStarts(s, c)
  PROVE  ServerInv' /\ Grows
<1> DEFINE r == NewRun
<1>1. /\ r \in Runs /\ home[r] = None
  BY NewRunIsNew DEF SendStarts
<1>2. /\ home' = [home EXCEPT ![r] = c] /\ log' = [log EXCEPT ![r] = <<"started">>]
      /\ alive' = alive \cup {c}
      /\ row' = [q \in Runs |-> IF q = r THEN "running"
                                ELSE IF home[q] = c /\ card[q] = "pending" THEN "cancelled"
                                ELSE row[q]]
      /\ card' = [q \in Runs |-> IF home[q] = c /\ card[q] = "pending" THEN "superseded"
                                 ELSE card[q]]
      /\ c \in alive \/ \A q \in Runs : home[q] # c
  BY DEF SendStarts, NewRun
<1> HIDE DEF r
<1>3. /\ home' \in [Runs -> Conversations \cup {None}] /\ alive' \subseteq Conversations
      /\ home'[r] = c /\ \A q \in Runs \ {r} : home'[q] = home[q]
      /\ log'[r] = <<"started">> /\ \A q \in Runs \ {r} : log'[q] = log[q]
  BY <1>1, <1>2 DEF ServerInv, ServerTypeOK
<1>4. log' \in [Runs -> Seq(LogTypes)]
  <2>1. <<"started">> \in Seq(LogTypes)
    BY DEF LogTypes
  <2> QED BY <1>2, <2>1 DEF ServerInv, ServerTypeOK
<1>5. row' \in [Runs -> Rows] /\ card' \in [Runs -> Cards]
  BY <1>2 DEF ServerInv, ServerTypeOK, Rows, Cards
<1>6. c # None
  BY ConversationsOK
<1>7. log[r] = <<>> /\ row[r] = "none" /\ card[r] = "none"
  BY <1>1, ConversationsOK DEF ServerInv, ServerTypeOK, RunOK
<1>8. Grows
  <2>1. \A q \in Runs : Len(log[q]) \in Nat
    BY DEF ServerInv, ServerTypeOK
  <2>2. Len(log[r]) = 0 /\ Len(log'[r]) = 1 /\ DOMAIN log[r] = {}
    BY <1>3, <1>7
  <2> QED BY <1>1, <1>3, <2>1, <2>2 DEF Grows
<1>9. ASSUME NEW q \in Runs PROVE RunOK(q)'
  <2>1. RunOK(q)
    BY DEF ServerInv
  <2>2. CASE q = r
    <3>1. /\ home'[q] = c /\ c \in alive' /\ row'[q] = "running" /\ card'[q] = "none"
          /\ log'[q] = <<"started">>
      BY <1>1, <1>2, <1>3, <1>6, <1>7, <2>2
    <3>2. DOMAIN log'[q] = {1} /\ log'[q][1] = "started"
      BY <3>1
    <3> QED BY <1>6, <3>1, <3>2 DEF RunOK, Has
  <2>3. CASE q # r /\ home[q] = c /\ card[q] = "pending"
    <3>1. /\ home'[q] = home[q] /\ log'[q] = log[q] /\ row'[q] = "cancelled"
          /\ card'[q] = "superseded" /\ home[q] \in alive /\ home'[q] \in alive'
      BY <1>2, <1>3, <2>1, <2>3 DEF RunOK
    <3> QED BY <2>1, <2>3, <3>1 DEF RunOK, Has
  <2>4. CASE q # r /\ ~(home[q] = c /\ card[q] = "pending")
    <3>1. /\ home'[q] = home[q] /\ log'[q] = log[q] /\ row'[q] = row[q] /\ card'[q] = card[q]
          /\ alive \subseteq alive' /\ (home[q] \in alive' => home[q] \in alive)
      BY <1>2, <1>3, <2>4
    <3> QED BY <2>1, <3>1, RunKept
  <2> QED BY <2>2, <2>3, <2>4
<1> QED BY <1>3, <1>4, <1>5, <1>8, <1>9 DEF ServerInv, ServerTypeOK

\* What happens to the rows and the log of one Run.
LEMMA RunKeepsServer ==
  ASSUME ServerInv, NEW r \in Runs, UNCHANGED <<home, alive>>,
         row' \in [Runs -> Rows], card' \in [Runs -> Cards],
         \A q \in Runs \ {r} : row'[q] = row[q] /\ card'[q] = card[q] /\ log'[q] = log[q],
         log' \in [Runs -> Seq(LogTypes)], RunOK(r)'
  PROVE  ServerInv'
<1>1. ASSUME NEW q \in Runs PROVE RunOK(q)'
  BY RunKept DEF ServerInv
<1> QED BY <1>1 DEF ServerInv, ServerTypeOK

\* A Run stays as it should be when it has one more event, if its rows agree with
\* it.
LEMMA RunGoesOn ==
  ASSUME ServerTypeOK, NEW r \in Runs, RunOK(r), home[r] # None,
         NEW type \in LogTypes, type # "started",
         log' = [log EXCEPT ![r] = Append(@, type)], home' = home, alive' = alive,
         home[r] \in alive, row'[r] # "none",
         type = "required" => ~Has(r, "decided"),
         row'[r] = "completed" => type = "completed" \/ Has(r, "completed"),
         card'[r] = "pending" => row'[r] \in {"waiting", "cancelled"},
         type = "required" \/ Has(r, "required") => card'[r] # "none",
         type = "decided" \/ Has(r, "decided") => card'[r] = "decided",
         card'[r] = "decided" => type = "decided" \/ Has(r, "decided")
  PROVE  RunOK(r)'
<1> DEFINE n == Len(log[r])
           ev == log[r]
           more == log'[r]
<1>1. /\ n \in Nat /\ DOMAIN ev = 1..n /\ DOMAIN more = 1..(n + 1)
      /\ more[n + 1] = type /\ \A i \in 1..n : more[i] = ev[i]
      /\ more # <<>>
  BY OneMore
<1>2. n > 0
  <2>1. log[r] \in Seq(LogTypes) /\ log[r] # <<>>
    BY DEF ServerTypeOK, RunOK
  <2> QED BY <2>1
<1> HIDE DEF n
<1>3. \A t : Has(r, t) <=> \E i \in 1..n : ev[i] = t
  BY <1>1 DEF Has
<1>4. \A t : (\E i \in DOMAIN more : more[i] = t) <=> (t = type \/ Has(r, t))
  <2> HIDE DEF more, ev
  <2> SUFFICES ASSUME NEW t
               PROVE  (\E i \in 1..(n + 1) : more[i] = t) <=> (t = type \/ \E i \in 1..n : ev[i] = t)
    BY <1>1, <1>3
  <2> QED BY <1>1
<1>5. \A i \in DOMAIN more : more[i] = "started" <=> i = 1
  <2>1. \A i \in 1..n : ev[i] = "started" <=> i = 1
    BY <1>1 DEF RunOK
  <2> HIDE DEF more, ev
  <2> QED BY <1>1, <1>2, <2>1
<1>6. \A i, k \in DOMAIN more : more[i] = "required" /\ more[k] = "decided" => i < k
  <2>1. \A i, k \in 1..n : ev[i] = "required" /\ ev[k] = "decided" => i < k
    BY <1>1 DEF RunOK
  <2>2. type = "required" => \A k \in 1..n : ev[k] # "decided"
    BY <1>3
  <2> HIDE DEF more, ev
  <2> QED BY <1>1, <2>1, <2>2
<1>7. home'[r] = home[r] /\ home'[r] \in alive' /\ log'[r] # <<>>
  BY <1>1
<1>8. \A t : Has(r, t)' <=> (t = type \/ Has(r, t))
  BY <1>4 DEF Has
<1>9. /\ \A i \in DOMAIN log'[r] : log'[r][i] = "started" <=> i = 1
      /\ \A i, k \in DOMAIN log'[r] : log'[r][i] = "required" /\ log'[r][k] = "decided" => i < k
  BY <1>5, <1>6
<1> HIDE DEF ev, more
<1> QED BY <1>7, <1>8, <1>9 DEF RunOK

LEMMA EventsKeepServer ==
  ASSUME ServerInv, NEW r \in Runs, RunPauses(r) \/ RunResumes(r) \/ RunEnds(r)
  PROVE  ServerInv' /\ Grows
<1>1. ServerTypeOK /\ RunOK(r)
  BY DEF ServerInv
<1>2. CASE RunPauses(r)
  <2>1. log' = [log EXCEPT ![r] = Append(@, "required")] /\ home' = home /\ alive' = alive
    BY <1>2 DEF RunPauses
  <2>2. /\ row' \in [Runs -> Rows] /\ card' \in [Runs -> Cards]
        /\ row'[r] = "waiting" /\ card'[r] = "pending" /\ row[r] = "running" /\ card[r] = "none"
        /\ \A q \in Runs \ {r} : row'[q] = row[q] /\ card'[q] = card[q]
    BY <1>1, <1>2 DEF RunPauses, ServerTypeOK, Rows, Cards
  <2>3. "required" \in LogTypes
    BY DEF LogTypes
  <2>4. RunOK(r)'
    <3>1. home[r] \in alive /\ home[r] # None
      BY <1>1, <2>2, ConversationsOK DEF RunOK, ServerTypeOK
    <3> QED BY <1>1, <2>1, <2>2, <2>3, <3>1, RunGoesOn DEF RunOK
  <2> QED BY <1>1, <2>1, <2>2, <2>3, <2>4, OneMore, RunKeepsServer
<1>3. CASE RunResumes(r)
  <2>1. log' = [log EXCEPT ![r] = Append(@, "decided")] /\ home' = home /\ alive' = alive
        /\ row' = row
    BY <1>3 DEF RunResumes
  <2>2. /\ row' \in [Runs -> Rows] /\ card' \in [Runs -> Cards]
        /\ row'[r] = "running" /\ card'[r] = "decided" /\ row[r] = "running" /\ card[r] = "claimed"
        /\ \A q \in Runs \ {r} : row'[q] = row[q] /\ card'[q] = card[q]
    BY <1>1, <1>3 DEF RunResumes, ServerTypeOK, Rows, Cards
  <2>3. "decided" \in LogTypes
    BY DEF LogTypes
  <2>4. RunOK(r)'
    <3>1. home[r] \in alive /\ home[r] # None
      BY <1>1, <2>2, ConversationsOK DEF RunOK, ServerTypeOK
    <3> QED BY <1>1, <2>1, <2>2, <2>3, <3>1, RunGoesOn DEF RunOK
  <2> QED BY <1>1, <2>1, <2>2, <2>3, <2>4, OneMore, RunKeepsServer
<1>4. CASE RunEnds(r)
  <2>1. log' = [log EXCEPT ![r] = Append(@, "completed")] /\ home' = home /\ alive' = alive
        /\ card' = card
    BY <1>4 DEF RunEnds
  <2>2. /\ row' \in [Runs -> Rows] /\ card' \in [Runs -> Cards]
        /\ row'[r] = "completed" /\ row[r] = "running" /\ card'[r] = card[r]
        /\ \A q \in Runs \ {r} : row'[q] = row[q] /\ card'[q] = card[q]
    BY <1>1, <1>4 DEF RunEnds, ServerTypeOK, Rows, Cards
  <2>3. "completed" \in LogTypes
    BY DEF LogTypes
  <2>4. RunOK(r)'
    <3>1. home[r] \in alive /\ home[r] # None
      BY <1>1, <2>2, ConversationsOK DEF RunOK, ServerTypeOK
    <3>2. /\ card'[r] # "pending"
          /\ Has(r, "required") => card'[r] # "none"
          /\ Has(r, "decided") <=> card'[r] = "decided"
      BY <1>1, <2>2, <3>1 DEF RunOK
    <3> QED BY <1>1, <2>1, <2>2, <2>3, <3>1, <3>2, RunGoesOn
  <2> QED BY <1>1, <2>1, <2>2, <2>3, <2>4, OneMore, RunKeepsServer
<1> QED BY <1>2, <1>3, <1>4

\* A decision is claimed.
LEMMA ClaimKeepsServer ==
  ASSUME ServerInv, NEW s \in Slots, job[s].run \in Runs, Claims(s)
  PROVE  ServerInv' /\ Grows
<1> PICK r \in Runs : r = job[s].run
  OBVIOUS
<1>1. ServerTypeOK /\ RunOK(r)
  BY DEF ServerInv
<1>2. /\ UNCHANGED <<home, log, alive>> /\ home[r] \in alive
      /\ IF card[r] = "pending"
         THEN card' = [card EXCEPT ![r] = "claimed"] /\ row' = [row EXCEPT ![r] = "running"]
         ELSE UNCHANGED <<card, row>>
  BY DEF Claims
<1>3. Grows
  <2>1. \A q \in Runs : Len(log[q]) \in Nat
    BY <1>1 DEF ServerTypeOK
  <2> QED BY <1>2, <2>1 DEF Grows
<1>4. CASE card[r] # "pending"
  <2>1. ServerTypeOK' /\ \A q \in Runs : RunOK(q)'
    BY <1>1, <1>2, <1>4, RunKept DEF ServerInv, ServerTypeOK
  <2> QED BY <1>3, <2>1 DEF ServerInv
<1>5. CASE card[r] = "pending"
  <2> row \in [Runs -> Rows] /\ card \in [Runs -> Cards]
    BY <1>1 DEF ServerTypeOK
  <2> card' = [card EXCEPT ![r] = "claimed"] /\ row' = [row EXCEPT ![r] = "running"]
    BY <1>2, <1>5
  <2>1. /\ row' \in [Runs -> Rows] /\ card' \in [Runs -> Cards]
        /\ row'[r] = "running" /\ card'[r] = "claimed"
        /\ \A q \in Runs \ {r} : row'[q] = row[q] /\ card'[q] = card[q]
    BY DEF Rows, Cards
  <2>2. RunOK(r)'
    BY <1>1, <1>2, <1>5, <2>1 DEF RunOK, Has
  <2>3. log' \in [Runs -> Seq(LogTypes)] /\ \A q \in Runs \ {r} : log'[q] = log[q]
    BY <1>1, <1>2 DEF ServerTypeOK
  <2> QED BY <1>1, <1>2, <1>3, <2>1, <2>2, <2>3, RunKeepsServer
<1> QED BY <1>4, <1>5

\* A Run is cancelled, or has ended.
LEMMA CancelKeepsServer ==
  ASSUME ServerInv, NEW s \in Slots, Cancels(s)
  PROVE  ServerInv' /\ Grows
<1> PICK r \in Runs : r = job[s].run
  BY DEF Cancels
<1>1. ServerTypeOK /\ RunOK(r)
  BY DEF ServerInv
<1>2. /\ UNCHANGED <<home, alive, card>> /\ home[r] \in alive
      /\ IF row[r] \in RunTerminal THEN UNCHANGED <<row, log>>
         ELSE /\ row' = [row EXCEPT ![r] = "cancelled"]
              /\ log' = [log EXCEPT ![r] = Append(@, "cancelled")]
  BY DEF Cancels
<1>3. CASE row[r] \in RunTerminal
  <2>1. ServerTypeOK' /\ \A q \in Runs : RunOK(q)'
    BY <1>1, <1>2, <1>3, RunKept DEF ServerInv, ServerTypeOK
  <2>2. \A q \in Runs : Len(log[q]) \in Nat
    BY <1>1 DEF ServerTypeOK
  <2> QED BY <1>2, <1>3, <2>1, <2>2 DEF ServerInv, Grows
<1>4. CASE row[r] \notin RunTerminal
  <2>1. /\ row' \in [Runs -> Rows] /\ card' \in [Runs -> Cards]
        /\ row'[r] = "cancelled" /\ card'[r] = card[r]
        /\ \A q \in Runs \ {r} : row'[q] = row[q] /\ card'[q] = card[q]
        /\ log' = [log EXCEPT ![r] = Append(@, "cancelled")] /\ home' = home /\ alive' = alive
    BY <1>1, <1>2, <1>4 DEF ServerTypeOK, Rows, Cards
  <2>2. "cancelled" \in LogTypes
    BY DEF LogTypes
  <2>3. home[r] \in alive /\ home[r] # None
    BY <1>1, <1>2, ConversationsOK DEF ServerTypeOK
  <2>4. /\ Has(r, "required") => card'[r] # "none"
        /\ Has(r, "decided") <=> card'[r] = "decided"
    BY <1>1, <2>1, <2>3 DEF RunOK
  <2>5. RunOK(r)'
    BY <1>1, <2>1, <2>2, <2>3, <2>4, RunGoesOn
  <2> QED BY <1>1, <2>1, <2>2, <2>5, OneMore, RunKeepsServer
<1> QED BY <1>3, <1>4

\* A conversation is deleted with its Runs.
LEMMA DeleteKeepsServer ==
  ASSUME ServerInv, NEW s \in Slots, Deletes(s)
  PROVE  ServerInv' /\ Grows
<1> DEFINE c == job[s].conv
<1>1. ServerTypeOK
  BY DEF ServerInv
<1>2. /\ UNCHANGED <<home, log>> /\ alive' = alive \ {c}
      /\ row' = [r \in Runs |-> IF home[r] = c THEN "none" ELSE row[r]]
      /\ card' = [r \in Runs |-> IF home[r] = c THEN "none" ELSE card[r]]
  BY DEF Deletes
<1> HIDE DEF c
<1>3. ServerTypeOK'
  BY <1>1, <1>2 DEF ServerTypeOK, Rows, Cards
<1>4. ASSUME NEW q \in Runs PROVE RunOK(q)'
  <2>1. RunOK(q) /\ home'[q] = home[q] /\ log'[q] = log[q]
    BY <1>2 DEF ServerInv
  <2>2. CASE home[q] = c
    <3>1. row'[q] = "none" /\ card'[q] = "none" /\ home'[q] \notin alive'
      BY <1>2, <2>1, <2>2
    <3> QED BY <2>1, <3>1 DEF RunOK, Has
  <2>3. CASE home[q] # c
    <3>1. row'[q] = row[q] /\ card'[q] = card[q] /\ (home'[q] \in alive' <=> home[q] \in alive)
      BY <1>2, <2>1, <2>3
    <3> QED BY <2>1, <3>1 DEF RunOK, Has
  <2> QED BY <2>2, <2>3
<1>5. Grows
  <2>1. \A q \in Runs : Len(log[q]) \in Nat
    BY <1>1 DEF ServerTypeOK
  <2> QED BY <1>2, <2>1 DEF Grows
<1> QED BY <1>3, <1>4, <1>5 DEF ServerInv

\* What is done at the page changes nothing in the database.
LEMMA ServerKept ==
  ASSUME ServerInv, UNCHANGED server
  PROVE  ServerInv' /\ Grows
<1>1. \A q \in Runs : Len(log[q]) \in Nat
  BY DEF ServerInv, ServerTypeOK
<1> QED BY <1>1 DEF server, ServerInv, ServerTypeOK, RunOK, Has, Grows

\* The steps that change something in it.
AtServer ==
  \/ \E s \in Slots : \/ Claims(s) \/ Cancels(s) \/ Deletes(s)
                      \/ \E c \in Conversations : SendStarts(s, c)
  \/ \E r \in Runs : RunPauses(r) \/ RunResumes(r) \/ RunEnds(r)

LEMMA OnlyAtServer ==
  ASSUME [Next]_vars
  PROVE  AtServer \/ UNCHANGED server
<1>1. CASE UserActs
  BY <1>1 DEF UserActs, Select, New, Fresh, Send, Decide, Stop, Delete, Reload
<1>2. CASE PageAnswered
  BY <1>2 DEF PageAnswered, AtServer, RestoreLists, RestoreReadsCard, RestoreApplies, RestoreFails,
              RestoreReadsEvents, Deliver, End, Break, FirstPoll, LatePoll, Cancelled, NoAnswer,
              Follow, Deleted
<1>3. CASE UNCHANGED vars
  BY <1>3 DEF vars, server
<1> QED BY <1>1, <1>2, <1>3 DEF Next, AtServer

-----------------------------------------------------------------------------
(***************************************************************************)
(* The view.                                                               *)
(***************************************************************************)
Statuses == Rows \cup {"interrupted"}
ViewCards == {"none", "pending", "decided", "executing"}
Shown == Runs \cup {NoRun, Pending}
Seens == SUBSET ((Runs \X Nat) \cup {Local})

ViewTypes == [run : Shown, status : Statuses, seen : Seens, card : [Runs -> ViewCards]]

\* The events of the logs.
Happened == UNION {{<<r, i>> : i \in DOMAIN log[r]} : r \in Runs}

\* A view shows what happened, of Runs that started.
Views ==
  {v \in ViewTypes :
     /\ v.seen \subseteq Happened \cup {Local}
     /\ \A r \in Runs : v.card[r] # "none" => home[r] # None
     /\ v.run \in Runs => home[v.run] # None}

LEMMA ViewSet ==
  ASSUME NEW v \in ViewTypes
  PROVE  /\ \A x \in Shown : LET w == [v EXCEPT !.run = x]
                             IN /\ w \in ViewTypes /\ w.run = x /\ w.status = v.status
                                /\ w.seen = v.seen /\ w.card = v.card
         /\ \A x \in Statuses : LET w == [v EXCEPT !.status = x]
                                IN /\ w \in ViewTypes /\ w.run = v.run /\ w.status = x
                                   /\ w.seen = v.seen /\ w.card = v.card
         /\ \A x \in Seens : LET w == [v EXCEPT !.seen = x]
                             IN /\ w \in ViewTypes /\ w.run = v.run /\ w.status = v.status
                                /\ w.seen = x /\ w.card = v.card
         /\ \A x \in [Runs -> ViewCards] : LET w == [v EXCEPT !.card = x]
                             IN /\ w \in ViewTypes /\ w.run = v.run /\ w.status = v.status
                                /\ w.seen = v.seen /\ w.card = x
BY DEF ViewTypes

LEMMA EmptyIsView ==
  /\ EmptyView \in ViewTypes /\ EmptyView \in Views
  /\ EmptyView.run = NoRun /\ EmptyView.status = "none" /\ EmptyView.seen = {}
  /\ \A r \in Runs : EmptyView.card[r] = "none"
<1>1. EmptyView \in ViewTypes
  BY DEF EmptyView, ViewTypes, Shown, Statuses, Rows, Seens, ViewCards
<1>2. NoRun \notin Runs
  BY ConversationsOK DEF NoRun, Runs
<1> QED BY <1>1, <1>2 DEF EmptyView, Views

\* An event that happened, as what it is.
LEMMA EventIs ==
  ASSUME ServerInv, NEW e \in Happened
  PROVE  /\ e[1] \in Runs /\ e[2] \in DOMAIN log[e[1]] /\ e[2] \in Nat /\ e = <<e[1], e[2]>>
         /\ e \in Runs \X Nat /\ e # Local /\ log[e[1]][e[2]] \in LogTypes
         /\ home[e[1]] # None
<1>0. PICK r \in Runs : e \in {<<r, i>> : i \in DOMAIN log[r]}
  BY DEF Happened
<1>1. PICK i \in DOMAIN log[r] : e = <<r, i>>
  BY <1>0
<1>2. log[r] \in Seq(LogTypes)
  BY DEF ServerInv, ServerTypeOK
<1>3. DOMAIN log[r] \subseteq Nat /\ log[r][i] \in LogTypes /\ log[r] # <<>>
  BY <1>2
<1>4. home[r] # None
  BY <1>3 DEF ServerInv, RunOK
<1>5. e # Local
  BY <1>1, ConversationsOK DEF Local, Runs
<1> QED BY <1>1, <1>3, <1>4, <1>5

\* How the reducer takes an event.
LEMMA SeeIs ==
  ASSUME ServerInv, NEW v \in ViewTypes, NEW e \in Happened
  PROVE  LET r == e[1]
             type == log[e[1]][e[2]]
             w == See(v, e)
         IN /\ w \in ViewTypes
            /\ e \in v.seen => w = v
            /\ e \notin v.seen /\ type = "started" =>
                 /\ w.run = r /\ w.status = "running"
                 /\ v.run = r => w.seen = v.seen \cup {e} /\ w.card = v.card
                 /\ v.run # r => w.seen = {e} /\ w.card = EmptyView.card
            /\ e \notin v.seen /\ type = "required" =>
                 /\ w.run = v.run /\ w.status = "waiting" /\ w.seen = v.seen \cup {e}
                 /\ w.card[r] = "pending" /\ \A q \in Runs \ {r} : w.card[q] = v.card[q]
            /\ e \notin v.seen /\ type = "decided" =>
                 /\ w.run = v.run /\ w.status = v.status /\ w.seen = v.seen \cup {e}
                 /\ w.card[r] = IF v.card[r] = "none" THEN "none" ELSE "decided"
                 /\ \A q \in Runs \ {r} : w.card[q] = v.card[q]
            /\ e \notin v.seen /\ type \in {"completed", "cancelled"} =>
                 /\ w.run = r /\ w.status = type /\ w.seen = v.seen \cup {e} /\ w.card = v.card
<1> DEFINE r == e[1]
           type == log[e[1]][e[2]]
           w == See(v, e)
<1>1. e \in Runs \X Nat /\ r \in Runs /\ r \in Shown /\ type \in LogTypes
  BY EventIs DEF Shown
<1>2. "running" \in Statuses /\ "waiting" \in Statuses /\ "completed" \in Statuses
      /\ "cancelled" \in Statuses
  BY DEF Statuses, Rows
<1> HIDE DEF r, type
<1>3. CASE e \in v.seen
  <2>1. w = v
    BY <1>3 DEF See
  <2> QED BY <1>3, <2>1
<1>4. CASE e \notin v.seen
  <2> DEFINE base == IF type = "started" /\ v.run # r THEN EmptyView ELSE v
             more == [base EXCEPT !.seen = @ \cup {e}]
  <2>1. base \in ViewTypes
    BY EmptyIsView
  <2>2. base.seen \cup {e} \in Seens
    BY <1>1, <2>1 DEF ViewTypes, Seens
  <2>3. more = [base EXCEPT !.seen = base.seen \cup {e}]
    OBVIOUS
  <2>4. /\ more \in ViewTypes /\ more.run = base.run /\ more.status = base.status
        /\ more.seen = base.seen \cup {e} /\ more.card = base.card
    <3> HIDE DEF base, more
    <3> QED BY <2>1, <2>2, <2>3, ViewSet
  <2>5. base = IF type = "started" /\ v.run # r THEN EmptyView ELSE v
    OBVIOUS
  <2>6. w = CASE type = "started" -> [more EXCEPT !.run = r, !.status = "running"]
              [] type = "required" -> [more EXCEPT !.status = "waiting", !.card[r] = "pending"]
              [] type = "decided" ->
                   [more EXCEPT !.card[r] = IF @ = "none" THEN @ ELSE "decided"]
              [] OTHER -> [more EXCEPT !.run = r, !.status = type]
    BY <1>4 DEF See, r, type
  <2> HIDE DEF base, more, w
  <2>7. CASE type = "started"
    <3> DEFINE a == [more EXCEPT !.run = r]
    <3>1. w = [a EXCEPT !.status = "running"]
      BY <2>6, <2>7
    <3>2. a \in ViewTypes /\ a.run = r /\ a.seen = more.seen /\ a.card = more.card
      BY <1>1, <2>4, ViewSet
    <3> HIDE DEF a
    <3>3. w \in ViewTypes /\ w.run = r /\ w.status = "running" /\ w.seen = more.seen /\ w.card = more.card
      BY <1>2, <3>1, <3>2, ViewSet
    <3> QED BY <1>4, <2>4, <2>5, <2>7, <3>3, EmptyIsView DEF r, type, w
  <2>8. CASE type = "required"
    <3> DEFINE a == [more EXCEPT !.status = "waiting"]
               cards == [more.card EXCEPT ![r] = "pending"]
    <3>1. a \in ViewTypes /\ a.run = more.run /\ a.status = "waiting" /\ a.seen = more.seen
          /\ a.card = more.card
      BY <1>2, <2>4, ViewSet
    <3>2. w = [a EXCEPT !.card = [a.card EXCEPT ![r] = "pending"]]
      BY <2>6, <2>8
    <3>3. cards \in [Runs -> ViewCards] /\ cards[r] = "pending"
          /\ \A q \in Runs \ {r} : cards[q] = more.card[q]
      BY <1>1, <2>4 DEF ViewTypes, ViewCards
    <3>4. w = [a EXCEPT !.card = cards]
      BY <3>1, <3>2
    <3> HIDE DEF a, cards
    <3>5. w \in ViewTypes /\ w.run = a.run /\ w.status = a.status /\ w.seen = a.seen /\ w.card = cards
      BY <3>1, <3>3, <3>4, ViewSet
    <3>6. base = v
      BY <2>5, <2>8
    <3> QED BY <1>4, <2>4, <2>8, <3>1, <3>3, <3>5, <3>6 DEF r, type, w
  <2>9. CASE type = "decided"
    <3> DEFINE d == IF more.card[r] = "none" THEN "none" ELSE "decided"
               cards == [more.card EXCEPT ![r] = d]
    <3>1. w = [more EXCEPT !.card = [more.card EXCEPT ![r] = IF @ = "none" THEN @ ELSE "decided"]]
      BY <2>6, <2>9
    <3>2. d \in ViewCards
      BY DEF ViewCards
    <3>3. w = [more EXCEPT !.card = cards]
      BY <1>1, <2>4, <3>1 DEF ViewTypes
    <3>4. more.card \in [Runs -> ViewCards]
      BY <2>4 DEF ViewTypes
    <3> HIDE DEF d
    <3>5. cards \in [Runs -> ViewCards] /\ cards[r] = d
          /\ \A q \in Runs \ {r} : cards[q] = more.card[q]
      BY <1>1, <3>2, <3>4
    <3> HIDE DEF cards
    <3>6. w \in ViewTypes /\ w.run = more.run /\ w.status = more.status /\ w.seen = more.seen
          /\ w.card = cards
      BY <2>4, <3>3, <3>5, ViewSet
    <3>7. base = v
      BY <2>5, <2>9
    <3> QED BY <1>4, <2>4, <2>9, <3>5, <3>6, <3>7 DEF r, type, w, d
  <2>10. CASE type \in {"completed", "cancelled"}
    <3> DEFINE a == [more EXCEPT !.run = r]
    <3>1. w = [a EXCEPT !.status = type]
      BY <2>6, <2>10
    <3>2. a \in ViewTypes /\ a.run = r /\ a.seen = more.seen /\ a.card = more.card
      BY <1>1, <2>4, ViewSet
    <3> HIDE DEF a
    <3>3. w \in ViewTypes /\ w.run = r /\ w.status = type /\ w.seen = more.seen /\ w.card = more.card
      BY <1>2, <2>10, <3>1, <3>2, ViewSet
    <3>4. base = v
      BY <2>5, <2>10
    <3> QED BY <1>4, <2>4, <2>10, <3>3, <3>4 DEF r, type, w
  <2> QED BY <1>1, <2>7, <2>8, <2>9, <2>10 DEF LogTypes
<1> QED BY <1>3, <1>4

\* The events of Run r with the numbers after from, up to upto.
EventsOf(r, from, upto) == {<<r, i>> : i \in (from + 1)..upto}

LEMMA EventsAre ==
  ASSUME NEW r, NEW from \in Nat, NEW upto \in Nat
  PROVE  /\ Events(r, from, upto) \in Seq(EventsOf(r, from, upto))
         /\ Len(Events(r, from, upto)) = IF upto > from THEN upto - from ELSE 0
         /\ \A k \in 1..Len(Events(r, from, upto)) : Events(r, from, upto)[k] = <<r, from + k>>
<1> DEFINE n == IF upto > from THEN upto - from ELSE 0
           E == EventsOf(r, from, upto)
<1>1. n \in Nat /\ \A i \in 1..n : from + i \in (from + 1)..upto
  OBVIOUS
<1>2. Events(r, from, upto) = [i \in 1..n |-> <<r, from + i>>]
  BY DEF Events
<1>3. \A i \in 1..n : <<r, from + i>> \in E
  BY <1>1 DEF EventsOf
<1> HIDE DEF n, E
<1>4. [i \in 1..n |-> <<r, from + i>>] \in Seq(E) /\ Len([i \in 1..n |-> <<r, from + i>>]) = n
  BY <1>1, <1>3
<1> QED BY <1>2, <1>4 DEF n, E

\* They are taken one after the other.
LEMMA SeeAllIs ==
  ASSUME NEW v, NEW r, NEW from, NEW upto
  PROVE  SeeAll(v, r, from, upto) = Seeing!After(v, Events(r, from, upto))
<1> DEFINE s == Events(r, from, upto)
<1>1. SeeAll(v, r, from, upto) = FoldLeft(See, v, s)
  BY DEF SeeAll
<1> HIDE DEF s
<1>2. Seeing!After(v, s) = FoldLeft(See, v, s)
  BY DEF Seeing!After, Seeing!FoldLeft, Seeing!MapThenFoldSet, Seeing!Max,
         FoldLeft, MapThenFoldSet, Max
<1> QED BY <1>1, <1>2 DEF s

\* What each event of a list keeps, the list keeps ...
LEMMA SeeAllStays ==
  ASSUME NEW r, NEW from \in Nat, NEW upto \in Nat, NEW V, NEW v \in V,
         \A w \in V, e \in EventsOf(r, from, upto) : See(w, e) \in V
  PROVE  SeeAll(v, r, from, upto) \in V
BY EventsAre, SeeAllIs, Seeing!AfterStays

\* ... and where each goes on from the one before, the list ends.
LEMMA SeeAllPasses ==
  ASSUME NEW r, NEW from \in Nat, NEW upto \in Nat, from <= upto, NEW Q, NEW v \in Q[from],
         \A k \in from..(upto - 1) : \A w \in Q[k] : See(w, <<r, k + 1>>) \in Q[k + 1]
  PROVE  SeeAll(v, r, from, upto) \in Q[upto]
<1> DEFINE n == upto - from
           T == [k \in 0..n |-> Q[from + k]]
           s == Events(r, from, upto)
           E == EventsOf(r, from, upto)
<1>1. /\ n \in Nat /\ from + n = upto /\ from + 0 = from
      /\ s \in Seq(E) /\ Len(s) = n /\ \A k \in 1..n : s[k] = <<r, from + k>>
  BY EventsAre
<1>2. v \in T[0] /\ T[n] = Q[upto]
  BY <1>1
<1>3. \A k \in 0..(n - 1) : \A w \in T[k] : See(w, s[k + 1]) \in T[k + 1]
  <2> SUFFICES ASSUME NEW k \in 0..(n - 1), NEW w \in T[k]
               PROVE  See(w, s[k + 1]) \in T[k + 1]
    OBVIOUS
  <2>1. /\ k \in 0..n /\ k + 1 \in 0..n /\ k + 1 \in 1..n /\ from + k \in from..(upto - 1)
        /\ from + (k + 1) = (from + k) + 1
    BY <1>1
  <2>2. w \in Q[from + k] /\ T[k + 1] = Q[(from + k) + 1] /\ s[k + 1] = <<r, (from + k) + 1>>
    BY <1>1, <2>1
  <2> QED BY <2>1, <2>2
<1> HIDE DEF n, T, s, E
<1>4. Seeing!After(v, s) \in T[Len(s)]
  BY <1>1, <1>2, <1>3, Seeing!AfterPasses
<1> QED BY <1>1, <1>2, <1>4, SeeAllIs DEF s

\* Nothing is listed from the end on.
LEMMA SeeNone ==
  ASSUME NEW r, NEW from \in Nat, NEW upto \in Nat, upto <= from, NEW v
  PROVE  SeeAll(v, r, from, upto) = v
<1>1. Events(r, from, upto) = <<>>
  BY DEF Events
<1> QED BY <1>1, SeeAllIs, Seeing!AfterNone

\* The events that a log has happened.
LEMMA ListedHappened ==
  ASSUME ServerInv, NEW r \in Runs, NEW from \in Nat, NEW upto \in Nat, upto <= Len(log[r])
  PROVE  EventsOf(r, from, upto) \subseteq Happened
<1>1. DOMAIN log[r] = 1..Len(log[r]) /\ Len(log[r]) \in Nat
  BY DEF ServerInv, ServerTypeOK
<1>2. (from + 1)..upto \subseteq DOMAIN log[r]
  BY <1>1
<1> QED BY <1>2 DEF EventsOf, Happened

\* A view stays one with each event, and with a list of them.
LEMMA SeeKeeps ==
  ASSUME ServerInv, NEW v \in Views, NEW e \in Happened
  PROVE  See(v, e) \in Views
<1> DEFINE w == See(v, e)
           r == e[1]
<1>1. r \in Runs /\ home[r] # None /\ log[e[1]][e[2]] \in LogTypes /\ v \in ViewTypes
  BY EventIs DEF Views
<1>2. w \in ViewTypes
  BY <1>1, SeeIs
<1>3. CASE e \in v.seen
  <2>1. w = v
    BY <1>1, <1>3, SeeIs
  <2> QED BY <2>1
<1>4. CASE e \notin v.seen
  <2>1. w.seen \subseteq v.seen \cup {e} /\ w.run \in {v.run, r}
        /\ \A q \in Runs \ {r} : w.card[q] \in {v.card[q], "none"}
    BY <1>1, <1>4, SeeIs, EmptyIsView DEF LogTypes
  <2> HIDE DEF w, r
  <2> QED BY <1>1, <1>2, <2>1 DEF Views, w
<1> QED BY <1>3, <1>4

LEMMA SeeAllKeeps ==
  ASSUME ServerInv, NEW v \in Views, NEW r \in Runs, NEW from \in Nat, NEW upto \in Nat,
         upto <= Len(log[r]) \/ upto <= from
  PROVE  SeeAll(v, r, from, upto) \in Views
<1>1. CASE upto <= from
  BY <1>1, SeeNone
<1>2. CASE upto <= Len(log[r])
  <2>1. \A w \in Views, e \in EventsOf(r, from, upto) : See(w, e) \in Views
    BY <1>2, ListedHappened, SeeKeeps
  <2> QED BY <2>1, SeeAllStays
<1> QED BY <1>1, <1>2

\* A view stays one when Runs go on.
LEMMA ViewsGrow ==
  ASSUME ServerInv, Grows
  PROVE  Views \subseteq Views'
<1>1. Happened \subseteq Happened'
  BY DEF Happened, Grows
<1> QED BY <1>1 DEF Views, Grows, ViewTypes, Shown, Statuses, Rows, Seens, ViewCards, Runs

\* What a restore shows: the replayed events, under the rows that were read.
LEMMA RestoredIs ==
  ASSUME ServerInv, NEW r \in Runs, home[r] # None, NEW rowRead \in Rows,
         NEW cardRead \in Cards, NEW upto \in Nat, upto <= Len(log[r])
  PROVE  LET all == SeeAll(EmptyView, r, 0, upto)
             w == Restored(r, rowRead, cardRead, upto)
         IN /\ all \in Views /\ w \in Views
            /\ w.run = r /\ w.status = rowRead /\ w.seen = all.seen
            /\ \A q \in Runs \ {r} : w.card[q] = all.card[q]
            /\ w.card[r] = CASE cardRead = "none" -> all.card[r]
                             [] cardRead = "pending" -> "pending"
                             [] OTHER -> "decided"
<1> DEFINE all == SeeAll(EmptyView, r, 0, upto)
           w == Restored(r, rowRead, cardRead, upto)
           d == CASE cardRead = "none" -> all.card[r]
                  [] cardRead = "pending" -> "pending"
                  [] OTHER -> "decided"
           cards == [all.card EXCEPT ![r] = d]
           a == [all EXCEPT !.run = r]
           b == [a EXCEPT !.status = rowRead]
<1>1. all \in Views
  BY EmptyIsView, SeeAllKeeps
<1>2. all \in ViewTypes /\ all.card \in [Runs -> ViewCards] /\ r \in Shown /\ rowRead \in Statuses
  BY <1>1 DEF Views, ViewTypes, Shown, Statuses
<1>3. r # NoRun
  BY ConversationsOK DEF NoRun, Runs
<1>4. w = [b EXCEPT !.card[r] = CASE cardRead = "none" -> @
                                  [] cardRead = "pending" -> "pending"
                                  [] OTHER -> "decided"]
  BY <1>3 DEF Restored
<1> HIDE DEF all, w
<1>5. a \in ViewTypes /\ a.run = r /\ a.seen = all.seen /\ a.card = all.card
  BY <1>2, ViewSet
<1> HIDE DEF a
<1>6. b \in ViewTypes /\ b.run = r /\ b.status = rowRead /\ b.seen = all.seen /\ b.card = all.card
  BY <1>2, <1>5, ViewSet
<1> HIDE DEF b
<1>7. w = [b EXCEPT !.card = [b.card EXCEPT ![r] = CASE cardRead = "none" -> @
                                  [] cardRead = "pending" -> "pending"
                                  [] OTHER -> "decided"]]
  BY <1>4
<1>8. w = [b EXCEPT !.card = cards]
  BY <1>2, <1>6, <1>7
<1>9. d \in ViewCards
  BY <1>2 DEF ViewCards
<1>10. d = CASE cardRead = "none" -> all.card[r]
             [] cardRead = "pending" -> "pending"
             [] OTHER -> "decided"
  OBVIOUS
<1> HIDE DEF d
<1>11. cards \in [Runs -> ViewCards] /\ cards[r] = d /\ \A q \in Runs \ {r} : cards[q] = all.card[q]
  BY <1>2, <1>9
<1> HIDE DEF cards
<1>12. /\ w \in ViewTypes /\ w.run = r /\ w.status = rowRead /\ w.seen = all.seen /\ w.card = cards
  BY <1>6, <1>8, <1>11, ViewSet
<1>13. w \in Views
  BY <1>1, <1>11, <1>12 DEF Views
<1> QED BY <1>1, <1>10, <1>11, <1>12, <1>13 DEF all, w

-----------------------------------------------------------------------------
(***************************************************************************)
(* The requests.                                                           *)
(***************************************************************************)
Kinds == {"none", "restore", "send", "decide", "follow", "poll", "cancel", "delete"}

RestoreOK(j) ==
  /\ j.at \in {"asked", "listed"} /\ j.conv \in Conversations /\ j.run \in Runs \cup {NoRun}
  /\ j.row \in Rows /\ j.card \in Cards \cup {"unread"} /\ j.upto \in Nat
  /\ j.at = "asked" => j.run = NoRun /\ j.upto = Far /\ j.card = "unread"
  /\ j.run # NoRun => home[j.run] = j.conv /\ (j.upto # Far => j.upto <= Len(log[j.run]))

SendOK(j) ==
  /\ j.at \in {"posted", "open"} /\ j.conv \in Conversations \cup {None} /\ j.old \in Shown
  /\ j.old \in Runs => home[j.old] # None
  /\ j.upto \in Nat /\ (j.at = "posted" => j.upto = 0)
  /\ j.at = "open" => /\ j.run \in Runs /\ home[j.run] # None /\ j.upto <= Len(log[j.run])
                      /\ j.conv # None => home[j.run] = j.conv

JobIs(j) ==
  /\ j.kind \in Kinds
  /\ j.kind = "restore" => RestoreOK(j)
  /\ j.kind = "send" => SendOK(j)
  /\ j.kind \in {"decide", "follow", "poll"} => j.run \in Runs /\ j.upto \in Nat
  /\ j.kind = "decide" => j.at \in {"asked", "answered"}
  /\ j.kind = "follow" => j.at \in {"first", "late", "open"}
  /\ j.kind = "cancel" => /\ j.run \in Runs \cup {Pending}
                          /\ j.run \in Runs => home[j.run] # None
  /\ j.kind = "delete" => j.conv \in Conversations /\ j.shown \in BOOLEAN

\* Each request asks for what there is.
JobsInv == \A s \in Slots : JobIs(job[s])

Others(s) == \A t \in Slots \ {s} : job'[t] = job[t]

\* A request stays possible when Runs go on.
LEMMA JobGrows ==
  ASSUME ServerInv, Grows, NEW j, JobIs(j)
  PROVE  JobIs(j)'
<1>1. CASE j.kind = "restore"
  <2>1. RestoreOK(j)
    BY <1>1 DEF JobIs
  <2>2. j.run # NoRun => home'[j.run] = home[j.run] /\ Len(log[j.run]) <= Len(log'[j.run])
    BY <2>1, ConversationsOK DEF RestoreOK, Grows
  <2>3. RestoreOK(j)'
    <3>1. j.run # NoRun => Len(log[j.run]) \in Nat /\ Len(log'[j.run]) \in Int
      <4>1. j.run # NoRun => log[j.run] \in Seq(LogTypes)
        BY <2>1 DEF RestoreOK, ServerInv, ServerTypeOK
      <4> QED BY <4>1, <2>2
    <3> QED BY <2>1, <2>2, <3>1 DEF RestoreOK
  <2> QED BY <1>1, <2>3 DEF JobIs
<1>2. CASE j.kind = "send"
  <2>1. SendOK(j)'
    BY <1>2 DEF JobIs, SendOK, Grows, ServerInv, ServerTypeOK
  <2> QED BY <1>2, <2>1 DEF JobIs
<1>3. CASE j.kind \notin {"restore", "send"}
  BY <1>3 DEF JobIs, Grows
<1> QED BY <1>1, <1>2, <1>3

LEMMA JobsHold ==
  ASSUME ServerInv, Grows, JobsInv,
         \A t \in Slots : job'[t] = job[t] \/ JobIs(job[t])' \/ \E j : job'[t] = j /\ JobIs(j)
  PROVE  JobsInv'
<1> SUFFICES ASSUME NEW t \in Slots PROVE JobIs(job[t])'
  BY DEF JobsInv
<1>1. CASE job'[t] = job[t] \/ \E j : job'[t] = j /\ JobIs(j)
  <2>1. PICK j : job'[t] = j /\ JobIs(j)
    BY <1>1 DEF JobsInv
  <2>2. JobIs(j)'
    BY <2>1, JobGrows
  <2> QED BY <2>1, <2>2 DEF JobIs, RestoreOK, SendOK
<1>2. CASE JobIs(job[t])'
  BY <1>2
<1> QED BY <1>1, <1>2

-----------------------------------------------------------------------------
(***************************************************************************)
(* What each step does to the requests.                                    *)
(***************************************************************************)
IsRestoring(k, c) ==
  /\ k.kind = "restore" /\ k.at = "asked" /\ k.conv = c /\ k.run = NoRun
  /\ k.upto = Far /\ k.card = "unread" /\ k.row = "none"

\* What an abort leaves of request j.
Remains(j, k) ==
  \/ k = j
  \/ k = Idle
  \/ /\ j.kind = "follow" /\ k.run = j.run /\ k.upto = j.upto /\ k.at = "late"
     /\ (k.kind = "follow" /\ j.at = "first") \/ (k.kind = "poll" /\ j.at # "first")

LEMMA IdleIs ==
  /\ Idle.kind = "none" /\ \A c : IsRestoring(Restoring(c), c)
BY DEF Idle, Restoring, IsRestoring

LEMMA AbortDoes ==
  ASSUME NEW j, IsRequest(j), NEW late \in BOOLEAN
  PROVE  /\ Remains(j, AfterAbort(j, late))
         /\ j.kind = "send" => AfterAbort(j, late) = Idle
         /\ j.kind = "follow" /\ j.at = "late" => AfterAbort(j, late).kind \in {"poll", "none"}
<1> DEFINE a == [j EXCEPT !.at = "late"]
           p == [j EXCEPT !.kind = "poll"]
           q == [p EXCEPT !.at = "late"]
<1>1. /\ "at" \in Fields /\ "kind" \in Fields /\ "run" \in Fields /\ "upto" \in Fields
  BY DEF Fields
<1>2. a.at = "late" /\ a.kind = j.kind /\ a.run = j.run /\ a.upto = j.upto
  BY <1>1, FieldSet
<1>3. IsRequest(p) /\ p.kind = "poll" /\ p.run = j.run /\ p.upto = j.upto
  BY <1>1, FieldSet
<1>4. q.at = "late" /\ q.kind = "poll" /\ q.run = j.run /\ q.upto = j.upto
  <2> HIDE DEF p
  <2> QED BY <1>1, <1>3, FieldSet
<1>5. q = [j EXCEPT !.kind = "poll", !.at = "late"]
  OBVIOUS
<1>6. AfterAbort(j, late) = IF j.kind = "follow" /\ j.at = "first" THEN a
                            ELSE IF j.kind = "follow" /\ late THEN q ELSE Idle
  BY <1>5 DEF AfterAbort
<1> HIDE DEF a, q
<1> QED BY <1>2, <1>4, <1>6, IdleIs DEF Remains

\* An abort: only the stream of ref is left otherwise.
LEMMA CutDoes ==
  ASSUME RefOK, NEW jobs, jobs = [s \in Slots |-> jobs[s]],
         \A s \in Slots : IsRequest(jobs[s]), NEW late \in BOOLEAN
  PROVE  /\ Cut(jobs, late) = [s \in Slots |-> Cut(jobs, late)[s]]
         /\ \A s \in Slots : IsRequest(Cut(jobs, late)[s])
         /\ \A s \in Slots \ {ref} : Cut(jobs, late)[s] = jobs[s]
         /\ \A s \in Slots : Remains(jobs[s], Cut(jobs, late)[s])
         /\ ref # NoRef => LET k == Cut(jobs, late)[ref]
                           IN /\ jobs[ref].kind = "send" => k = Idle
                              /\ jobs[ref].kind = "follow" /\ jobs[ref].at = "late" => k.kind \in {"poll", "none"}
<1>1. CASE ref = NoRef
  BY <1>1 DEF Cut, Remains
<1>2. CASE ref # NoRef
  <2>1. ref \in Slots /\ IsRequest(jobs[ref])
    BY <1>2 DEF RefOK
  <2> DEFINE k == AfterAbort(jobs[ref], late)
  <2>2. Cut(jobs, late) = [jobs EXCEPT ![ref] = k]
    BY <1>2, <2>1 DEF Cut
  <2>3. /\ Remains(jobs[ref], k) /\ (jobs[ref].kind = "send" => k = Idle)
        /\ jobs[ref].kind = "follow" /\ jobs[ref].at = "late" => k.kind \in {"poll", "none"}
    BY <2>1, AbortDoes
  <2>4. Cut(jobs, late)[ref] = k /\ \A s \in Slots \ {ref} : Cut(jobs, late)[s] = jobs[s]
    <3> HIDE DEF k
    <3> QED BY <2>1, <2>2
  <2>5. \A s \in Slots : Remains(jobs[s], Cut(jobs, late)[s])
    <3> HIDE DEF k
    <3> QED BY <2>3, <2>4 DEF Remains
  <2> QED BY <1>2, <2>1, <2>3, <2>4, <2>5, AfterCut
<1> QED BY <1>1, <1>2

\* What the user asks for.
LEMMA SelectDoes ==
  ASSUME PageInv, NEW c \in Conversations, Select(c)
  PROVE  \E s \in Slots : Free(s) /\ Others(s) /\ IsRestoring(job'[s], c)
<1>1. PICK s \in Slots : Free(s) /\ job' = [job EXCEPT ![s] = Restoring(c)]
  BY DEF Select
<1>2. job'[s] = Restoring(c) /\ Others(s)
  BY <1>1, NewRequests, Replaced DEF Others
<1> QED BY <1>1, <1>2, IdleIs

LEMMA SendDoes ==
  ASSUME PageInv, Send
  PROVE  \E s \in Slots :
           LET k == job'[s]
           IN /\ Free(s) /\ Others(s) /\ ref' = s
              /\ k.kind = "send" /\ k.at = "posted" /\ k.conv = conv /\ k.old = view.run
              /\ k.upto = 0
<1> DEFINE j == [Idle EXCEPT !.kind = "send", !.at = "posted", !.conv = conv, !.old = view.run]
<1>1. PICK s \in Slots : /\ Free(s) /\ ref' = s /\ job' = [job EXCEPT ![s] = j]
  BY DEF Send
<1>2. /\ IsRequest(j) /\ j.kind = "send" /\ j.at = "posted" /\ j.conv = conv /\ j.old = view.run
      /\ j.upto = 0
  BY DEF IsRequest, Idle, Fields
<1> HIDE DEF j
<1>3. job'[s] = j /\ Others(s)
  BY <1>1, <1>2, Replaced DEF Others
<1> QED BY <1>1, <1>2, <1>3

LEMMA DecideDoes ==
  ASSUME PageInv, NEW r, Decide(r)
  PROVE  \E s \in Slots :
           LET k == job'[s]
           IN /\ Free(s) /\ Others(s)
              /\ k.kind = "decide" /\ k.at = "asked" /\ k.run = r /\ k.upto = Cursor
<1> DEFINE j == [Idle EXCEPT !.kind = "decide", !.at = "asked", !.run = r, !.upto = Cursor]
<1>1. PICK s \in Slots : Free(s) /\ job' = [job EXCEPT ![s] = j]
  BY DEF Decide
<1>2. IsRequest(j) /\ j.kind = "decide" /\ j.at = "asked" /\ j.run = r /\ j.upto = Cursor
  BY DEF IsRequest, Idle, Fields
<1> HIDE DEF j
<1>3. job'[s] = j /\ Others(s)
  BY <1>1, <1>2, Replaced DEF Others
<1> QED BY <1>1, <1>2, <1>3

LEMMA DeleteDoes ==
  ASSUME PageInv, NEW c, Delete(c)
  PROVE  \E s \in Slots :
           LET k == job'[s]
           IN /\ Free(s) /\ Others(s) /\ c \in alive
              /\ k.kind = "delete" /\ k.at = "asked" /\ k.conv = c /\ k.shown = (conv = c)
<1> DEFINE j == [Idle EXCEPT !.kind = "delete", !.at = "asked", !.conv = c, !.shown = (conv = c)]
<1>1. PICK s \in Slots : Free(s) /\ c \in alive /\ job' = [job EXCEPT ![s] = j]
  BY DEF Delete
<1>2. IsRequest(j) /\ j.kind = "delete" /\ j.at = "asked" /\ j.conv = c /\ j.shown = (conv = c)
  BY DEF IsRequest, Idle, Fields
<1> HIDE DEF j
<1>3. job'[s] = j /\ Others(s)
  BY <1>1, <1>2, Replaced DEF Others
<1> QED BY <1>1, <1>2, <1>3

\* The stop button leaves what an abort leaves, and asks for a cancellation if
\* there is a Run to cancel.
LEMMA StopDoes ==
  ASSUME PageInv, NEW late \in BOOLEAN, Stop(late)
  PROVE  \/ view.run = NoRun /\ job' = Cut(job, late)
         \/ \E s \in Slots :
              LET k == job'[s]
              IN /\ Free(s) /\ s # ref /\ view.run # NoRun
                 /\ \A t \in Slots \ {s} : job'[t] = Cut(job, late)[t]
                 /\ k.kind = "cancel" /\ k.at = "asked" /\ k.run = view.run
<1> DEFINE j == [Idle EXCEPT !.kind = "cancel", !.at = "asked", !.run = view.run]
<1>1. CASE view.run = NoRun
  BY <1>1 DEF Stop
<1>2. CASE view.run # NoRun
  <2>1. PICK s \in Slots : Free(s) /\ job' = [Cut(job, late) EXCEPT ![s] = j]
    BY <1>2 DEF Stop
  <2>2. j.kind = "cancel" /\ j.at = "asked" /\ j.run = view.run
    BY DEF Idle
  <2> HIDE DEF j
  <2>3. s # ref
    BY <2>1, NoRefOK DEF PageInv, RefOK, Free
  <2>4. Cut(job, late) = [t \in Slots |-> Cut(job, late)[t]]
    BY CutDoes DEF PageInv, JobsOK
  <2>5. job'[s] = j /\ \A t \in Slots \ {s} : job'[t] = Cut(job, late)[t]
    <3> DEFINE cut == Cut(job, late)
    <3> HIDE DEF cut
    <3>1. cut = [t \in Slots |-> cut[t]] /\ job' = [cut EXCEPT ![s] = j]
      BY <2>1, <2>4 DEF cut
    <3> QED BY <3>1 DEF cut
  <2> QED BY <1>2, <2>1, <2>2, <2>3, <2>5
<1> QED BY <1>1, <1>2

\* What is answered changes fields of its request, or ends it.
LEMMA FieldDoes ==
  ASSUME PageInv, NEW s \in Slots, NEW f \in Fields, NEW v,
         job' = [job EXCEPT ![s] = [job[s] EXCEPT ![f] = v]]
  PROVE  /\ Others(s) /\ job'[s][f] = v
         /\ \A g \in Fields \ {f} : job'[s][g] = job[s][g]
<1> DEFINE j == [job[s] EXCEPT ![f] = v]
<1>1. IsRequest(job[s])
  BY DEF PageInv, JobsOK
<1>2. IsRequest(j) /\ j[f] = v /\ \A g \in Fields \ {f} : j[g] = job[s][g]
  BY <1>1, FieldSet
<1> HIDE DEF j
<1>3. job'[s] = j /\ Others(s)
  BY <1>2, Replaced DEF Others, j
<1> QED BY <1>2, <1>3

LEMMA EndsDoes ==
  ASSUME PageInv, NEW s \in Slots, job' = [job EXCEPT ![s] = Idle]
  PROVE  Others(s) /\ job'[s] = Idle
BY NewRequests, Replaced DEF Others

LEMMA ListsDoes ==
  ASSUME PageInv, NEW s \in Slots, RestoreLists(s)
  PROVE  LET j == job[s]
             k == job'[s]
             r == LatestRun(j.conv)
         IN /\ Others(s) /\ j.kind = "restore" /\ j.at = "asked" /\ j.conv \in alive
            /\ k.kind = "restore" /\ k.at = "listed" /\ k.conv = j.conv /\ k.upto = j.upto
            /\ k.card = j.card /\ k.run = r /\ k.row = IF r = NoRun THEN "none" ELSE row[r]
<1> DEFINE r == LatestRun(job[s].conv)
           v == IF r = NoRun THEN "none" ELSE row[r]
           j == [job[s] EXCEPT !.at = "listed", !.run = r, !.row = v]
<1>1. IsRequest(job[s]) /\ job[s].kind = "restore" /\ job[s].at = "asked" /\ job[s].conv \in alive
  BY DEF PageInv, JobsOK, RestoreLists
<1>2. job' = [job EXCEPT ![s].at = "listed", ![s].run = r, ![s].row = v]
  BY DEF RestoreLists
<1> HIDE DEF r, v
<1>3. /\ IsRequest(j) /\ j.kind = job[s].kind /\ j.at = "listed" /\ j.conv = job[s].conv
      /\ j.upto = job[s].upto /\ j.card = job[s].card /\ j.run = r /\ j.row = v
  BY <1>1 DEF IsRequest, Fields
<1>4. job' = [job EXCEPT ![s] = j]
  BY <1>2 DEF PageInv, JobsOK
<1> HIDE DEF j
<1>5. job'[s] = j /\ Others(s)
  BY <1>3, <1>4, Replaced DEF Others
<1> QED BY <1>1, <1>3, <1>5 DEF r, v

LEMMA ReadsEventsDoes ==
  ASSUME PageInv, NEW s \in Slots, NEW fails \in BOOLEAN, RestoreReadsEvents(s, fails)
  PROVE  LET j == job[s]
             k == job'[s]
         IN /\ Others(s) /\ j.kind = "restore" /\ j.at = "listed" /\ j.run # NoRun
            /\ k.kind = "restore" /\ k.at = "listed" /\ k.conv = j.conv /\ k.card = j.card
            /\ k.run = j.run /\ k.row = j.row /\ k.upto = IF fails THEN 0 ELSE Stored(j.run)
<1>1. job[s].kind = "restore" /\ job[s].at = "listed" /\ job[s].run # NoRun
  BY DEF RestoreReadsEvents, EventsAfterList
<1> DEFINE v == IF fails THEN 0 ELSE Stored(job[s].run)
<1>2. job' = [job EXCEPT ![s].upto = v]
  BY <1>1 DEF RestoreReadsEvents
<1> HIDE DEF v
<1>3. job' = [job EXCEPT ![s] = [job[s] EXCEPT !["upto"] = v]]
  BY <1>2 DEF PageInv, JobsOK
<1>4. Others(s) /\ job'[s].upto = v /\ \A g \in Fields \ {"upto"} : job'[s][g] = job[s][g]
  BY <1>3, FieldDoes DEF Fields
<1> QED BY <1>1, <1>4 DEF Fields, v

LEMMA ReadsCardDoes ==
  ASSUME PageInv, NEW s \in Slots, RestoreReadsCard(s)
  PROVE  LET j == job[s]
             k == job'[s]
         IN /\ Others(s) /\ j.kind = "restore" /\ j.at = "listed" /\ j.run # NoRun
            /\ home[j.run] \in alive
            /\ k.kind = "restore" /\ k.at = "listed" /\ k.conv = j.conv /\ k.upto = j.upto
            /\ k.run = j.run /\ k.row = j.row /\ k.card = card[j.run]
<1>1. job[s].kind = "restore" /\ job[s].at = "listed" /\ job[s].run # NoRun
      /\ home[job[s].run] \in alive
  BY DEF RestoreReadsCard
<1> DEFINE v == card[job[s].run]
<1>2. job' = [job EXCEPT ![s].card = v]
  BY DEF RestoreReadsCard
<1> HIDE DEF v
<1>3. job' = [job EXCEPT ![s] = [job[s] EXCEPT !["card"] = v]]
  BY <1>2 DEF PageInv, JobsOK
<1>4. Others(s) /\ job'[s].card = v /\ \A g \in Fields \ {"card"} : job'[s][g] = job[s][g]
  BY <1>3, FieldDoes DEF Fields
<1> QED BY <1>1, <1>4 DEF Fields, v

LEMMA StartsDoes ==
  ASSUME PageInv, NEW s \in Slots, NEW c \in Conversations, SendStarts(s, c)
  PROVE  LET j == job[s]
             k == job'[s]
         IN /\ Others(s) /\ j.kind = "send" /\ j.at = "posted"
            /\ k.kind = "send" /\ k.at = "open" /\ k.run = NewRun /\ k.upto = j.upto
            /\ k.conv = j.conv /\ k.old = j.old
<1> DEFINE j == [job[s] EXCEPT !.at = "open", !.run = NewRun]
<1>1. IsRequest(job[s]) /\ job[s].kind = "send" /\ job[s].at = "posted"
  BY DEF PageInv, JobsOK, SendStarts
<1>2. job' = [job EXCEPT ![s].at = "open", ![s].run = NewRun]
  BY DEF SendStarts, NewRun
<1>3. /\ IsRequest(j) /\ j.kind = job[s].kind /\ j.at = "open" /\ j.run = NewRun
      /\ j.upto = job[s].upto /\ j.conv = job[s].conv /\ j.old = job[s].old
  BY <1>1 DEF IsRequest, Fields
<1>4. job' = [job EXCEPT ![s] = j]
  BY <1>2 DEF PageInv, JobsOK
<1> HIDE DEF j
<1>5. job'[s] = j /\ Others(s)
  BY <1>3, <1>4, Replaced DEF Others
<1> QED BY <1>1, <1>3, <1>5

LEMMA DeliverDoes ==
  ASSUME PageInv, NEW s \in Slots, Deliver(s)
  PROVE  /\ Others(s) /\ Streams(s) /\ job'[s].upto = job[s].upto + 1
         /\ \A g \in Fields \ {"upto"} : job'[s][g] = job[s][g]
<1>1. job' = [job EXCEPT ![s].upto = job[s].upto + 1] /\ Streams(s)
  BY DEF Deliver, PageInv, JobsOK
<1> DEFINE v == job[s].upto + 1
<1> HIDE DEF v
<1>2. job' = [job EXCEPT ![s] = [job[s] EXCEPT !["upto"] = v]]
  BY <1>1 DEF PageInv, JobsOK, v
<1>3. Others(s) /\ job'[s].upto = v /\ \A g \in Fields \ {"upto"} : job'[s][g] = job[s][g]
  <2>1. "upto" \in Fields
    BY DEF Fields
  <2> QED BY <1>2, <2>1, FieldDoes
<1> QED BY <1>1, <1>3 DEF v

LEMMA FirstPollDoes ==
  ASSUME PageInv, NEW s \in Slots, FirstPoll(s)
  PROVE  LET j == job[s]
             k == job'[s]
         IN /\ Others(s) /\ j.kind = "follow" /\ j.at \in {"first", "late"}
            /\ j.at = "late" => k = Idle
            /\ j.at = "first" =>
                 /\ k.kind = "follow" /\ k.at = "open" /\ k.run = j.run
                 /\ k.upto = IF j.upto > Stored(j.run) THEN j.upto ELSE Stored(j.run)
<1>1. IsRequest(job[s]) /\ job[s].kind = "follow" /\ job[s].at \in {"first", "late"}
  BY DEF PageInv, JobsOK, FirstPoll
<1>2. CASE job[s].at = "late"
  BY <1>1, <1>2, EndsDoes DEF FirstPoll, Settled
<1>3. CASE job[s].at = "first"
  <2> DEFINE v == IF job[s].upto > Stored(job[s].run) THEN job[s].upto ELSE Stored(job[s].run)
             j == [job[s] EXCEPT !.at = "open", !.upto = v]
  <2>1. job' = [job EXCEPT ![s].at = "open",
                           ![s].upto = IF @ > Stored(job[s].run) THEN @ ELSE Stored(job[s].run)]
    BY <1>3 DEF FirstPoll
  <2>2. job' = [job EXCEPT ![s].at = "open", ![s].upto = v]
    BY <1>1, <2>1 DEF PageInv, JobsOK, IsRequest, Fields
  <2> HIDE DEF v
  <2>3. IsRequest(j) /\ j.kind = job[s].kind /\ j.at = "open" /\ j.run = job[s].run /\ j.upto = v
    BY <1>1 DEF IsRequest, Fields
  <2>4. job' = [job EXCEPT ![s] = j]
    BY <2>2 DEF PageInv, JobsOK
  <2> HIDE DEF j
  <2>5. job'[s] = j /\ Others(s)
    BY <2>3, <2>4, Replaced DEF Others
  <2> QED BY <1>1, <1>3, <2>3, <2>5 DEF v
<1> QED BY <1>1, <1>2, <1>3

LEMMA AnswersDoes ==
  ASSUME PageInv, NEW s \in Slots, Claims(s) \/ Cancels(s) \/ Deletes(s)
  PROVE  /\ Others(s) /\ job[s].at = "asked" /\ job'[s].at = "answered"
         /\ \A g \in Fields \ {"at"} : job'[s][g] = job[s][g]
<1>1. job' = [job EXCEPT ![s].at = "answered"] /\ job[s].at = "asked"
  BY DEF Claims, Cancels, Deletes
<1>2. job' = [job EXCEPT ![s] = [job[s] EXCEPT !["at"] = "answered"]] /\ "at" \in Fields
  BY <1>1 DEF PageInv, JobsOK, Fields
<1>3. Others(s) /\ job'[s].at = "answered" /\ \A g \in Fields \ {"at"} : job'[s][g] = job[s][g]
  BY <1>2, FieldDoes
<1> QED BY <1>1, <1>3

LEMMA FollowDoes ==
  ASSUME PageInv, NEW s \in Slots, NEW late \in BOOLEAN, Follow(s, late)
  PROVE  LET j == job[s]
             k == job'[s]
         IN /\ j.kind = "decide" /\ j.at = "answered" /\ s # ref
            /\ k.kind = "follow" /\ k.at = "first" /\ k.run = j.run /\ k.upto = j.upto
            /\ \A t \in Slots \ {s} : job'[t] = Cut(job, late)[t]
<1> DEFINE cut == Cut(job, late)
           j == [job[s] EXCEPT !.kind = "follow", !.at = "first"]
<1>1. IsRequest(job[s]) /\ job[s].kind = "decide" /\ job[s].at = "answered"
  BY DEF PageInv, JobsOK, Follow
<1>2. s # ref
  BY <1>1, NoRefOK DEF PageInv, RefOK
<1>3. /\ cut = [t \in Slots |-> cut[t]] /\ cut[s] = job[s]
  BY <1>2, CutDoes DEF PageInv, JobsOK
<1>4. job' = [cut EXCEPT ![s] = [@ EXCEPT !.kind = "follow", !.at = "first"]]
  BY DEF Follow
<1>5. j.kind = "follow" /\ j.at = "first" /\ j.run = job[s].run /\ j.upto = job[s].upto
  BY <1>1 DEF IsRequest, Fields
<1>6. job' = [cut EXCEPT ![s] = j]
  <2> HIDE DEF cut
  <2> QED BY <1>3, <1>4
<1> HIDE DEF j, cut
<1>7. job'[s] = j /\ \A t \in Slots \ {s} : job'[t] = cut[t]
  BY <1>3, <1>6
<1> QED BY <1>1, <1>2, <1>5, <1>7 DEF cut

LEMMA DeletedDoes ==
  ASSUME PageInv, NEW s \in Slots, NEW late \in BOOLEAN, Deleted(s, late)
  PROVE  /\ job[s].kind = "delete" /\ job[s].at = "answered" /\ s # ref /\ job'[s] = Idle
         /\ ~job[s].shown => Others(s) /\ UNCHANGED page
         /\ job[s].shown =>
              /\ \A t \in Slots \ {s} : job'[t] = Cut(job, late)[t]
              /\ ref' = NoRef /\ conv' = None /\ view' = EmptyView
<1> DEFINE rest == [job EXCEPT ![s] = Idle]
<1>1. job[s].kind = "delete" /\ job[s].at = "answered"
  BY DEF Deleted
<1>2. s # ref
  BY <1>1, NoRefOK DEF PageInv, RefOK
<1>3. /\ rest = [t \in Slots |-> rest[t]] /\ \A t \in Slots : IsRequest(rest[t])
      /\ rest[s] = Idle /\ \A t \in Slots \ {s} : rest[t] = job[t]
  BY NewRequests, SlotSet DEF PageInv, JobsOK
<1>4. CASE ~job[s].shown
  BY <1>1, <1>2, <1>4, EndsDoes DEF Deleted
<1>5. CASE job[s].shown
  <2>1. job' = Cut(rest, late) /\ ref' = NoRef /\ conv' = None /\ view' = EmptyView
    BY <1>5 DEF Deleted, Fresh
  <2> HIDE DEF rest
  <2>2. \A t \in Slots : Remains(rest[t], job'[t])
    BY <1>3, <2>1, CutDoes DEF PageInv
  <2>3. job'[s] = Idle
    BY <1>2, <1>3, <2>1, CutDoes DEF PageInv
  <2>4. \A t \in Slots \ {s} : job'[t] = Cut(job, late)[t]
    <3>1. CASE ref = NoRef
      BY <1>3, <2>1, <3>1 DEF Cut
    <3>2. CASE ref # NoRef
      <4>1. ref \in Slots /\ rest[ref] = job[ref]
        BY <1>2, <1>3, <3>2 DEF PageInv, RefOK
      <4>2. /\ Cut(rest, late) = [rest EXCEPT ![ref] = AfterAbort(job[ref], late)]
            /\ Cut(job, late) = [job EXCEPT ![ref] = AfterAbort(job[ref], late)]
        BY <1>3, <3>2, <4>1 DEF Cut, PageInv, JobsOK
      <4> QED BY <1>3, <2>1, <4>1, <4>2 DEF PageInv, JobsOK
    <3> QED BY <3>1, <3>2
  <2> QED BY <1>1, <1>2, <1>5, <2>1, <2>3, <2>4
<1> QED BY <1>1, <1>2, <1>4, <1>5

-----------------------------------------------------------------------------
(***************************************************************************)
(* Types.                                                                  *)
(***************************************************************************)
FieldsOK ==
  /\ conv \in Conversations \cup {None} /\ url \in Conversations \cup {None}
  /\ loading \in BOOLEAN
  /\ hasty \in Nat /\ lost \in Nat /\ hasty + lost <= MaxTrouble

TypeInv == PageInv /\ ServerInv /\ JobsInv /\ view \in Views /\ FieldsOK

\* The logs have a common bound.
LEMMA LogsAreShort ==
  ASSUME ServerInv
  PROVE  \E n \in Nat : \A r \in Runs : Len(log[r]) <= n
<1> DEFINE S == {k \in Nat : \E n \in Nat : \A r \in Runs : r <= k => Len(log[r]) <= n}
<1>1. \A r \in Runs : Len(log[r]) \in Nat /\ r \in Nat /\ r >= 1 /\ r <= MaxRuns
  BY ConversationsOK DEF ServerInv, ServerTypeOK, Runs
<1>2. 0 \in S
  <2>1. \A r \in Runs : ~(r <= 0)
    BY <1>1
  <2> QED BY <2>1
<1>3. ASSUME NEW k \in S PROVE k + 1 \in S
  <2>1. PICK n \in Nat : \A r \in Runs : r <= k => Len(log[r]) <= n
    OBVIOUS
  <2>2. CASE k + 1 \in Runs
    <3> DEFINE m == n + Len(log[k + 1])
    <3>1. m \in Nat /\ n <= m /\ Len(log[k + 1]) <= m
      BY <1>1, <2>2
    <3>2. \A r \in Runs : r <= k + 1 => Len(log[r]) <= m
      <4> HIDE DEF m
      <4> SUFFICES ASSUME NEW r \in Runs, r <= k + 1 PROVE Len(log[r]) <= m
        OBVIOUS
      <4>1. r <= k \/ r = k + 1
        BY <1>1
      <4> QED BY <1>1, <2>1, <3>1, <4>1
    <3> QED BY <3>1, <3>2
  <2>3. CASE k + 1 \notin Runs
    <3>1. \A r \in Runs : r <= k + 1 => r <= k
      BY <1>1, <2>3
    <3> QED BY <2>1, <3>1
  <2> QED BY <2>2, <2>3
<1> HIDE DEF S
<1>4. S = Nat
  <2>1. S \in SUBSET Nat
    BY DEF S
  <2> QED BY <1>2, <1>3, <2>1, Seeing!AllNumbers
<1>5. MaxRuns \in S
  BY <1>4, ConversationsOK
<1> QED BY <1>1, <1>5 DEF S

\* The cursor is the greatest number of what was seen, or beyond all.
LEMMA CursorIs ==
  ASSUME ServerInv, view \in Views
  PROVE  /\ Cursor \in Nat
         /\ Local \notin view.seen => \A e \in view.seen : e[2] <= Cursor
<1> DEFINE at == {e[2] : e \in view.seen}
<1>1. CASE Local \in view.seen
  BY <1>1 DEF Cursor, Far
<1>2. CASE Local \notin view.seen
  <2>1. Cursor = IF at = {} THEN 0 ELSE CHOOSE n \in at : \A m \in at : m <= n
    BY <1>2 DEF Cursor
  <2>2. PICK n \in Nat : \A r \in Runs : Len(log[r]) <= n
    BY LogsAreShort
  <2>3. \A e \in view.seen : e[2] \in 1..n
    <3> SUFFICES ASSUME NEW e \in view.seen PROVE e[2] \in 1..n
      OBVIOUS
    <3>1. e \in Happened
      BY <1>2 DEF Views
    <3>2. e[1] \in Runs /\ e[2] \in DOMAIN log[e[1]]
      BY <3>1, EventIs
    <3>3. DOMAIN log[e[1]] = 1..Len(log[e[1]]) /\ Len(log[e[1]]) \in Nat
      BY <3>2 DEF ServerInv, ServerTypeOK
    <3> QED BY <2>2, <3>2, <3>3
  <2>4. at \in SUBSET (1..n)
    BY <2>3
  <2>5. CASE at = {}
    BY <1>2, <2>1, <2>5
  <2>6. CASE at # {}
    <3>1. Seeing!Max(at) \in at /\ \A m \in at : m <= Seeing!Max(at)
      BY <2>4, <2>6, Seeing!Greatest
    <3>2. Cursor \in at /\ \A m \in at : m <= Cursor
      <4> HIDE DEF at
      <4> QED BY <2>1, <2>6, <3>1
    <3> QED BY <1>2, <2>4, <3>2
  <2> QED BY <2>5, <2>6
<1> QED BY <1>1, <1>2

LEMMA StoredIs ==
  ASSUME ServerInv, NEW r \in Runs
  PROVE  Stored(r) \in Nat /\ Stored(r) <= Len(log[r])
BY DEF Stored, ServerInv, ServerTypeOK

LEMMA RemainsIs ==
  ASSUME NEW j, NEW k, JobIs(j), Remains(j, k)
  PROVE  JobIs(k)
BY IdleIs DEF JobIs, Remains, Kinds

\* What nothing was done to in the database stays possible.
LEMMA TypesHold ==
  ASSUME TypeInv, UNCHANGED server, PageInv', FieldsOK', view' \in Views,
         \A t \in Slots : job'[t] = job[t] \/ \E j : job'[t] = j /\ JobIs(j)
  PROVE  TypeInv'
<1>1. ServerInv' /\ Grows
  BY ServerKept DEF TypeInv
<1>2. JobsInv'
  BY <1>1, JobsHold DEF TypeInv
<1>3. view' \in Views'
  BY <1>1, ViewsGrow DEF TypeInv
<1> QED BY <1>1, <1>2, <1>3 DEF TypeInv

LEMMA InitTypes == Init => TypeInv
<1> SUFFICES ASSUME Init PROVE TypeInv
  OBVIOUS
<1>1. JobsInv
  <2>1. JobIs(Idle)
    BY IdleIs DEF JobIs, Kinds
  <2> QED BY <2>1 DEF Init, JobsInv
<1>2. view \in Views
  BY EmptyIsView DEF Init
<1>3. FieldsOK
  <2>1. conv = None /\ url = None /\ hasty = 0 /\ lost = 0
    BY DEF Init
  <2>2. loading \in BOOLEAN
    BY Zenon DEF Init
  <2> QED BY <2>1, <2>2, ConversationsOK DEF FieldsOK
<1> QED BY <1>1, <1>2, <1>3, InitPage, InitServer DEF TypeInv

LEMMA AfterCutIsFlag ==
  ASSUME loading \in BOOLEAN
  PROVE  LoadingAfterCut \in BOOLEAN
BY DEF LoadingAfterCut

LEMMA LostIs ==
  ASSUME lost \in Nat, LostByCut
  PROVE  lost' \in Nat
BY DEF LostByCut

\* What the user does.
LEMMA UserKeepsTypes ==
  ASSUME TypeInv, UserActs
  PROVE  TypeInv'
<1>1. PageInv /\ PageInv' /\ RefOK /\ JobsOK /\ JobsInv /\ ServerInv /\ view \in Views /\ FieldsOK
  BY UserKeepsPage DEF TypeInv, PageInv
<1>2. CASE \E c \in Conversations : Select(c)
  <2>1. PICK c \in Conversations : Select(c)
    BY <1>2
  <2>2. PICK s \in Slots : Others(s) /\ IsRestoring(job'[s], c)
    BY <1>1, <2>1, SelectDoes
  <2>3. JobIs(job'[s])
    BY <2>2 DEF IsRestoring, JobIs, RestoreOK, Kinds, Rows, Far
  <2>4. FieldsOK' /\ view' = view /\ UNCHANGED server
    BY <1>1, <2>1 DEF Select, Haste, Bounded, FieldsOK
  <2> QED BY <1>1, <2>2, <2>3, <2>4, TypesHold DEF Others
<1>3. CASE \E late \in BOOLEAN : New(late)
  <2>1. PICK late \in BOOLEAN : New(late)
    BY <1>3
  <2>2. \A t \in Slots : Remains(job[t], job'[t])
    BY <1>1, <2>1, CutDoes DEF New, Fresh, JobsOK
  <2>3. \A t \in Slots : JobIs(job'[t])
    BY <1>1, <2>2, RemainsIs DEF JobsInv
  <2>4. FieldsOK' /\ view' \in Views /\ UNCHANGED server
    <3>1. /\ loading' = LoadingAfterCut /\ conv' = None /\ url' = None /\ view' = EmptyView
          /\ LostByCut /\ hasty' \in {hasty, hasty + 1} /\ hasty' + lost' <= MaxTrouble
          /\ UNCHANGED server
      BY <2>1 DEF New, Fresh, Haste, Bounded
    <3> QED BY <1>1, <3>1, EmptyIsView, AfterCutIsFlag, LostIs DEF FieldsOK
  <2> QED BY <1>1, <2>3, <2>4, TypesHold
<1>4. CASE Send
  <2>1. PICK s \in Slots :
           LET k == job'[s]
           IN /\ Free(s) /\ Others(s) /\ ref' = s
              /\ k.kind = "send" /\ k.at = "posted" /\ k.conv = conv /\ k.old = view.run
              /\ k.upto = 0
    BY <1>1, <1>4, SendDoes
  <2>2. JobIs(job'[s])
    BY <1>1, <2>1 DEF JobIs, SendOK, Kinds, FieldsOK, Views, ViewTypes
  <2>3. FieldsOK' /\ view' = view /\ UNCHANGED server
    BY <1>1, <1>4 DEF Send, Haste, Bounded, FieldsOK
  <2> QED BY <1>1, <2>1, <2>2, <2>3, TypesHold DEF Others
<1>5. CASE \E r \in Runs : Decide(r)
  <2>1. PICK r \in Runs : Decide(r)
    BY <1>5
  <2>2. PICK s \in Slots :
           LET k == job'[s]
           IN /\ Free(s) /\ Others(s)
              /\ k.kind = "decide" /\ k.at = "asked" /\ k.run = r /\ k.upto = Cursor
    BY <1>1, <2>1, DecideDoes
  <2>3. JobIs(job'[s])
    BY <1>1, <2>2, CursorIs DEF JobIs, Kinds
  <2>4. FieldsOK' /\ view' = view /\ UNCHANGED server
    BY <1>1, <2>1 DEF Decide, Haste, Bounded, FieldsOK, page
  <2> QED BY <1>1, <2>2, <2>3, <2>4, TypesHold DEF Others
<1>6. CASE \E c \in Conversations : Delete(c)
  <2>1. PICK c \in Conversations : Delete(c)
    BY <1>6
  <2>2. PICK s \in Slots :
           LET k == job'[s]
           IN /\ Free(s) /\ Others(s) /\ c \in alive
              /\ k.kind = "delete" /\ k.at = "asked" /\ k.conv = c /\ k.shown = (conv = c)
    BY <1>1, <2>1, DeleteDoes
  <2>3. JobIs(job'[s])
    BY <2>2 DEF JobIs, Kinds
  <2>4. FieldsOK' /\ view' = view /\ UNCHANGED server
    BY <1>1, <2>1 DEF Delete, Haste, Bounded, FieldsOK, page
  <2> QED BY <1>1, <2>2, <2>3, <2>4, TypesHold DEF Others
<1>7. CASE \E late \in BOOLEAN : Stop(late)
  <2>1. PICK late \in BOOLEAN : Stop(late)
    BY <1>7
  <2>2. \A t \in Slots : JobIs(Cut(job, late)[t])
    BY <1>1, CutDoes, RemainsIs DEF JobsInv, JobsOK
  <2>3. \A t \in Slots : JobIs(job'[t])
    <3>1. CASE job' = Cut(job, late)
      BY <2>2, <3>1
    <3>2. CASE \E s \in Slots :
                 LET k == job'[s]
                 IN /\ Free(s) /\ s # ref /\ view.run # NoRun
                    /\ \A t \in Slots \ {s} : job'[t] = Cut(job, late)[t]
                    /\ k.kind = "cancel" /\ k.at = "asked" /\ k.run = view.run
      <4>1. PICK s \in Slots :
              LET k == job'[s]
              IN /\ view.run # NoRun /\ \A t \in Slots \ {s} : job'[t] = Cut(job, late)[t]
                 /\ k.kind = "cancel" /\ k.run = view.run
        BY <3>2
      <4>2. JobIs(job'[s])
        BY <1>1, <4>1 DEF JobIs, Kinds, Views, ViewTypes, Shown
      <4> QED BY <2>2, <4>1, <4>2
    <3> QED BY <1>1, <2>1, <3>1, <3>2, StopDoes
  <2>4. FieldsOK' /\ view' = view /\ UNCHANGED server
    <3>1. /\ UNCHANGED <<server, conv, url, view>>
          /\ LostByCut /\ hasty' \in {hasty, hasty + 1} /\ hasty' + lost' <= MaxTrouble
      BY <2>1 DEF Stop, Haste, Bounded
    <3>2. loading' \in BOOLEAN
      <4>1. LoadingAfterCut \in BOOLEAN
        BY <1>1, AfterCutIsFlag DEF FieldsOK
      <4>2. CASE view.run = NoRun
        BY <2>1, <4>2, Zenon DEF Stop
      <4>3. CASE view.run # NoRun
        BY <2>1, <4>1, <4>3, Zenon DEF Stop
      <4> QED BY <4>2, <4>3
    <3> QED BY <1>1, <3>1, <3>2, LostIs DEF FieldsOK
  <2> QED BY <1>1, <2>3, <2>4, TypesHold
<1>8. CASE Reload
  <2>1. PICK first \in Slots :
          job' = [s \in Slots |-> IF url # None /\ s = first THEN Restoring(url) ELSE Idle]
    BY <1>8 DEF Reload
  <2>2. JobIs(Idle)
    BY IdleIs DEF JobIs, Kinds
  <2>3. url # None => JobIs(Restoring(url))
    <3> SUFFICES ASSUME url # None PROVE JobIs(Restoring(url))
      OBVIOUS
    <3>1. IsRestoring(Restoring(url), url) /\ url \in Conversations
      BY <1>1, IdleIs DEF FieldsOK
    <3> QED BY <3>1 DEF IsRestoring, JobIs, RestoreOK, Kinds, Rows, Far
  <2>4. FieldsOK' /\ view' \in Views /\ UNCHANGED server
    BY <1>1, <1>8, EmptyIsView DEF Reload, Bounded, FieldsOK
  <2>5. \A t \in Slots : JobIs(job'[t])
    BY <2>1, <2>2, <2>3
  <2> QED BY <1>1, <2>4, <2>5, TypesHold
<1> QED BY <1>2, <1>3, <1>4, <1>5, <1>6, <1>7, <1>8 DEF UserActs

\* A stream sends no more than the log has; that of a send sends something.
LEMMA SendableIs ==
  ASSUME ServerInv, NEW j, j.run \in Runs, home[j.run] # None
  PROVE  Sendable(j) \in Nat /\ 1 <= Sendable(j) /\ Sendable(j) <= Len(log[j.run])
<1> DEFINE r == j.run
           n == Len(log[r])
           own == {i \in DOMAIN log[r] : log[r][i] \in {"started", "required"}}
<1>1. /\ log[r] \in Seq(LogTypes) /\ n \in Nat /\ DOMAIN log[r] = 1..n /\ n >= 1
      /\ RunOK(r)
  <2>1. log[r] \in Seq(LogTypes) /\ log[r] # <<>> /\ RunOK(r)
    BY DEF ServerInv, ServerTypeOK, RunOK
  <2> QED BY <2>1
<1>2. CASE j.kind = "follow"
  BY <1>1, <1>2 DEF Sendable
<1>3. CASE j.kind # "follow"
  <2>1. Sendable(j) = Cardinality(own) + IF card[r] = "none" /\ row[r] = "completed" THEN 1 ELSE 0
    BY <1>3 DEF Sendable
  <2>2. IsFiniteSet(1..n) /\ Cardinality(1..n) = n
    <3>1. 1 \in Int /\ n \in Int /\ ~(1 > n) /\ n - 1 + 1 = n
      BY <1>1
    <3> HIDE DEF n
    <3> QED BY <3>1, FS_Interval
  <2>3. own \in SUBSET (1..n) /\ 1 \in own
    BY <1>1 DEF RunOK
  <2>4. /\ IsFiniteSet(own) /\ Cardinality(own) \in Nat /\ Cardinality(own) <= n
    BY <2>2, <2>3, FS_Subset, FS_CardinalityType
  <2>5. 1 <= Cardinality(own)
    <3>1. Cardinality({1}) = 1 /\ {1} \in SUBSET own
      BY <2>3, FS_Singleton
    <3> QED BY <2>4, <3>1, FS_Subset
  <2>6. CASE row[r] = "completed"
    <3>1. PICK i \in 1..n : log[r][i] = "completed"
      BY <1>1, <2>6 DEF RunOK, Has
    <3>2. own \in SUBSET ((1..n) \ {i})
      BY <1>1, <3>1
    <3>3. IsFiniteSet((1..n) \ {i}) /\ Cardinality((1..n) \ {i}) = n - 1
      BY <2>2, <3>1, FS_RemoveElement
    <3>4. Cardinality(own) <= n - 1
      BY <3>2, <3>3, FS_Subset
    <3> HIDE DEF n, own
    <3> QED BY <1>1, <2>1, <2>4, <2>5, <3>4
  <2>7. CASE row[r] # "completed"
    <3> HIDE DEF n, own
    <3> QED BY <1>1, <2>1, <2>4, <2>5, <2>7
  <2> QED BY <2>6, <2>7
<1> QED BY <1>2, <1>3

\* What is answered of a restore.
LEMMA RestoreKeepsTypes ==
  ASSUME TypeInv, NEW s \in Slots,
         \/ RestoreLists(s) \/ RestoreReadsCard(s) \/ RestoreApplies(s) \/ RestoreFails(s)
         \/ \E fails \in BOOLEAN : RestoreReadsEvents(s, fails)
  PROVE  TypeInv'
<1>1. /\ PageInv /\ PageInv' /\ JobsInv /\ ServerInv /\ view \in Views /\ FieldsOK
      /\ JobIs(job[s])
  BY RestoreKeepsPage DEF TypeInv, JobsInv
<1>2. CASE RestoreLists(s)
  <2> DEFINE r == LatestRun(job[s].conv)
  <2>1. /\ Others(s) /\ job[s].kind = "restore" /\ job[s].at = "asked"
        /\ job'[s].kind = "restore" /\ job'[s].at = "listed" /\ job'[s].conv = job[s].conv
        /\ job'[s].upto = job[s].upto /\ job'[s].card = job[s].card /\ job'[s].run = r
        /\ job'[s].row = IF r = NoRun THEN "none" ELSE row[r]
    BY <1>1, <1>2, ListsDoes
  <2>2. r = NoRun \/ (r \in Runs /\ home[r] = job[s].conv)
    BY LatestIsOne
  <2>3. r # NoRun => row[r] \in Rows
    BY <1>1, <2>2 DEF ServerInv, ServerTypeOK
  <2> HIDE DEF r
  <2>4. JobIs(job'[s])
    BY <1>1, <2>1, <2>2, <2>3 DEF JobIs, RestoreOK, Kinds, Rows
  <2>5. FieldsOK' /\ view' = view /\ UNCHANGED server
    BY <1>1, <1>2 DEF RestoreLists, page, FieldsOK
  <2> QED BY <1>1, <2>1, <2>4, <2>5, TypesHold DEF Others
<1>3. CASE RestoreReadsCard(s)
  <2>1. /\ Others(s) /\ job[s].kind = "restore" /\ job[s].at = "listed" /\ job[s].run # NoRun
        /\ job'[s].kind = "restore" /\ job'[s].at = "listed" /\ job'[s].conv = job[s].conv
        /\ job'[s].upto = job[s].upto /\ job'[s].run = job[s].run /\ job'[s].row = job[s].row
        /\ job'[s].card = card[job[s].run]
    BY <1>1, <1>3, ReadsCardDoes
  <2>2. card[job[s].run] \in Cards
    BY <1>1, <2>1 DEF JobIs, RestoreOK, ServerInv, ServerTypeOK
  <2>3. JobIs(job'[s])
    BY <1>1, <2>1, <2>2 DEF JobIs, RestoreOK, Kinds
  <2>4. FieldsOK' /\ view' = view /\ UNCHANGED server
    BY <1>1, <1>3 DEF RestoreReadsCard, page, FieldsOK
  <2> QED BY <1>1, <2>1, <2>3, <2>4, TypesHold DEF Others
<1>4. CASE \E fails \in BOOLEAN : RestoreReadsEvents(s, fails)
  <2>1. PICK fails \in BOOLEAN : RestoreReadsEvents(s, fails)
    BY <1>4
  <2>2. /\ Others(s) /\ job[s].kind = "restore" /\ job[s].at = "listed" /\ job[s].run # NoRun
        /\ job'[s].kind = "restore" /\ job'[s].at = "listed" /\ job'[s].conv = job[s].conv
        /\ job'[s].card = job[s].card /\ job'[s].run = job[s].run /\ job'[s].row = job[s].row
        /\ job'[s].upto = IF fails THEN 0 ELSE Stored(job[s].run)
    BY <1>1, <2>1, ReadsEventsDoes
  <2>3. job[s].run \in Runs
    BY <1>1, <2>2 DEF JobIs, RestoreOK
  <2>4. Stored(job[s].run) \in Nat /\ Stored(job[s].run) <= Len(log[job[s].run])
        /\ Len(log[job[s].run]) \in Nat
    BY <1>1, <2>3, StoredIs DEF ServerInv, ServerTypeOK
  <2>5. JobIs(job'[s])
    BY <1>1, <2>2, <2>4 DEF JobIs, RestoreOK, Kinds
  <2>6. FieldsOK' /\ view' = view /\ UNCHANGED server
    <3>1. /\ lost' \in {lost, lost + 1} /\ hasty' = hasty /\ Bounded
          /\ UNCHANGED <<server, conv, url, view, loading>>
      BY <2>1 DEF RestoreReadsEvents, page
    <3> QED BY <1>1, <3>1 DEF Bounded, FieldsOK
  <2> QED BY <1>1, <2>2, <2>5, <2>6, TypesHold DEF Others
<1>5. CASE RestoreFails(s)
  <2>1. Others(s) /\ job'[s] = Idle
    BY <1>1, <1>5, EndsDoes DEF RestoreFails
  <2>2. JobIs(Idle)
    BY IdleIs DEF JobIs, Kinds
  <2>3. FieldsOK' /\ view' = view /\ UNCHANGED server
    <3>1. /\ lost' \in {lost, lost + 1} /\ hasty' = hasty /\ Bounded
          /\ UNCHANGED <<server, conv, url, view>>
      BY <1>5 DEF RestoreFails
    <3>2. loading' \in BOOLEAN
      BY <1>5, Zenon DEF RestoreFails
    <3> QED BY <1>1, <3>1, <3>2 DEF Bounded, FieldsOK
  <2> QED BY <1>1, <2>1, <2>2, <2>3, TypesHold DEF Others
<1>6. CASE RestoreApplies(s)
  <2> DEFINE j == job[s]
  <2>1. Others(s) /\ job'[s] = Idle
    BY <1>1, <1>6, EndsDoes DEF RestoreApplies
  <2>2. JobIs(Idle)
    BY IdleIs DEF JobIs, Kinds
  <2>3. /\ RestoreOK(j) /\ (j.run # NoRun => j.upto # Far /\ j.card # "unread")
        /\ conv' = j.conv /\ url' = Address(j.conv)
        /\ view' = Restored(j.run, j.row, j.card, j.upto)
        /\ UNCHANGED <<server, hasty, lost>>
    BY <1>1, <1>6 DEF RestoreApplies, JobIs
  <2> HIDE DEF j
  <2>4. view' \in Views
    <3>1. CASE j.run = NoRun
      BY <2>3, <3>1, EmptyIsView DEF Restored
    <3>2. CASE j.run # NoRun
      <4>1. /\ j.run \in Runs /\ home[j.run] # None /\ j.row \in Rows /\ j.card \in Cards
            /\ j.upto \in Nat /\ j.upto <= Len(log[j.run])
        BY <2>3, <3>2, ConversationsOK DEF RestoreOK
      <4> QED BY <1>1, <2>3, <4>1, RestoredIs
    <3> QED BY <3>1, <3>2
  <2>5. FieldsOK'
    <3>1. loading' \in BOOLEAN
      BY <1>6, Zenon DEF RestoreApplies
    <3> QED BY <1>1, <2>3, <3>1 DEF RestoreOK, Address, FieldsOK
  <2> QED BY <1>1, <2>1, <2>2, <2>3, <2>4, <2>5, TypesHold DEF Others
<1> QED BY <1>2, <1>3, <1>4, <1>5, <1>6

\* What is answered of a stream.
LEMMA StreamKeepsTypes ==
  ASSUME TypeInv, NEW s \in Slots,
         Deliver(s) \/ End(s) \/ Break(s) \/ FirstPoll(s) \/ LatePoll(s)
  PROVE  TypeInv'
<1>1. /\ PageInv /\ PageInv' /\ JobsInv /\ ServerInv /\ view \in Views /\ FieldsOK
      /\ JobIs(job[s]) /\ JobIs(Idle)
  BY StreamKeepsPage, IdleIs DEF TypeInv, JobsInv, JobIs, Kinds
<1>2. ASSUME Settled(s)
      PROVE  Others(s) /\ job'[s] = Idle /\ loading' \in BOOLEAN
  <2>1. job' = [job EXCEPT ![s] = Idle]
    BY <1>2 DEF Settled
  <2>2. loading' \in BOOLEAN
    BY <1>2, Zenon DEF Settled
  <2> QED BY <1>1, <2>1, <2>2, EndsDoes
<1>3. CASE End(s)
  <2>1. UNCHANGED <<server, conv, url, view, hasty, lost>> /\ Settled(s)
    BY <1>3 DEF End
  <2>2. FieldsOK'
    BY <1>1, <1>2, <2>1 DEF FieldsOK
  <2> QED BY <1>1, <1>2, <2>1, <2>2, TypesHold DEF Others
<1>4. CASE Break(s)
  <2> DEFINE j == job[s]
             old == IF j.old = NoRun THEN Pending ELSE j.old
             a == [view EXCEPT !.run = old]
             b == [a EXCEPT !.status = "interrupted"]
             seen == view.seen \cup {Local}
  <2>1. /\ UNCHANGED <<server, conv, url, hasty>> /\ lost' = lost + 1 /\ Bounded
        /\ view' = IF j.kind = "follow" THEN view
                   ELSE [view EXCEPT !.run = old, !.status = "interrupted", !.seen = @ \cup {Local}]
        /\ j.kind \in {"send", "follow"} /\ Settled(s)
    BY <1>4 DEF Break
  <2>2. FieldsOK'
    BY <1>1, <1>2, <2>1 DEF FieldsOK, Bounded
  <2>3. view' \in Views
    <3>1. CASE j.kind = "follow"
      BY <1>1, <2>1, <3>1
    <3>2. CASE j.kind = "send"
      <4>1. j.old \in Shown /\ (j.old \in Runs => home[j.old] # None)
        BY <1>1, <3>2 DEF JobIs, SendOK
      <4>2. old \in Shown /\ (old \in Runs => home[old] # None)
        <5>1. Pending \notin Runs /\ Pending \in Shown
          BY ConversationsOK DEF Pending, Runs, Shown
        <5> QED BY <1>1, <4>1, <5>1
      <4>3. view' = [b EXCEPT !.seen = seen]
        <5>1. view' = [view EXCEPT !.run = old, !.status = "interrupted", !.seen = @ \cup {Local}]
          BY <2>1, <3>2
        <5> HIDE DEF old, j
        <5> QED BY <5>1
      <4>4. view \in ViewTypes /\ seen \in Seens
        BY <1>1 DEF Views, ViewTypes, Seens
      <4> HIDE DEF old, seen, j
      <4>5. a \in ViewTypes /\ a.run = old /\ a.seen = view.seen /\ a.card = view.card
        BY <4>2, <4>4, ViewSet
      <4> HIDE DEF a
      <4>6. b \in ViewTypes /\ b.run = old /\ b.seen = view.seen /\ b.card = view.card
        BY <4>5, ViewSet DEF Statuses
      <4> HIDE DEF b
      <4>7. view' \in ViewTypes /\ view'.run = old /\ view'.seen = seen /\ view'.card = view.card
        BY <4>3, <4>4, <4>6, ViewSet
      <4> QED BY <1>1, <4>2, <4>7 DEF Views, seen
    <3> QED BY <2>1, <3>1, <3>2
  <2> QED BY <1>1, <1>2, <2>1, <2>2, <2>3, TypesHold DEF Others
<1>5. CASE Deliver(s)
  <2> DEFINE j == job[s]
             e == <<j.run, j.upto + 1>>
  <2>1. /\ Others(s) /\ Streams(s) /\ job'[s].upto = j.upto + 1
        /\ \A g \in Fields \ {"upto"} : job'[s][g] = j[g]
    BY <1>1, <1>5, DeliverDoes
  <2>2. /\ j.run \in Runs /\ j.upto \in Nat /\ home[j.run] \in alive /\ j.upto < Sendable(j)
        /\ home[j.run] # None
    BY <1>1, <1>5, ConversationsOK
       DEF Deliver, Streams, JobIs, SendOK, ServerInv, ServerTypeOK
  <2>3. j.upto + 1 <= Len(log[j.run]) /\ e \in Happened
    <3>1. Sendable(j) \in Nat /\ Sendable(j) <= Len(log[j.run])
      BY <1>1, <2>2, SendableIs
    <3>2. DOMAIN log[j.run] = 1..Len(log[j.run]) /\ Len(log[j.run]) \in Nat
      BY <1>1, <2>2 DEF ServerInv, ServerTypeOK
    <3>3. j.upto + 1 \in DOMAIN log[j.run]
      <4> HIDE DEF j
      <4> QED BY <2>2, <3>1, <3>2
    <3> QED BY <2>2, <3>1, <3>2, <3>3 DEF Happened
  <2>4. /\ view' = See(view, e) /\ UNCHANGED <<server, loading, ref, hasty, lost>>
        /\ conv' \in {home[j.run], conv} /\ url' = Address(conv')
    BY <1>5 DEF Deliver
  <2>5. view' \in Views
    BY <1>1, <2>3, <2>4, SeeKeeps
  <2>6. FieldsOK'
    BY <1>1, <2>2, <2>4 DEF FieldsOK, Address, ServerInv, ServerTypeOK
  <2>7. JobIs(job'[s])
    <3>1. /\ job'[s].kind = j.kind /\ job'[s].at = j.at /\ job'[s].run = j.run
          /\ job'[s].conv = j.conv /\ job'[s].old = j.old /\ j.kind \in {"send", "follow"}
          /\ j.at = "open"
      BY <2>1 DEF Fields, Streams
    <3> HIDE DEF j
    <3> QED BY <1>1, <2>1, <2>2, <2>3, <3>1 DEF JobIs, SendOK, j
  <2> QED BY <1>1, <2>1, <2>4, <2>5, <2>6, <2>7, TypesHold DEF Others
<1>6. CASE FirstPoll(s) \/ LatePoll(s)
  <2>1. /\ job[s].run \in Runs /\ job[s].upto \in Nat
    BY <1>1, <1>6 DEF FirstPoll, LatePoll, JobIs
  <2>2. /\ Stored(job[s].run) \in Nat /\ Stored(job[s].run) <= Len(log[job[s].run])
    BY <1>1, <2>1, StoredIs
  <2>3. /\ view' = SeeAll(view, job[s].run, job[s].upto, Stored(job[s].run))
        /\ UNCHANGED <<server, conv, url, hasty, lost>>
        /\ UNCHANGED loading \/ Settled(s)
    BY <1>6 DEF FirstPoll, LatePoll
  <2>4. view' \in Views
    BY <1>1, <2>1, <2>2, <2>3, SeeAllKeeps
  <2>5. FieldsOK'
    BY <1>1, <1>2, <2>3 DEF FieldsOK
  <2>6. Others(s) /\ JobIs(job'[s])
    <3>1. CASE LatePoll(s)
      BY <1>1, <3>1, EndsDoes DEF LatePoll
    <3>2. CASE FirstPoll(s)
      <4>1. /\ Others(s) /\ job[s].kind = "follow" /\ job[s].at \in {"first", "late"}
            /\ job[s].at = "late" => job'[s] = Idle
            /\ job[s].at = "first" =>
                 /\ job'[s].kind = "follow" /\ job'[s].at = "open" /\ job'[s].run = job[s].run
                 /\ job'[s].upto \in {job[s].upto, Stored(job[s].run)}
        BY <1>1, <3>2, FirstPollDoes
      <4> QED BY <1>1, <2>1, <2>2, <4>1 DEF JobIs, Kinds
    <3> QED BY <1>6, <3>1, <3>2
  <2> QED BY <1>1, <2>3, <2>4, <2>5, <2>6, TypesHold DEF Others
<1> QED BY <1>3, <1>4, <1>5, <1>6

\* What is answered of the other requests.
LEMMA RequestKeepsTypes ==
  ASSUME TypeInv, NEW s \in Slots,
         \/ Cancelled(s) \/ NoAnswer(s)
         \/ \E late \in BOOLEAN : Follow(s, late) \/ Deleted(s, late)
  PROVE  TypeInv'
<1>1. /\ PageInv /\ PageInv' /\ JobsInv /\ ServerInv /\ view \in Views /\ FieldsOK
      /\ JobIs(job[s]) /\ JobIs(Idle) /\ RefOK /\ JobsOK
      /\ view \in ViewTypes
  BY RequestKeepsPage, IdleIs DEF TypeInv, PageInv, JobsInv, JobIs, Kinds, Views
<1>2. CASE Cancelled(s)
  <2> DEFINE r == job[s].run
             a == [view EXCEPT !.run = r]
             b == [a EXCEPT !.status = "cancelled"]
             seen == view.seen \cup {Local}
  <2>1. /\ Others(s) /\ job'[s] = Idle
    BY <1>1, <1>2, EndsDoes DEF Cancelled
  <2>2. /\ UNCHANGED <<server, conv, url, ref, hasty, lost>> /\ loading' \in BOOLEAN
        /\ job[s].kind = "cancel"
    <3>1. loading' \in BOOLEAN
      BY <1>2, Zenon DEF Cancelled
    <3> QED BY <1>2, <3>1 DEF Cancelled
  <2>3. view' = [view EXCEPT !.run = r, !.status = "cancelled", !.seen = @ \cup {Local}]
    BY <1>2 DEF Cancelled
  <2>4. r \in Shown /\ (r \in Runs => home[r] # None)
    BY <1>1, <2>2 DEF JobIs, Shown
  <2>5. view' = [b EXCEPT !.seen = seen]
    <3> HIDE DEF r
    <3> QED BY <2>3
  <2>6. seen \in Seens
    BY <1>1 DEF ViewTypes, Seens
  <2> HIDE DEF r, seen
  <2>7. a \in ViewTypes /\ a.run = r /\ a.seen = view.seen /\ a.card = view.card
    BY <1>1, <2>4, ViewSet
  <2> HIDE DEF a
  <2>8. b \in ViewTypes /\ b.run = r /\ b.seen = view.seen /\ b.card = view.card
    <3>1. "cancelled" \in Statuses
      BY DEF Statuses, Rows
    <3> QED BY <2>7, <3>1, ViewSet
  <2> HIDE DEF b
  <2>9. view' \in ViewTypes /\ view'.run = r /\ view'.seen = seen /\ view'.card = view.card
    BY <2>5, <2>6, <2>8, ViewSet
  <2>10. view' \in Views
    BY <1>1, <2>4, <2>9 DEF Views, seen
  <2>11. FieldsOK'
    BY <1>1, <2>2 DEF FieldsOK
  <2> QED BY <1>1, <2>1, <2>2, <2>10, <2>11, TypesHold DEF Others
<1>3. CASE NoAnswer(s)
  <2>1. Others(s) /\ job'[s] = Idle
    BY <1>1, <1>3, EndsDoes DEF NoAnswer
  <2>2. UNCHANGED <<server, page, hasty>> /\ lost' \in {lost, lost + 1} /\ Bounded
    BY <1>3 DEF NoAnswer
  <2>3. FieldsOK' /\ view' = view
    BY <1>1, <2>2 DEF FieldsOK, Bounded, page
  <2> QED BY <1>1, <2>1, <2>2, <2>3, TypesHold DEF Others
<1>4. ASSUME NEW late \in BOOLEAN, Deleted(s, late)
      PROVE  TypeInv'
  <2>1. \A t \in Slots : JobIs(job'[t])
    <3>1. \A t \in Slots : JobIs(Cut(job, late)[t])
      BY <1>1, CutDoes, RemainsIs DEF JobsInv, JobsOK
    <3> QED BY <1>1, <1>4, <3>1, DeletedDoes DEF Others, JobsInv
  <2>2. UNCHANGED server /\ view' \in Views /\ FieldsOK'
    <3>1. CASE job[s].shown
      <4>1. /\ UNCHANGED <<server, hasty, lost>> /\ loading' = LoadingAfterCut /\ conv' = None
            /\ url' = None /\ view' = EmptyView
        BY <1>4, <3>1 DEF Deleted, Fresh
      <4>2. LoadingAfterCut \in BOOLEAN
        BY <1>1, AfterCutIsFlag DEF FieldsOK
      <4> QED BY <1>1, <4>1, <4>2, EmptyIsView DEF FieldsOK
    <3>2. CASE ~job[s].shown
      BY <1>1, <1>4, <3>2 DEF Deleted, page, FieldsOK
    <3> QED BY <3>1, <3>2
  <2> QED BY <1>1, <2>1, <2>2, TypesHold
<1>5. ASSUME NEW late \in BOOLEAN, Follow(s, late)
      PROVE  TypeInv'
  <2> DEFINE r == job[s].run
             cards == [view.card EXCEPT ![r] = "executing"]
  <2>1. /\ job[s].kind = "decide" /\ r \in Runs /\ job[s].upto \in Nat
        /\ job'[s].kind = "follow" /\ job'[s].at = "first" /\ job'[s].run = r
        /\ job'[s].upto = job[s].upto
        /\ \A t \in Slots \ {s} : job'[t] = Cut(job, late)[t]
    BY <1>1, <1>5, FollowDoes DEF JobIs
  <2>2. JobIs(job'[s])
    BY <2>1 DEF JobIs, Kinds
  <2>3. \A t \in Slots : JobIs(Cut(job, late)[t])
    BY <1>1, CutDoes, RemainsIs DEF JobsInv, JobsOK
  <2>4. view' \in Views
    <3>1. view' = Mark(r)
      BY <1>5 DEF Follow
    <3>2. CASE view.card[r] = "none"
      BY <1>1, <3>1, <3>2 DEF Mark
    <3>3. CASE view.card[r] # "none"
      <4>1. view' = [view EXCEPT !.card[r] = "executing"]
        BY <3>1, <3>3 DEF Mark
      <4> HIDE DEF r
      <4>2. view' = [view EXCEPT !.card = cards]
        BY <4>1
      <4>3. cards \in [Runs -> ViewCards] /\ \A q \in Runs \ {r} : cards[q] = view.card[q]
        BY <1>1, <2>1 DEF ViewTypes, ViewCards
      <4> HIDE DEF cards
      <4>4. view' \in ViewTypes /\ view'.run = view.run /\ view'.seen = view.seen /\ view'.card = cards
        BY <1>1, <4>2, <4>3, ViewSet
      <4> QED BY <1>1, <2>1, <3>3, <4>3, <4>4 DEF Views
    <3> QED BY <3>2, <3>3
  <2>5. FieldsOK' /\ UNCHANGED server
    <3>1. UNCHANGED <<server, conv, url, hasty, lost>>
      BY <1>5 DEF Follow
    <3>2. loading' \in BOOLEAN
      BY <1>5, Zenon DEF Follow
    <3> QED BY <1>1, <3>1, <3>2 DEF FieldsOK
  <2> QED BY <1>1, <2>1, <2>2, <2>3, <2>4, <2>5, TypesHold
<1> QED BY <1>2, <1>3, <1>4, <1>5

\* What happens in the database.
LEMMA ServerKeepsTypes ==
  ASSUME TypeInv, AtServer
  PROVE  TypeInv' /\ Grows
<1>1. /\ PageInv /\ JobsInv /\ ServerInv /\ view \in Views /\ FieldsOK
  BY DEF TypeInv
<1>2. ASSUME ServerInv', Grows, JobsInv', PageInv', UNCHANGED <<page, hasty, lost>>
      PROVE  TypeInv' /\ Grows
  BY <1>1, <1>2, ViewsGrow DEF TypeInv, page, FieldsOK
<1>3. ASSUME NEW s \in Slots, Claims(s) \/ Cancels(s) \/ Deletes(s)
      PROVE  TypeInv' /\ Grows
  <2>1. UNCHANGED <<page, hasty, lost>> /\ PageInv'
    BY <1>1, <1>3, RequestKeepsPage DEF Claims, Cancels, Deletes
  <2>2. JobIs(job[s]) /\ (Claims(s) => job[s].run \in Runs)
    BY <1>1 DEF JobsInv, JobIs, Claims
  <2>3. ServerInv' /\ Grows
    BY <1>1, <1>3, <2>2, ClaimKeepsServer, CancelKeepsServer, DeleteKeepsServer
  <2>4. Others(s) /\ JobIs(job'[s])
    <3>1. /\ Others(s) /\ job'[s].at = "answered"
          /\ \A g \in Fields \ {"at"} : job'[s][g] = job[s][g]
      BY <1>1, <1>3, AnswersDoes
    <3>2. /\ job'[s].kind = job[s].kind /\ job'[s].run = job[s].run /\ job'[s].upto = job[s].upto
          /\ job'[s].conv = job[s].conv /\ job'[s].shown = job[s].shown
          /\ job[s].kind \in {"decide", "cancel", "delete"}
      BY <1>3, <3>1 DEF Fields, Claims, Cancels, Deletes
    <3> QED BY <2>2, <3>1, <3>2 DEF JobIs
  <2>5. JobsInv'
    BY <1>1, <2>3, <2>4, JobsHold DEF Others
  <2> QED BY <1>2, <2>1, <2>3, <2>5
<1>4. ASSUME NEW s \in Slots, NEW c \in Conversations, SendStarts(s, c)
      PROVE  TypeInv' /\ Grows
  <2>1. UNCHANGED <<page, hasty, lost>> /\ PageInv'
    BY <1>1, <1>4, StreamKeepsPage DEF SendStarts
  <2>2. ServerInv' /\ Grows
    BY <1>1, <1>4, StartKeepsServer
  <2>3. /\ Others(s) /\ job[s].kind = "send" /\ job[s].at = "posted"
        /\ job'[s].kind = "send" /\ job'[s].at = "open" /\ job'[s].run = NewRun
        /\ job'[s].upto = job[s].upto /\ job'[s].conv = job[s].conv /\ job'[s].old = job[s].old
    BY <1>1, <1>4, StartsDoes
  <2>4. SendOK(job[s])
    BY <1>1, <2>3 DEF JobsInv, JobIs
  <2>5. /\ NewRun \in Runs /\ home[NewRun] = None /\ home' = [home EXCEPT ![NewRun] = c]
        /\ job[s].conv # None => c = job[s].conv
    <3>1. NewRun \in Runs /\ home[NewRun] = None
      BY <1>4, NewRunIsNew DEF SendStarts
    <3> QED BY <1>4, <3>1 DEF SendStarts, NewRun
  <2> DEFINE n == NewRun
             k == job'[s]
  <2>6. home'[n] = c /\ c # None /\ (k.old \in Runs => home'[k.old] # None)
    <3>1. home' = [home EXCEPT ![n] = c] /\ home \in [Runs -> Conversations \cup {None}]
      BY <1>1, <2>5 DEF ServerInv, ServerTypeOK
    <3>2. c # None
      BY ConversationsOK
    <3> HIDE DEF n
    <3> QED BY <2>3, <2>4, <2>5, <3>1, <3>2 DEF SendOK, n
  <2>7. k.upto = 0 /\ k.upto <= Len(log'[n])
    <3>1. log'[n] \in Seq(LogTypes)
      BY <2>2, <2>5 DEF ServerInv, ServerTypeOK
    <3>2. Len(log'[n]) \in Nat
      BY <3>1
    <3> QED BY <2>3, <2>4, <3>2 DEF SendOK
  <2>8. JobIs(job[s])'
    <3>1. SendOK(job[s])'
      BY <2>3, <2>4, <2>5, <2>6, <2>7 DEF SendOK
    <3> QED BY <2>3, <3>1 DEF JobIs, Kinds
  <2>9. JobsInv'
    BY <1>1, <2>2, <2>3, <2>8, JobsHold DEF Others
  <2> QED BY <1>2, <2>1, <2>2, <2>9
<1>5. ASSUME NEW r \in Runs, RunPauses(r) \/ RunResumes(r) \/ RunEnds(r)
      PROVE  TypeInv' /\ Grows
  <2>1. UNCHANGED <<page, job, hasty, lost>>
    BY <1>5 DEF RunPauses, RunResumes, RunEnds
  <2>2. PageInv'
    BY <1>1, <2>1 DEF page, PageInv, JobsOK, RefOK, ComposerIsFreed, Waits
  <2>3. ServerInv' /\ Grows
    BY <1>1, <1>5, EventsKeepServer
  <2>4. JobsInv'
    BY <1>1, <2>1, <2>3, JobsHold
  <2> QED BY <1>2, <2>1, <2>2, <2>3, <2>4
<1> QED BY <1>3, <1>4, <1>5 DEF AtServer

LEMMA StepKeepsTypes ==
  ASSUME TypeInv, [Next]_vars
  PROVE  TypeInv' /\ Grows
<1>1. CASE AtServer
  BY <1>1, ServerKeepsTypes
<1>2. CASE UNCHANGED server
  <2>1. Grows
    BY <1>2, ServerKept DEF TypeInv
  <2>2. CASE UserActs
    BY <2>1, <2>2, UserKeepsTypes
  <2>3. CASE PageAnswered
    <3>1. PICK s \in Slots :
            \/ RestoreLists(s) \/ RestoreReadsCard(s)
            \/ RestoreApplies(s) \/ RestoreFails(s)
            \/ \E fails \in BOOLEAN : RestoreReadsEvents(s, fails)
            \/ \E c \in Conversations : SendStarts(s, c)
            \/ Deliver(s) \/ End(s) \/ Break(s) \/ FirstPoll(s) \/ LatePoll(s)
            \/ Claims(s) \/ Cancels(s) \/ Cancelled(s) \/ Deletes(s) \/ NoAnswer(s)
            \/ \E late \in BOOLEAN : Follow(s, late) \/ Deleted(s, late)
      BY <2>3 DEF PageAnswered
    <3> QED BY <1>1, <2>1, <3>1, RestoreKeepsTypes, StreamKeepsTypes, RequestKeepsTypes DEF AtServer
  <2>4. CASE \E r \in Runs : RunPauses(r) \/ RunResumes(r) \/ RunEnds(r)
    BY <1>1, <2>4 DEF AtServer
  <2>5. CASE UNCHANGED vars
    <3>1. PageInv' /\ FieldsOK' /\ view' \in Views
      BY <2>5 DEF vars, TypeInv, PageInv, JobsOK, RefOK, ComposerIsFreed, Waits, FieldsOK
    <3>2. job' = job
      BY <2>5 DEF vars
    <3> QED BY <1>2, <2>1, <3>1, <3>2, TypesHold
  <2> QED BY <2>2, <2>3, <2>4, <2>5 DEF Next
<1> QED BY <1>1, <1>2, OnlyAtServer

LEMMA TypeInvHolds == Spec => []TypeInv
BY InitTypes, StepKeepsTypes, PTL DEF Spec

-----------------------------------------------------------------------------
(***************************************************************************)
(* Theorems.                                                               *)
(***************************************************************************)

\* The page shows events that the logs have, of Runs there are, and can abort a
\* stream there is.
THEOREM ViewIsOfTheLogs == Spec => []TypeOK
<1>1. TypeInv => TypeOK
  <2> SUFFICES ASSUME TypeInv PROVE TypeOK
    OBVIOUS
  <2>1. ServerTypeOK /\ RefOK /\ FieldsOK /\ view \in Views /\ ServerInv
    BY DEF TypeInv, PageInv, ServerInv
  <2>2. /\ home \in [Runs -> Conversations \cup {None}] /\ alive \subseteq Conversations
        /\ \A r \in Runs : row[r] \in RunTerminal \cup {"none", "running", "waiting"}
        /\ \A r \in Runs : card[r] \in {"none", "pending", "claimed", "decided", "superseded"}
    BY <2>1 DEF ServerTypeOK, Rows, Cards, RunTerminal
  <2>3. hasty + lost \in 0..MaxTrouble
    BY <2>1, ConversationsOK DEF FieldsOK
  <2>4. view.run \in Runs \cup {NoRun, Pending}
    BY <2>1 DEF Views, ViewTypes, Shown
  <2>5. \A e \in view.seen \ {Local} : e[2] \in DOMAIN log[e[1]]
    <3>1. \A e \in view.seen \ {Local} : e \in Happened
      BY <2>1 DEF Views
    <3> QED BY <2>1, <3>1, EventIs
  <2> QED BY <2>1, <2>2, <2>3, <2>4, <2>5 DEF TypeOK, FieldsOK, RefOK
<1> QED BY <1>1, TypeInvHolds, PTL

-----------------------------------------------------------------------------
(***************************************************************************)
(* What is shown to a user who waits for answers: one conversation.        *)
(***************************************************************************)

\* What is left of a follow that was aborted.
Late(j) == j.kind = "poll" \/ (j.kind = "follow" /\ j.at = "late")

\* A stream that is not aborted.
Held(j) == j.kind = "send" \/ (j.kind = "follow" /\ j.at # "late")

\* One request is on its way, or a cancellation and what is left of a follow; a
\* stream can be aborted.
Alone ==
  /\ \A s, t \in Slots : s # t /\ ~Free(s) /\ ~Free(t) =>
       \/ Late(job[s]) /\ job[t].kind = "cancel"
       \/ Late(job[t]) /\ job[s].kind = "cancel"
  /\ \A s \in Slots : Held(job[s]) => ref = s

HereViews(c) ==
  {v \in Views : /\ \A e \in v.seen \ {Local} : home[e[1]] = c
                 /\ \A r \in Runs : v.card[r] # "none" => home[r] = c}

\* A request is about the conversation that is shown.
JobHere(j) ==
  /\ j.kind \in {"decide", "follow", "poll"} => home[j.run] = conv
  /\ j.kind = "send" => IF j.at = "posted" THEN j.conv = conv ELSE conv \in {None, home[j.run]}

OneConversation == view \in HereViews(conv) /\ \A s \in Slots : JobHere(job[s])

OneInv == hasty = 0 => Alone /\ OneConversation

\* Only a user who waits leaves the count at nothing.
LEMMA HasteIs ==
  ASSUME NEW A, Haste(A), hasty \in Nat, hasty' = 0
  PROVE  hasty = 0 /\ \A s \in Slots : job[s].kind \in A \cup {"none"}
BY DEF Haste

\* A request other than a cancellation and what is left of a follow is the only
\* one.
LEMMA AloneIs ==
  ASSUME Alone, NEW s \in Slots, ~Free(s), ~Late(job[s]), job[s].kind # "cancel"
  PROVE  \A t \in Slots \ {s} : Free(t)
BY DEF Alone

\* The page is not alone with more requests when one changes or ends.
LEMMA AloneKept ==
  ASSUME Alone, NEW s \in Slots, Others(s), ~Free(s),
         \/ job'[s].kind = "none"
         \/ /\ job'[s].kind # "none"
            /\ Late(job[s]) => Late(job'[s])
            /\ job[s].kind = "cancel" => job'[s].kind = "cancel",
         Held(job'[s]) => ref' = s,
         ref' = ref \/ (Held(job[s]) \/ ref = s)
  PROVE  Alone'
<1>1. \A t \in Slots : ~Free(t)' => ~Free(t)
  BY DEF Free, Others
<1>2. ASSUME NEW t \in Slots, NEW u \in Slots, t # u, ~Free(t)', ~Free(u)'
      PROVE  \/ Late(job'[t]) /\ job'[u].kind = "cancel"
             \/ Late(job'[u]) /\ job'[t].kind = "cancel"
  BY <1>1, <1>2 DEF Alone, Others, Free
<1>3. ASSUME NEW t \in Slots, Held(job'[t])
      PROVE  ref' = t
  BY <1>3 DEF Alone, Others
<1> QED BY <1>2, <1>3 DEF Alone, Late, Held, Free

\* Nothing else is on its way: the request that is left.
LEMMA OneIsAlone ==
  ASSUME NEW s \in Slots, \A t \in Slots \ {s} : job'[t].kind = "none",
         Held(job'[s]) => ref' = s
  PROVE  Alone'
BY DEF Alone, Held, Late, Free

LEMMA NoneIsAlone ==
  ASSUME \A t \in Slots : job'[t].kind = "none"
  PROVE  Alone' /\ \A t \in Slots : JobHere(job[t])'
BY DEF Alone, Held, Late, Free, JobHere

\* An event of the conversation leaves a view of it, and so does a list of them.
LEMMA SeeHere ==
  ASSUME ServerInv, NEW c, NEW v \in HereViews(c), NEW e \in Happened, home[e[1]] = c
  PROVE  See(v, e) \in HereViews(c)
<1> DEFINE w == See(v, e)
<1>1. v \in Views /\ v \in ViewTypes /\ e[1] \in Runs /\ log[e[1]][e[2]] \in LogTypes
  BY EventIs DEF HereViews, Views
<1>2. w \in Views
  BY <1>1, SeeKeeps
<1>3. CASE e \in v.seen
  <2>1. w = v
    BY <1>1, <1>3, SeeIs
  <2> QED BY <2>1
<1>4. CASE e \notin v.seen
  <2>1. w.seen \subseteq v.seen \cup {e}
        /\ \A q \in Runs \ {e[1]} : w.card[q] \in {v.card[q], "none"}
    BY <1>1, <1>4, SeeIs, EmptyIsView DEF LogTypes
  <2> HIDE DEF w
  <2> QED BY <1>1, <1>2, <2>1 DEF HereViews, w
<1> QED BY <1>3, <1>4

LEMMA SeeAllHere ==
  ASSUME ServerInv, NEW c, NEW v \in HereViews(c), NEW r \in Runs, home[r] = c,
         NEW from \in Nat, NEW upto \in Nat, upto <= Len(log[r])
  PROVE  SeeAll(v, r, from, upto) \in HereViews(c)
<1>1. \A w \in HereViews(c), e \in EventsOf(r, from, upto) : See(w, e) \in HereViews(c)
  <2> SUFFICES ASSUME NEW w \in HereViews(c), NEW e \in EventsOf(r, from, upto)
               PROVE  See(w, e) \in HereViews(c)
    OBVIOUS
  <2>1. e \in Happened /\ e[1] = r
    BY ListedHappened DEF EventsOf
  <2> QED BY <2>1, SeeHere
<1> QED BY <1>1, SeeAllStays

LEMMA EmptyIsHere ==
  ASSUME NEW c
  PROVE  EmptyView \in HereViews(c)
BY EmptyIsView DEF HereViews

\* A view of a conversation stays one when Runs go on.
LEMMA HereGrows ==
  ASSUME ServerInv, Grows, NEW c
  PROVE  HereViews(c) \subseteq HereViews(c)'
<1> SUFFICES ASSUME NEW v \in HereViews(c) PROVE v \in HereViews(c)'
  OBVIOUS
<1>1. v \in Views /\ v \in Views'
  BY ViewsGrow DEF HereViews
<1>2. \A e \in v.seen \ {Local} : home[e[1]] = c /\ home'[e[1]] = c
  <2> SUFFICES ASSUME NEW e \in v.seen \ {Local} PROVE home[e[1]] = c /\ home'[e[1]] = c
    OBVIOUS
  <2>1. e \in Happened
    BY <1>1 DEF Views
  <2>2. home[e[1]] = c /\ home[e[1]] # None /\ e[1] \in Runs
    BY <2>1, EventIs DEF HereViews
  <2> QED BY <2>2 DEF Grows
<1>3. \A r \in Runs : v.card[r] # "none" => home'[r] = c
  BY <1>1 DEF HereViews, Views, Grows
<1> QED BY <1>1, <1>2, <1>3 DEF HereViews

\* What a conversation is shown with before its first Run: nothing.
LEMMA NoneShowsNothing ==
  ASSUME ServerInv, NEW v \in HereViews(None), NEW c
  PROVE  v \in HereViews(c)
<1>1. \A e \in v.seen \ {Local} : FALSE
  <2> SUFFICES ASSUME NEW e \in v.seen \ {Local} PROVE FALSE
    OBVIOUS
  <2>1. e \in Happened
    BY DEF HereViews, Views
  <2> QED BY <2>1, EventIs DEF HereViews
<1>2. \A r \in Runs : v.card[r] = "none"
  BY DEF HereViews, Views
<1> QED BY <1>1, <1>2 DEF HereViews

\* What the user does, who waits for answers: only a stream is abandoned.
LEMMA UserKeepsOne ==
  ASSUME TypeInv, OneInv, UserActs, hasty' = 0
  PROVE  Alone' /\ OneConversation'
<1>1. /\ PageInv /\ RefOK /\ JobsOK /\ ServerInv /\ hasty \in Nat /\ view \in Views
      /\ \A t \in Slots : JobIs(job[t])
  BY DEF TypeInv, PageInv, FieldsOK, JobsInv
<1>2. ASSUME UNCHANGED <<home, log, conv, view>>, view \in HereViews(conv),
             \A t \in Slots : JobHere(job'[t])
      PROVE  OneConversation'
  <2>1. view' \in HereViews(conv)'
    BY <1>1, <1>2, HereGrows DEF HereViews, Views, Happened, ViewTypes
  <2> QED BY <1>2, <2>1 DEF OneConversation, JobHere
<1>3. CASE \E c \in Conversations : Select(c)
  <2>1. PICK c \in Conversations : Select(c)
    BY <1>3
  <2>2. hasty = 0 /\ \A t \in Slots : job[t].kind = "none"
    BY <1>1, <2>1, HasteIs DEF Select
  <2>3. PICK s \in Slots : Others(s) /\ IsRestoring(job'[s], c)
    BY <1>1, <2>1, SelectDoes
  <2>4. Alone'
    BY <2>2, <2>3, OneIsAlone DEF Others, IsRestoring, Held
  <2>5. \A t \in Slots : JobHere(job'[t])
    BY <2>2, <2>3 DEF Others, IsRestoring, JobHere
  <2>6. UNCHANGED <<home, log, conv, view>> /\ view \in HereViews(conv)
    BY <2>1, <2>2 DEF Select, server, OneInv, OneConversation
  <2> QED BY <1>2, <2>4, <2>5, <2>6
<1>4. CASE Send
  <2>1. hasty = 0 /\ \A t \in Slots : job[t].kind = "none"
    BY <1>1, <1>4, HasteIs DEF Send
  <2>2. PICK s \in Slots :
           LET k == job'[s]
           IN /\ Free(s) /\ Others(s) /\ ref' = s
              /\ k.kind = "send" /\ k.at = "posted" /\ k.conv = conv /\ k.old = view.run
              /\ k.upto = 0
    BY <1>1, <1>4, SendDoes
  <2>3. Alone'
    BY <2>1, <2>2, OneIsAlone DEF Others
  <2>4. \A t \in Slots : JobHere(job'[t])
    BY <2>1, <2>2 DEF Others, JobHere
  <2>5. UNCHANGED <<home, log, conv, view>> /\ view \in HereViews(conv)
    BY <1>4, <2>1 DEF Send, server, OneInv, OneConversation
  <2> QED BY <1>2, <2>3, <2>4, <2>5
<1>5. CASE \E r \in Runs : Decide(r)
  <2>1. PICK r \in Runs : Decide(r)
    BY <1>5
  <2>2. hasty = 0 /\ \A t \in Slots : job[t].kind = "none"
    BY <1>1, <2>1, HasteIs DEF Decide
  <2>3. PICK s \in Slots :
           LET k == job'[s]
           IN /\ Free(s) /\ Others(s)
              /\ k.kind = "decide" /\ k.at = "asked" /\ k.run = r /\ k.upto = Cursor
    BY <1>1, <2>1, DecideDoes
  <2>4. Alone'
    BY <2>2, <2>3, OneIsAlone DEF Others, Held
  <2>5. UNCHANGED <<home, log, conv, view>> /\ view \in HereViews(conv)
    BY <2>1, <2>2 DEF Decide, server, page, OneInv, OneConversation
  <2>6. home[r] = conv
    BY <2>1, <2>5 DEF Decide, HereViews
  <2>7. \A t \in Slots : JobHere(job'[t])
    BY <2>2, <2>3, <2>6 DEF Others, JobHere
  <2> QED BY <1>2, <2>4, <2>5, <2>7
<1>6. CASE \E c \in Conversations : Delete(c)
  <2>1. PICK c \in Conversations : Delete(c)
    BY <1>6
  <2>2. hasty = 0 /\ \A t \in Slots : job[t].kind = "none"
    BY <1>1, <2>1, HasteIs DEF Delete
  <2>3. PICK s \in Slots :
           LET k == job'[s]
           IN /\ Free(s) /\ Others(s) /\ c \in alive
              /\ k.kind = "delete" /\ k.at = "asked" /\ k.conv = c /\ k.shown = (conv = c)
    BY <1>1, <2>1, DeleteDoes
  <2>4. Alone'
    BY <2>2, <2>3, OneIsAlone DEF Others, Held
  <2>5. \A t \in Slots : JobHere(job'[t])
    BY <2>2, <2>3 DEF Others, JobHere
  <2>6. UNCHANGED <<home, log, conv, view>> /\ view \in HereViews(conv)
    BY <2>1, <2>2 DEF Delete, server, page, OneInv, OneConversation
  <2> QED BY <1>2, <2>4, <2>5, <2>6
<1>7. CASE \E late \in BOOLEAN : New(late)
  <2>1. PICK late \in BOOLEAN : New(late)
    BY <1>7
  <2>2. hasty = 0 /\ \A t \in Slots : job[t].kind \in {"send", "none"}
    BY <1>1, <2>1, HasteIs DEF New
  <2>3. job' = Cut(job, late) /\ view' = EmptyView
    BY <2>1 DEF New, Fresh
  <2>4. \A t \in Slots : job'[t].kind = "none"
    <3> SUFFICES ASSUME NEW t \in Slots PROVE job'[t].kind = "none"
      OBVIOUS
    <3>1. CASE t = ref
      <4>1. job[ref].kind = "send"
        BY <1>1, <2>2, <3>1, NoRefOK DEF RefOK
      <4> QED BY <1>1, <2>3, <3>1, <4>1, CutDoes, IdleIs, NoRefOK DEF JobsOK
    <3>2. CASE t # ref
      <4>1. job'[t] = job[t]
        BY <1>1, <2>3, <3>2, CutDoes DEF JobsOK
      <4> QED BY <2>2, <3>2, <4>1 DEF OneInv, Alone, Held
    <3> QED BY <3>1, <3>2
  <2>5. view' \in HereViews(conv)'
    <3>1. UNCHANGED <<home, log>>
      BY <2>1 DEF New, server
    <3>2. EmptyView \in HereViews(conv')
      BY EmptyIsHere
    <3> QED BY <2>3, <3>1, <3>2 DEF HereViews, Views, Happened
  <2> QED BY <2>4, <2>5, NoneIsAlone DEF OneConversation
<1>8. CASE \E late \in BOOLEAN : Stop(late)
  <2>1. PICK late \in BOOLEAN : Stop(late)
    BY <1>8
  <2>2. hasty = 0 /\ \A t \in Slots : job[t].kind \in {"send", "follow", "none"}
    BY <1>1, <2>1, HasteIs DEF Stop
  <2>3. Alone /\ OneConversation
    BY <2>2 DEF OneInv
  <2>4. \A t, u \in Slots : t # u => Free(t) \/ Free(u)
    BY <2>2, <2>3 DEF Alone, Free
  <2> DEFINE cut == Cut(job, late)
  <2>5. ASSUME NEW t \in Slots
        PROVE  /\ cut[t].kind = "none" \/ (Late(cut[t]) /\ ~Free(t))
               /\ JobHere(cut[t])
    <3>1. Remains(job[t], cut[t]) /\ (t # ref => cut[t] = job[t])
      BY <1>1, CutDoes DEF JobsOK
    <3>2. JobHere(job[t])
      BY <2>3 DEF OneConversation
    <3>3. ref # NoRef => job[ref].kind \in {"send", "follow"}
      BY <1>1 DEF RefOK
    <3>4. CASE job[t].kind = "send"
      <4>1. ref = t /\ ref # NoRef
        BY <2>3, <3>4, NoRefOK DEF Alone, Held
      <4>2. cut[t] = Idle
        BY <1>1, <3>4, <4>1, CutDoes DEF JobsOK
      <4> QED BY <4>2, IdleIs DEF JobHere
    <3>5. CASE job[t].kind = "follow"
      <4>1. ~Free(t) /\ home[job[t].run] = conv /\ job[t].at \in {"first", "late", "open"}
        BY <1>1, <3>2, <3>5 DEF Free, JobHere, JobIs
      <4>2. cut[t] # job[t] \/ job[t].at = "late"
        <5>1. CASE job[t].at # "late"
          <6>1. ref = t /\ ref # NoRef /\ IsRequest(job[t])
            BY <1>1, <2>3, <3>5, <5>1, NoRefOK DEF Alone, Held, JobsOK
          <6>2. cut[t] = AfterAbort(job[t], late)
            BY <1>1, <6>1 DEF Cut, JobsOK
          <6>3. CASE job[t].at = "first"
            <7>1. cut[t] = [job[t] EXCEPT !.at = "late"]
              BY <3>5, <6>2, <6>3 DEF AfterAbort
            <7>2. cut[t].at = "late"
              BY <6>1, <7>1, FieldSet DEF Fields
            <7> QED BY <6>3, <7>2
          <6>4. CASE job[t].at = "open"
            <7>1. cut[t].kind # "follow"
              <8>1. late => cut[t] = [job[t] EXCEPT !.kind = "poll", !.at = "late"]
                BY <3>5, <6>2, <6>4 DEF AfterAbort
              <8>2. ~late => cut[t] = Idle
                BY <3>5, <6>2, <6>4 DEF AfterAbort
              <8>3. [job[t] EXCEPT !.kind = "poll", !.at = "late"].kind = "poll"
                BY <6>1 DEF IsRequest, Fields
              <8> QED BY <8>1, <8>2, <8>3, IdleIs
            <7> QED BY <3>5, <7>1
          <6> QED BY <4>1, <5>1, <6>3, <6>4
        <5> QED BY <5>1
      <4> HIDE DEF cut
      <4> QED BY <3>1, <3>5, <4>1, <4>2, IdleIs DEF Remains, Late, JobHere
    <3>6. CASE job[t].kind = "none"
      <4>1. t # ref
        BY <3>3, <3>6, NoRefOK
      <4> QED BY <3>1, <3>2, <3>6, <4>1
    <3> QED BY <2>2, <3>4, <3>5, <3>6
  <2>6. UNCHANGED <<home, log, conv, view>> /\ view \in HereViews(conv)
    BY <2>1, <2>3 DEF Stop, server, OneConversation
  <2> HIDE DEF cut
  <2>7. CASE job' = cut
    <3>1. \A t, u \in Slots : t # u => job'[t].kind = "none" \/ job'[u].kind = "none"
      BY <2>4, <2>5, <2>7
    <3>2. Alone'
      BY <2>5, <2>7, <3>1 DEF Alone, Held, Late, Free
    <3> QED BY <1>2, <2>5, <2>6, <2>7, <3>2
  <2>8. CASE \E s \in Slots :
               LET k == job'[s]
               IN /\ Free(s) /\ s # ref /\ view.run # NoRun
                  /\ \A t \in Slots \ {s} : job'[t] = Cut(job, late)[t]
                  /\ k.kind = "cancel" /\ k.at = "asked" /\ k.run = view.run
    <3>1. PICK s \in Slots :
               LET k == job'[s]
               IN /\ Free(s) /\ \A t \in Slots \ {s} : job'[t] = cut[t]
                  /\ k.kind = "cancel"
      BY <2>8 DEF cut
    <3>2. \A t, u \in Slots \ {s} : t # u => job'[t].kind = "none" \/ job'[u].kind = "none"
      BY <2>4, <2>5, <3>1
    <3>3. \A t \in Slots \ {s} : job'[t].kind = "none" \/ Late(job'[t])
      BY <2>5, <3>1
    <3>4. Alone'
      <4>1. ASSUME NEW t \in Slots, NEW u \in Slots, t # u, ~Free(t)', ~Free(u)'
            PROVE  \/ Late(job'[t]) /\ job'[u].kind = "cancel"
                   \/ Late(job'[u]) /\ job'[t].kind = "cancel"
        BY <3>1, <3>2, <3>3, <4>1 DEF Free
      <4>2. \A t \in Slots : ~Held(job'[t])
        BY <3>1, <3>3 DEF Held, Late
      <4> QED BY <4>1, <4>2 DEF Alone, Late, Held, Free
    <3>5. \A t \in Slots : JobHere(job'[t])
      BY <2>5, <3>1 DEF JobHere
    <3> QED BY <1>2, <2>6, <3>4, <3>5
  <2> QED BY <1>1, <2>1, <2>7, <2>8, StopDoes DEF cut
<1>9. CASE Reload
  <2>1. PICK first \in Slots :
          job' = [s \in Slots |-> IF url # None /\ s = first THEN Restoring(url) ELSE Idle]
    BY <1>9 DEF Reload
  <2>2. /\ \A t \in Slots \ {first} : job'[t].kind = "none"
        /\ job'[first].kind \in {"none", "restore"}
    BY <2>1, IdleIs DEF IsRestoring
  <2>3. Alone'
    BY <2>2, OneIsAlone DEF Held
  <2>4. \A t \in Slots : JobHere(job[t])'
    BY <2>2 DEF JobHere
  <2>5. view' \in HereViews(conv)'
    <3>1. UNCHANGED <<home, log>> /\ view' = EmptyView
      BY <1>9 DEF Reload, server
    <3>2. EmptyView \in HereViews(conv')
      BY EmptyIsHere
    <3> QED BY <3>1, <3>2 DEF HereViews, Views, Happened
  <2> QED BY <2>3, <2>4, <2>5 DEF OneConversation
<1> QED BY <1>3, <1>4, <1>5, <1>6, <1>7, <1>8, <1>9 DEF UserActs

\* What is shown is of the conversation as long as what is added is.
LEMMA HereFrom ==
  ASSUME TypeInv', home' = home, view \in HereViews(conv), conv' = conv,
         view'.seen \subseteq view.seen \cup {Local},
         \A r \in Runs : view'.card[r] = view.card[r] \/ view.card[r] # "none"
  PROVE  view' \in HereViews(conv)'
BY DEF HereViews, TypeInv

LEMMA HereAgain ==
  ASSUME ServerInv, UNCHANGED server, NEW c, view' \in HereViews(c), conv' = c
  PROVE  view' \in HereViews(conv)'
BY HereGrows, ServerKept

\* The other requests are about what they were about.
LEMMA OthersHere ==
  ASSUME NEW s \in Slots, Others(s), UNCHANGED <<home, conv>>, OneConversation,
         JobHere(job'[s])
  PROVE  \A t \in Slots : JobHere(job[t])'
BY DEF Others, OneConversation, JobHere

\* What is answered of a restore: nothing else is on its way.
LEMMA RestoreKeepsOne ==
  ASSUME TypeInv, TypeInv', Alone, OneConversation, NEW s \in Slots,
         \/ RestoreLists(s) \/ RestoreReadsCard(s) \/ RestoreApplies(s) \/ RestoreFails(s)
         \/ \E fails \in BOOLEAN : RestoreReadsEvents(s, fails)
  PROVE  Alone' /\ OneConversation'
<1>1. /\ PageInv /\ ServerInv /\ JobIs(job[s]) /\ view \in HereViews(conv)
  BY DEF TypeInv, JobsInv, OneConversation
<1>2. job[s].kind = "restore"
  BY DEF RestoreLists, RestoreReadsCard, RestoreApplies, RestoreFails, RestoreReadsEvents
<1>3. \A t \in Slots \ {s} : job[t].kind = "none"
  BY <1>2, AloneIs DEF Free, Late
<1>4. Others(s) /\ job'[s].kind \in {"none", "restore"}
  BY <1>1, ListsDoes, ReadsCardDoes, ReadsEventsDoes, EndsDoes, IdleIs
     DEF RestoreApplies, RestoreFails
<1>5. Alone' /\ \A t \in Slots : JobHere(job[t])'
  <2>1. \A t \in Slots \ {s} : job'[t].kind = "none"
    BY <1>3, <1>4 DEF Others
  <2>2. ~Held(job'[s])
    BY <1>4 DEF Held
  <2>3. \A t \in Slots : job'[t].kind \in {"none", "restore"}
    BY <1>4, <2>1
  <2> QED BY <2>1, <2>2, <2>3, OneIsAlone DEF JobHere
<1>6. view' \in HereViews(conv)'
  <2>1. UNCHANGED server
    BY DEF RestoreLists, RestoreReadsCard, RestoreApplies, RestoreFails, RestoreReadsEvents
  <2>2. CASE ~RestoreApplies(s)
    <3>1. UNCHANGED <<conv, view>>
      BY <2>2 DEF RestoreLists, RestoreReadsCard, RestoreFails, RestoreReadsEvents, page
    <3> QED BY <1>1, <2>1, <3>1, HereAgain
  <2>3. CASE RestoreApplies(s)
    <3> DEFINE j == job[s]
    <3>1. /\ RestoreOK(j) /\ (j.run # NoRun => j.upto # Far /\ j.card # "unread")
          /\ conv' = j.conv /\ view' = Restored(j.run, j.row, j.card, j.upto)
      BY <1>1, <1>2, <2>3 DEF RestoreApplies, JobIs
    <3> HIDE DEF j
    <3>2. view' \in HereViews(j.conv)
      <4>1. CASE j.run = NoRun
        BY <3>1, <4>1, EmptyIsHere DEF Restored
      <4>2. CASE j.run # NoRun
        <5> DEFINE all == SeeAll(EmptyView, j.run, 0, j.upto)
        <5>1. /\ j.run \in Runs /\ home[j.run] # None /\ j.row \in Rows /\ j.card \in Cards
              /\ j.upto \in Nat /\ j.upto <= Len(log[j.run]) /\ home[j.run] = j.conv
          BY <3>1, <4>2, ConversationsOK DEF RestoreOK
        <5>2. all \in HereViews(j.conv)
          BY <1>1, <5>1, EmptyIsHere, SeeAllHere
        <5>3. /\ view' \in Views /\ view'.seen = all.seen
              /\ \A q \in Runs \ {j.run} : view'.card[q] = all.card[q]
          BY <1>1, <3>1, <5>1, RestoredIs
        <5> HIDE DEF all
        <5> QED BY <5>1, <5>2, <5>3 DEF HereViews
      <4> QED BY <4>1, <4>2
    <3> QED BY <1>1, <2>1, <3>1, <3>2, HereAgain
  <2> QED BY <2>2, <2>3
<1> QED BY <1>5, <1>6 DEF OneConversation

\* What is answered of a stream, or of what is left of one.
LEMMA StreamKeepsOne ==
  ASSUME TypeInv, TypeInv', Alone, OneConversation, NEW s \in Slots,
         Deliver(s) \/ End(s) \/ Break(s) \/ FirstPoll(s) \/ LatePoll(s)
  PROVE  Alone' /\ OneConversation'
<1>1. /\ PageInv /\ ServerInv /\ JobIs(job[s]) /\ view \in HereViews(conv) /\ view \in ViewTypes
      /\ JobHere(job[s]) /\ JobHere(Idle)
  BY IdleIs DEF TypeInv, JobsInv, OneConversation, Views, JobHere
<1>2. UNCHANGED server /\ home' = home
  BY DEF Deliver, End, Break, FirstPoll, LatePoll, server
<1>3. ASSUME Others(s), job'[s] = Idle, conv' = conv, ~Free(s), ref' = ref \/ Held(job[s]) \/ ref = s
      PROVE  Alone' /\ \A t \in Slots : JobHere(job[t])'
  <2>1. Alone'
    BY <1>3, IdleIs, AloneKept DEF Held
  <2> QED BY <1>1, <1>2, <1>3, <2>1, OthersHere
<1>4. ASSUME Settled(s), job[s].kind \in {"send", "follow"}
      PROVE  /\ Others(s) /\ job'[s] = Idle /\ ~Free(s)
             /\ ref' = ref \/ Held(job[s]) \/ ref = s
  <2>1. job' = [job EXCEPT ![s] = Idle] /\ (ref' = ref \/ job[s].kind = "send" \/ ref = s)
    BY <1>4 DEF Settled
  <2> QED BY <1>1, <1>4, <2>1, EndsDoes DEF Held, Free
<1>5. CASE End(s)
  <2>1. Settled(s) /\ UNCHANGED <<conv, view>> /\ job[s].kind \in {"send", "follow"}
    BY <1>5 DEF End, Streams
  <2>2. view' \in HereViews(conv)'
    BY <1>1, <1>2, <2>1, HereAgain
  <2> QED BY <1>3, <1>4, <2>1, <2>2 DEF OneConversation
<1>6. CASE Break(s)
  <2>1. Settled(s) /\ conv' = conv /\ job[s].kind \in {"send", "follow"}
    BY <1>6 DEF Break
  <2>2. view'.seen \subseteq view.seen \cup {Local} /\ view'.card = view.card
    <3> DEFINE old == IF job[s].old = NoRun THEN Pending ELSE job[s].old
    <3>1. view' = view \/ view' = [view EXCEPT !.run = old, !.status = "interrupted",
                                               !.seen = @ \cup {Local}]
      BY <1>6 DEF Break
    <3> HIDE DEF old
    <3> QED BY <1>1, <3>1 DEF ViewTypes
  <2>3. view' \in HereViews(conv)'
    BY <1>1, <1>2, <2>1, <2>2, HereFrom
  <2> QED BY <1>3, <1>4, <2>1, <2>3 DEF OneConversation
<1>7. CASE LatePoll(s) \/ FirstPoll(s)
  <2>1. /\ job[s].run \in Runs /\ job[s].upto \in Nat /\ home[job[s].run] = conv
        /\ view' = SeeAll(view, job[s].run, job[s].upto, Stored(job[s].run)) /\ conv' = conv
    BY <1>1, <1>7 DEF LatePoll, FirstPoll, JobIs, JobHere
  <2>2. Stored(job[s].run) \in Nat /\ Stored(job[s].run) <= Len(log[job[s].run])
    BY <1>1, <2>1, StoredIs
  <2>3. view' \in HereViews(conv)
    BY <1>1, <2>1, <2>2, SeeAllHere
  <2>4. view' \in HereViews(conv)'
    BY <1>1, <1>2, <2>1, <2>3, HereAgain
  <2>5. Alone' /\ \A t \in Slots : JobHere(job[t])'
    <3>1. CASE LatePoll(s)
      <4>1. Others(s) /\ job'[s] = Idle /\ ~Free(s) /\ ref' = ref
        BY <1>1, <3>1, EndsDoes DEF LatePoll, Free
      <4> QED BY <1>3, <2>1, <4>1
    <3>2. CASE FirstPoll(s) /\ job[s].at = "late"
      <4>1. Settled(s) /\ job[s].kind = "follow"
        BY <3>2 DEF FirstPoll
      <4> QED BY <1>3, <1>4, <2>1, <4>1
    <3>3. CASE FirstPoll(s) /\ job[s].at = "first"
      <4>1. /\ Others(s) /\ job[s].kind = "follow" /\ job'[s].kind = "follow"
            /\ job'[s].run = job[s].run
        BY <1>1, <3>3, FirstPollDoes
      <4>2. ref' = ref /\ ref = s
        BY <3>3, <4>1 DEF FirstPoll, Alone, Held
      <4>3. \A t \in Slots \ {s} : job'[t].kind = "none"
        BY <3>3, <4>1, AloneIs DEF Free, Late, Others
      <4>4. Alone'
        BY <4>2, <4>3, OneIsAlone
      <4>5. JobHere(job'[s])
        BY <2>1, <4>1 DEF JobHere
      <4> QED BY <1>2, <2>1, <4>1, <4>4, <4>5, OthersHere
    <3> QED BY <1>7, <3>1, <3>2, <3>3 DEF FirstPoll
  <2> QED BY <2>4, <2>5 DEF OneConversation
<1>8. CASE Deliver(s)
  <2> DEFINE j == job[s]
             e == <<j.run, j.upto + 1>>
             c == home[j.run]
  <2>1. /\ Others(s) /\ Streams(s) /\ job'[s].kind = j.kind /\ job'[s].at = j.at
        /\ job'[s].run = j.run
    BY <1>1, <1>8, DeliverDoes DEF Fields
  <2>2. /\ j.run \in Runs /\ j.upto \in Nat /\ c \in alive /\ j.upto < Sendable(j)
        /\ c # None
    BY <1>1, <1>8, <2>1, ConversationsOK
       DEF Deliver, Streams, JobIs, SendOK, ServerInv, ServerTypeOK
  <2>3. e \in Happened /\ home[e[1]] = c
    <3>1. Sendable(j) \in Nat /\ Sendable(j) <= Len(log[j.run])
      BY <1>1, <2>2, SendableIs
    <3>2. DOMAIN log[j.run] = 1..Len(log[j.run]) /\ Len(log[j.run]) \in Nat
      BY <1>1, <2>2 DEF ServerInv, ServerTypeOK
    <3>3. j.upto + 1 \in DOMAIN log[j.run]
      <4> HIDE DEF j
      <4> QED BY <2>2, <3>1, <3>2
    <3> QED BY <2>2, <3>3 DEF Happened
  <2>4. /\ view' = See(view, e) /\ ref' = ref
        /\ conv' = IF j.kind = "send" /\ conv = None THEN c ELSE conv
    BY <1>8 DEF Deliver
  <2> HIDE DEF c, e
  <2>5. conv' = c /\ view \in HereViews(c)
    <3>1. CASE j.kind = "follow"
      BY <1>1, <2>4, <3>1 DEF JobHere, c
    <3>2. CASE j.kind = "send"
      <4>1. conv \in {None, c}
        BY <1>1, <2>1, <3>2 DEF JobHere, Streams, c
      <4> QED BY <1>1, <2>4, <3>2, <4>1, NoneShowsNothing
    <3> QED BY <2>1, <3>1, <3>2 DEF Streams
  <2>6. view' \in HereViews(c)
    BY <1>1, <2>3, <2>4, <2>5, SeeHere
  <2>7. view' \in HereViews(conv)'
    BY <1>1, <1>2, <2>5, <2>6, HereAgain
  <2>8. \A t \in Slots \ {s} : job'[t].kind = "none"
    BY <2>1, AloneIs DEF Streams, Free, Late, Others
  <2>9. Alone'
    <3>1. Held(job'[s]) => ref' = s
      BY <2>1, <2>4 DEF Alone, Held
    <3> QED BY <2>8, <3>1, OneIsAlone
  <2>10. ASSUME NEW t \in Slots PROVE JobHere(job[t])'
    <3>1. CASE t = s
      BY <1>2, <2>1, <2>5, <3>1 DEF JobHere, Streams, c
    <3>2. CASE t # s
      BY <2>8, <3>2 DEF JobHere
    <3> QED BY <3>1, <3>2
  <2> QED BY <2>7, <2>9, <2>10 DEF OneConversation
<1> QED BY <1>5, <1>6, <1>7, <1>8

\* What is answered of the other requests.
LEMMA RequestKeepsOne ==
  ASSUME TypeInv, TypeInv', Alone, OneConversation, NEW s \in Slots,
         \/ Cancelled(s) \/ NoAnswer(s)
         \/ \E late \in BOOLEAN : Follow(s, late) \/ Deleted(s, late)
  PROVE  Alone' /\ OneConversation'
<1>1. /\ PageInv /\ ServerInv /\ JobIs(job[s]) /\ view \in HereViews(conv) /\ view \in ViewTypes
      /\ JobHere(job[s]) /\ JobHere(Idle) /\ RefOK /\ JobsOK
  BY IdleIs DEF TypeInv, PageInv, JobsInv, OneConversation, Views, JobHere
<1>2. UNCHANGED server /\ home' = home
  BY DEF Cancelled, NoAnswer, Follow, Deleted, server
<1>3. ASSUME Others(s), job'[s] = Idle, conv' = conv, ~Free(s), ref' = ref
      PROVE  Alone' /\ \A t \in Slots : JobHere(job[t])'
  <2>1. Alone'
    BY <1>3, IdleIs, AloneKept DEF Held
  <2> QED BY <1>1, <1>2, <1>3, <2>1, OthersHere
<1>4. CASE Cancelled(s)
  <2>1. Others(s) /\ job'[s] = Idle /\ conv' = conv /\ ~Free(s) /\ ref' = ref
    BY <1>1, <1>4, EndsDoes DEF Cancelled, Free
  <2>2. view'.seen = view.seen \cup {Local} /\ view'.card = view.card
    <3> DEFINE r == job[s].run
    <3>1. view' = [view EXCEPT !.run = r, !.status = "cancelled", !.seen = @ \cup {Local}]
      BY <1>4 DEF Cancelled
    <3> HIDE DEF r
    <3> QED BY <1>1, <3>1 DEF ViewTypes
  <2>3. view' \in HereViews(conv)'
    BY <1>1, <1>2, <2>1, <2>2, HereFrom
  <2> QED BY <1>3, <2>1, <2>3 DEF OneConversation
<1>5. CASE NoAnswer(s)
  <2>1. Others(s) /\ job'[s] = Idle /\ conv' = conv /\ ~Free(s) /\ ref' = ref /\ view' = view
    BY <1>1, <1>5, EndsDoes DEF NoAnswer, Free, page
  <2>2. view' \in HereViews(conv)'
    BY <1>1, <1>2, <2>1, HereAgain
  <2> QED BY <1>3, <2>1, <2>2 DEF OneConversation
<1>6. ASSUME NEW late \in BOOLEAN, Follow(s, late)
      PROVE  Alone' /\ OneConversation'
  <2> DEFINE r == job[s].run
  <2>1. /\ job[s].kind = "decide" /\ r \in Runs /\ home[r] = conv
        /\ job'[s].kind = "follow" /\ job'[s].at = "first" /\ job'[s].run = r
        /\ \A t \in Slots \ {s} : job'[t] = Cut(job, late)[t]
    BY <1>1, <1>6, FollowDoes DEF JobIs, JobHere
  <2>2. \A t \in Slots \ {s} : job[t].kind = "none"
    BY <2>1, AloneIs DEF Free, Late
  <2>3. ref = NoRef
    BY <1>1, <2>1, <2>2 DEF RefOK
  <2>4. Others(s) /\ ref' = s /\ conv' = conv /\ view' = Mark(r)
    BY <1>6, <2>1, <2>3 DEF Follow, Others, Cut
  <2>5. Alone'
    BY <2>2, <2>4, OneIsAlone DEF Others
  <2>6. \A t \in Slots : JobHere(job[t])'
    BY <1>2, <2>1, <2>4, OthersHere DEF JobHere
  <2>7. view'.seen = view.seen /\ \A q \in Runs : view'.card[q] = view.card[q] \/ view.card[q] # "none"
    <3>1. CASE view.card[r] = "none"
      BY <2>4, <3>1 DEF Mark
    <3>2. CASE view.card[r] # "none"
      <4>1. view' = [view EXCEPT !.card[r] = "executing"]
        BY <2>4, <3>2 DEF Mark
      <4> HIDE DEF r
      <4> QED BY <1>1, <2>1, <3>2, <4>1 DEF ViewTypes
    <3> QED BY <3>1, <3>2
  <2>8. view' \in HereViews(conv)'
    BY <1>1, <1>2, <2>4, <2>7, HereFrom
  <2> QED BY <2>5, <2>6, <2>8 DEF OneConversation
<1>7. ASSUME NEW late \in BOOLEAN, Deleted(s, late)
      PROVE  Alone' /\ OneConversation'
  <2>1. /\ job[s].kind = "delete" /\ job'[s] = Idle
        /\ ~job[s].shown => Others(s) /\ UNCHANGED page
        /\ job[s].shown => /\ \A t \in Slots \ {s} : job'[t] = Cut(job, late)[t]
                           /\ conv' = None /\ view' = EmptyView
    BY <1>1, <1>7, DeletedDoes
  <2>2. \A t \in Slots \ {s} : job[t].kind = "none"
    BY <2>1, AloneIs DEF Free, Late
  <2>3. ref = NoRef
    BY <1>1, <2>1, <2>2 DEF RefOK
  <2>4. \A t \in Slots : job'[t].kind = "none"
    BY <2>1, <2>2, <2>3, IdleIs DEF Others, Cut
  <2>5. view' \in HereViews(conv)'
    BY <1>1, <1>2, <2>1, EmptyIsHere, HereAgain DEF page
  <2> QED BY <2>4, <2>5, NoneIsAlone DEF OneConversation
<1> QED BY <1>4, <1>5, <1>6, <1>7

\* What happens in the database.
LEMMA ServerKeepsOne ==
  ASSUME TypeInv, TypeInv', Grows, Alone, OneConversation, AtServer
  PROVE  Alone' /\ OneConversation'
<1>1. /\ PageInv /\ ServerInv /\ view \in HereViews(conv)
      /\ \A t \in Slots : JobIs(job[t]) /\ JobHere(job[t])
  BY DEF TypeInv, JobsInv, OneConversation
<1>2. UNCHANGED page /\ UNCHANGED <<conv, view, ref>>
  BY DEF AtServer, Claims, Cancels, Deletes, SendStarts, RunPauses, RunResumes, RunEnds, page
<1>3. view' \in HereViews(conv)'
  BY <1>1, <1>2, HereGrows
<1>4. ASSUME NEW s \in Slots, Claims(s) \/ Cancels(s) \/ Deletes(s)
      PROVE  Alone' /\ OneConversation'
  <2>1. /\ Others(s) /\ home' = home /\ job'[s].kind = job[s].kind /\ job'[s].run = job[s].run
        /\ job[s].kind \in {"decide", "cancel", "delete"}
    BY <1>1, <1>4, AnswersDoes DEF Claims, Cancels, Deletes, Fields
  <2>2. Alone'
    BY <1>2, <2>1, AloneKept DEF Free, Late, Held
  <2>3. JobHere(job'[s])
    BY <1>1, <2>1 DEF JobHere
  <2> QED BY <1>2, <1>3, <2>1, <2>2, <2>3, OthersHere DEF OneConversation
<1>5. ASSUME NEW s \in Slots, NEW c \in Conversations, SendStarts(s, c)
      PROVE  Alone' /\ OneConversation'
  <2>1. /\ Others(s) /\ job[s].kind = "send" /\ job[s].at = "posted"
        /\ job'[s].kind = "send" /\ job'[s].at = "open" /\ job'[s].run = NewRun
    BY <1>1, <1>5, StartsDoes
  <2>2. \A t \in Slots \ {s} : job'[t].kind = "none"
    BY <2>1, AloneIs DEF Free, Late, Others
  <2>3. Alone'
    <3>1. ref' = s
      BY <1>2, <2>1 DEF Alone, Held
    <3> QED BY <2>2, <3>1, OneIsAlone
  <2>4. conv \in {None, home'[NewRun]}
    <3>1. NewRun \in Runs
      BY <1>5, NewRunIsNew DEF SendStarts
    <3>2. home' = [home EXCEPT ![NewRun] = c] /\ (job[s].conv = None \/ job[s].conv = c)
      BY <1>5 DEF SendStarts, NewRun
    <3>3. home'[NewRun] = c
      BY <1>1, <3>1, <3>2 DEF ServerInv, ServerTypeOK
    <3>4. job[s].conv = conv
      BY <1>1, <2>1 DEF JobHere
    <3> QED BY <3>2, <3>3, <3>4
  <2>5. ASSUME NEW t \in Slots PROVE JobHere(job[t])'
    <3>1. CASE t = s
      <4>1. /\ job'[t].kind = "send" /\ job'[t].at = "open" /\ conv' = conv
            /\ job'[t].run = NewRun
        BY <1>2, <2>1, <3>1
      <4> QED BY <2>4, <4>1 DEF JobHere
    <3>2. CASE t # s
      BY <2>2, <3>2 DEF JobHere
    <3> QED BY <3>1, <3>2
  <2> QED BY <1>3, <2>3, <2>5 DEF OneConversation
<1>6. ASSUME NEW r \in Runs, RunPauses(r) \/ RunResumes(r) \/ RunEnds(r)
      PROVE  Alone' /\ OneConversation'
  <2>1. UNCHANGED <<job, home>>
    BY <1>6 DEF RunPauses, RunResumes, RunEnds
  <2> QED BY <1>1, <1>2, <1>3, <2>1 DEF Alone, Late, Held, Free, OneConversation, JobHere
<1> QED BY <1>4, <1>5, <1>6 DEF AtServer

\* The count of what the user did not wait for changes only with what the user
\* does.
LEMMA OnlyUserHastens ==
  ASSUME [Next]_vars, ~UserActs
  PROVE  hasty' = hasty
BY DEF Next, vars, PageAnswered, RestoreLists, RestoreReadsCard, RestoreApplies, RestoreFails,
       RestoreReadsEvents, SendStarts, Deliver, End, Break, FirstPoll, LatePoll, Claims, Cancels,
       Cancelled, Deletes, NoAnswer, Follow, Deleted, RunPauses, RunResumes, RunEnds

\* The steps that are none of the user's, nor of the database.
LEMMA OneStep ==
  ASSUME [Next]_vars
  PROVE  \/ UserActs \/ AtServer \/ UNCHANGED vars
         \/ \E s \in Slots :
              \/ RestoreLists(s) \/ RestoreReadsCard(s) \/ RestoreApplies(s) \/ RestoreFails(s)
              \/ \E fails \in BOOLEAN : RestoreReadsEvents(s, fails)
         \/ \E s \in Slots : Deliver(s) \/ End(s) \/ Break(s) \/ FirstPoll(s) \/ LatePoll(s)
         \/ \E s \in Slots : \/ Cancelled(s) \/ NoAnswer(s)
                             \/ \E late \in BOOLEAN : Follow(s, late) \/ Deleted(s, late)
<1>1. CASE PageAnswered
  <2>1. PICK s \in Slots :
            \/ RestoreLists(s) \/ RestoreReadsCard(s)
            \/ RestoreApplies(s) \/ RestoreFails(s)
            \/ \E fails \in BOOLEAN : RestoreReadsEvents(s, fails)
            \/ \E c \in Conversations : SendStarts(s, c)
            \/ Deliver(s) \/ End(s) \/ Break(s) \/ FirstPoll(s) \/ LatePoll(s)
            \/ Claims(s) \/ Cancels(s) \/ Cancelled(s) \/ Deletes(s) \/ NoAnswer(s)
            \/ \E late \in BOOLEAN : Follow(s, late) \/ Deleted(s, late)
    BY <1>1 DEF PageAnswered
  <2>2. CASE \/ Claims(s) \/ Cancels(s) \/ Deletes(s)
             \/ \E c \in Conversations : SendStarts(s, c)
    BY <2>2 DEF AtServer
  <2> QED BY <2>1, <2>2
<1> QED BY <1>1 DEF Next, AtServer

LEMMA OneInvHolds == Spec => []OneInv
<1>1. Init => OneInv
  <2> SUFFICES ASSUME Init PROVE Alone /\ OneConversation
    BY DEF OneInv
  <2>1. \A t \in Slots : job[t].kind = "none"
    BY IdleIs DEF Init
  <2>2. view \in HereViews(conv)
    BY EmptyIsHere DEF Init
  <2> QED BY <2>1, <2>2 DEF Alone, Held, Late, Free, OneConversation, JobHere
<1>2. TypeInv /\ OneInv /\ [Next]_vars => OneInv'
  <2> SUFFICES ASSUME TypeInv, OneInv, [Next]_vars, hasty' = 0
               PROVE  Alone' /\ OneConversation'
    BY DEF OneInv
  <2>1. TypeInv' /\ Grows
    BY StepKeepsTypes
  <2>2. CASE UserActs
    BY <2>2, UserKeepsOne
  <2>3. CASE ~UserActs
    <3>1. Alone /\ OneConversation
      BY <2>3, OnlyUserHastens DEF OneInv
    <3>2. CASE UNCHANGED vars
      <4>1. ServerInv /\ UNCHANGED server /\ view \in HereViews(conv) /\ UNCHANGED <<view, conv>>
        BY <3>1, <3>2 DEF TypeInv, OneConversation, vars, server
      <4>2. view' \in HereViews(conv)'
        BY <4>1, HereAgain
      <4>3. Alone' /\ \A t \in Slots : JobHere(job[t])'
        BY <3>1, <3>2 DEF vars, Alone, Late, Held, Free, OneConversation, JobHere
      <4> QED BY <4>2, <4>3 DEF OneConversation
    <3> QED BY <2>1, <2>3, <3>1, <3>2, OneStep, RestoreKeepsOne, StreamKeepsOne, RequestKeepsOne,
               ServerKeepsOne
  <2> QED BY <2>2, <2>3
<1> QED BY <1>1, <1>2, TypeInvHolds, PTL DEF Spec

\* A user who waits for answers sees the events of one conversation, whatever was
\* left behind, restored or deleted.
THEOREM OneConversationIsShown == Spec => []EventsOfOneConversation
<1>1. TypeInv /\ OneInv => EventsOfOneConversation
  BY DEF OneInv, OneConversation, HereViews, EventsOfOneConversation
<1> QED BY <1>1, TypeInvHolds, OneInvHolds, PTL

-----------------------------------------------------------------------------
(***************************************************************************)
(* What is shown as completed to a user who waits for answers.             *)
(***************************************************************************)

\* The event that completed the Run is shown.
Done(v) ==
  v.run \in Runs /\ \E e \in v.seen : e[1] = v.run /\ log[e[1]][e[2]] = "completed"

DoneViews == {v \in Views : v.status = "completed" => Done(v)}

\* Nothing that is on its way adds an event of the Run.
Quiet(j) ==
  /\ j.kind \notin {"decide", "follow", "poll"}
  /\ j.kind = "send" /\ j.at = "open" => j.run # view.run

\* No event of the Run is shown: its events could not be read.
Blank ==
  /\ view.run \in Runs /\ \A e \in view.seen : e[1] # view.run
  /\ \A r \in Runs : view.card[r] # "pending"
  /\ \A s \in Slots : Quiet(job[s])

Explained == view.status = "completed" => Done(view) \/ Blank

\* A restore that listed a Run as completed reads all of its log, or nothing.
ListedDone(j) ==
  j.kind = "restore" /\ j.row = "completed" =>
    /\ j.run \in Runs /\ row[j.run] \in {"completed", "none"} /\ Has(j.run, "completed")
    /\ j.card # "pending" /\ j.upto \in {0, Far, Len(log[j.run])}

ExplainedInv == (\A s \in Slots : ListedDone(job[s])) /\ (hasty = 0 => Explained)

\* A Run that completed stays as it is, unless it is deleted.
LEMMA CompletedStays ==
  ASSUME TypeInv, [Next]_vars, NEW r \in Runs, row[r] \in {"completed", "none"},
         Has(r, "completed")
  PROVE  row'[r] \in {"completed", "none"} /\ log'[r] = log[r] /\ Has(r, "completed")'
<1>1. ServerTypeOK /\ RunOK(r) /\ home[r] # None /\ card[r] # "pending"
  <2>1. ServerTypeOK /\ RunOK(r)
    BY DEF TypeInv, ServerInv
  <2>2. log[r] # <<>>
    BY DEF Has
  <2> QED BY <2>1, <2>2 DEF RunOK
<1>2. row'[r] \in {"completed", "none"} /\ log'[r] = log[r]
  <2>1. CASE UNCHANGED server
    BY <2>1 DEF server
  <2>2. ASSUME NEW s \in Slots, Claims(s)
        PROVE  row'[r] \in {"completed", "none"} /\ log'[r] = log[r]
    <3>1. log' = log /\ (row' = row \/ (card[job[s].run] = "pending"
                                        /\ row' = [row EXCEPT ![job[s].run] = "running"]))
      BY <2>2 DEF Claims
    <3> QED BY <1>1, <3>1 DEF ServerTypeOK
  <2>3. ASSUME NEW s \in Slots, Cancels(s)
        PROVE  row'[r] \in {"completed", "none"} /\ log'[r] = log[r]
    <3> PICK q \in Runs : q = job[s].run
      BY <2>3 DEF Cancels
    <3>1. /\ home[q] \in alive
          /\ IF row[q] \in RunTerminal THEN UNCHANGED <<row, log>>
             ELSE /\ row' = [row EXCEPT ![q] = "cancelled"]
                  /\ log' = [log EXCEPT ![q] = Append(@, "cancelled")]
      BY <2>3 DEF Cancels
    <3>2. q = r => row[q] \in RunTerminal
      BY <1>1, <3>1 DEF RunOK, RunTerminal
    <3> QED BY <1>1, <3>1, <3>2 DEF ServerTypeOK
  <2>4. ASSUME NEW s \in Slots, Deletes(s)
        PROVE  row'[r] \in {"completed", "none"} /\ log'[r] = log[r]
    BY <2>4 DEF Deletes
  <2>5. ASSUME NEW s \in Slots, NEW c \in Conversations, SendStarts(s, c)
        PROVE  row'[r] \in {"completed", "none"} /\ log'[r] = log[r]
    <3>1. NewRun \in Runs /\ home[NewRun] = None
      BY <2>5, NewRunIsNew DEF SendStarts
    <3>2. /\ log' = [log EXCEPT ![NewRun] = <<"started">>]
          /\ row' = [q \in Runs |-> IF q = NewRun THEN "running"
                                    ELSE IF home[q] = c /\ card[q] = "pending" THEN "cancelled"
                                    ELSE row[q]]
      BY <2>5 DEF SendStarts, NewRun
    <3> QED BY <1>1, <3>1, <3>2 DEF ServerTypeOK
  <2>6. ASSUME NEW q \in Runs, RunPauses(q) \/ RunResumes(q) \/ RunEnds(q)
        PROVE  row'[r] \in {"completed", "none"} /\ log'[r] = log[r]
    <3>1. /\ row[q] = "running"
          /\ row' = row \/ \E x : row' = [row EXCEPT ![q] = x]
          /\ \E x : log' = [log EXCEPT ![q] = x]
      BY <2>6 DEF RunPauses, RunResumes, RunEnds
    <3> QED BY <1>1, <3>1 DEF ServerTypeOK
  <2> QED BY <2>1, <2>2, <2>3, <2>4, <2>5, <2>6, OnlyAtServer DEF AtServer
<1> QED BY <1>2 DEF Has

\* Events go on explaining what they explained.
LEMMA DoneGrows ==
  ASSUME ServerInv, Grows
  PROVE  \A v \in Views : Done(v) => Done(v)'
<1> SUFFICES ASSUME NEW v \in Views, Done(v) PROVE Done(v)'
  OBVIOUS
<1>1. PICK e \in v.seen : e[1] = v.run /\ log[e[1]][e[2]] = "completed" /\ v.run \in Runs
  BY DEF Done
<1>2. e \in Happened
  BY <1>1, ConversationsOK DEF Views, Local, Runs
<1>3. e[1] \in Runs /\ e[2] \in DOMAIN log[e[1]]
  BY <1>2, EventIs
<1> QED BY <1>1, <1>3 DEF Done, Grows

\* The same view stays explained when nothing comes that would add to it.
LEMMA StillExplained ==
  ASSUME TypeInv, Grows, Explained, view' = view,
         Blank => \A t \in Slots : Quiet(job'[t])
  PROVE  Explained'
<1>1. ASSUME Done(view) PROVE Done(view)'
  <2>1. PICK v \in Views : v = view
    BY DEF TypeInv
  <2>2. Done(v)
    BY <1>1, <2>1
  <2>3. Done(v)'
    BY <2>2, DoneGrows DEF TypeInv
  <2>4. view' = v
    BY <2>1
  <2> QED BY <2>3, <2>4 DEF Done
<1>2. Blank => Blank'
  BY DEF Blank, Quiet
<1> QED BY <1>1, <1>2 DEF Explained

\* An event, or a list of them, leaves the end of a Run explained.
LEMMA SeeDone ==
  ASSUME ServerInv, NEW v \in DoneViews, NEW e \in Happened
  PROVE  See(v, e) \in DoneViews
<1> DEFINE w == See(v, e)
           r == e[1]
<1>1. /\ v \in Views /\ v \in ViewTypes /\ r \in Runs /\ log[e[1]][e[2]] \in LogTypes
      /\ w \in Views
  BY EventIs, SeeKeeps DEF DoneViews, Views
<1>2. CASE e \in v.seen
  <2>1. w = v
    BY <1>1, <1>2, SeeIs
  <2> QED BY <2>1
<1>3. CASE e \notin v.seen
  <2>1. w.status = "completed" =>
          \/ w.run = v.run /\ v.status = "completed" /\ v.seen \subseteq w.seen
          \/ w.run = r /\ e \in w.seen /\ log[e[1]][e[2]] = "completed"
    BY <1>1, <1>3, SeeIs DEF LogTypes
  <2> HIDE DEF w
  <2> QED BY <1>1, <2>1 DEF DoneViews, Done, w
<1> QED BY <1>2, <1>3

LEMMA SeeAllDone ==
  ASSUME ServerInv, NEW v \in DoneViews, NEW r \in Runs, NEW from \in Nat, NEW upto \in Nat,
         upto <= Len(log[r])
  PROVE  SeeAll(v, r, from, upto) \in DoneViews
<1>1. \A w \in DoneViews, e \in EventsOf(r, from, upto) : See(w, e) \in DoneViews
  BY ListedHappened, SeeDone
<1> QED BY <1>1, SeeAllStays

\* All the events of a Run, from nothing: they are all seen.
LEMMA SeeAllSeen ==
  ASSUME ServerInv, NEW r \in Runs, NEW upto \in Nat, upto <= Len(log[r])
  PROVE  EventsOf(r, 0, upto) \subseteq SeeAll(EmptyView, r, 0, upto).seen
<1> DEFINE Q == [k \in 0..upto |-> {v \in Views : EventsOf(r, 0, k) \subseteq v.seen}]
<1>1. EmptyView \in Q[0]
  <2>1. EventsOf(r, 0, 0) = {}
    BY DEF EventsOf
  <2> QED BY <2>1, EmptyIsView
<1>2. ASSUME NEW k \in 0..(upto - 1), NEW v \in Q[k]
      PROVE  See(v, <<r, k + 1>>) \in Q[k + 1]
  <2> DEFINE e == <<r, k + 1>>
             w == See(v, e)
  <2>1. k \in 0..upto /\ k + 1 \in 0..upto /\ k \in Nat /\ k + 1 \in Nat
    OBVIOUS
  <2>2. v \in Views /\ EventsOf(r, 0, k) \subseteq v.seen /\ v \in ViewTypes
    BY <2>1 DEF Views
  <2>3. k + 1 \in DOMAIN log[r] /\ (log[r][k + 1] = "started" <=> k = 0) /\ log[r][k + 1] \in LogTypes
    <3>1. log[r] \in Seq(LogTypes) /\ RunOK(r)
      BY DEF ServerInv, ServerTypeOK
    <3>2. DOMAIN log[r] = 1..Len(log[r]) /\ Len(log[r]) \in Nat
      BY <3>1
    <3>3. k + 1 \in DOMAIN log[r] /\ (k + 1 = 1 <=> k = 0)
      BY <2>1, <3>2
    <3> QED BY <3>1, <3>3 DEF RunOK
  <2>4. e \in Happened /\ e[1] = r /\ e[2] = k + 1
    BY <2>3 DEF Happened
  <2>5. w \in Views
    BY <2>2, <2>4, SeeKeeps
  <2>6. EventsOf(r, 0, k + 1) \subseteq EventsOf(r, 0, k) \cup {e}
    BY <2>1 DEF EventsOf
  <2>7. k = 0 => EventsOf(r, 0, k) = {}
    BY DEF EventsOf
  <2>8. e \in w.seen /\ EventsOf(r, 0, k) \subseteq w.seen
    <3> HIDE DEF e
    <3>1. CASE k = 0
      BY <2>2, <2>3, <2>4, <2>7, <3>1, SeeIs
    <3>2. CASE k # 0
      BY <2>2, <2>3, <2>4, <3>2, SeeIs DEF LogTypes
    <3> QED BY <3>1, <3>2
  <2>9. w \in {u \in Views : EventsOf(r, 0, k + 1) \subseteq u.seen}
    <3> HIDE DEF w, e
    <3> QED BY <2>5, <2>6, <2>8
  <2> QED BY <2>1, <2>9
<1>3. SeeAll(EmptyView, r, 0, upto) \in Q[upto]
  <2> HIDE DEF Q
  <2> QED BY <1>1, <1>2, SeeAllPasses
<1> QED BY <1>3

\* Where a restore that is on its way comes from.
LEMMA RestoresAre ==
  ASSUME TypeInv, [Next]_vars, NEW t \in Slots, job'[t].kind = "restore"
  PROVE  \/ job'[t] = job[t]
         \/ \E c : IsRestoring(job'[t], c)
         \/ RestoreLists(t) \/ RestoreReadsCard(t)
         \/ \E fails \in BOOLEAN : RestoreReadsEvents(t, fails)
<1>1. PageInv /\ RefOK /\ JobsOK
  BY DEF TypeInv, PageInv
<1>2. ASSUME NEW late \in BOOLEAN
      PROVE  Cut(job, late)[t] = job[t] \/ Cut(job, late)[t].kind # "restore"
  <2>1. Remains(job[t], Cut(job, late)[t])
    BY <1>1, CutDoes DEF JobsOK
  <2> QED BY <2>1, IdleIs DEF Remains
<1>3. CASE UserActs
  <2>1. CASE \E c \in Conversations : Select(c)
    <3>1. PICK c \in Conversations : Select(c)
      BY <2>1
    <3>2. PICK s \in Slots : Others(s) /\ IsRestoring(job'[s], c)
      BY <1>1, <3>1, SelectDoes
    <3> QED BY <3>2 DEF Others
  <2>2. CASE \E late \in BOOLEAN : New(late)
    BY <1>2, <2>2 DEF New, Fresh
  <2>3. CASE Send
    BY <1>1, <2>3, SendDoes DEF Others
  <2>4. CASE \E r \in Runs : Decide(r)
    <3>1. PICK s \in Slots : Others(s) /\ job'[s].kind = "decide"
      BY <1>1, <2>4, DecideDoes
    <3> QED BY <3>1 DEF Others
  <2>5. CASE \E c \in Conversations : Delete(c)
    <3>1. PICK s \in Slots : Others(s) /\ job'[s].kind = "delete"
      BY <1>1, <2>5, DeleteDoes
    <3> QED BY <3>1 DEF Others
  <2>6. CASE \E late \in BOOLEAN : Stop(late)
    <3>1. PICK late \in BOOLEAN : Stop(late)
      BY <2>6
    <3>2. \/ job' = Cut(job, late)
          \/ \E s \in Slots : /\ \A u \in Slots \ {s} : job'[u] = Cut(job, late)[u]
                              /\ job'[s].kind = "cancel"
      BY <1>1, <3>1, StopDoes
    <3> QED BY <1>2, <3>2
  <2>7. CASE Reload
    <3>1. job'[t] = Idle \/ job'[t] = Restoring(url)
      BY <2>7 DEF Reload
    <3> QED BY <3>1, IdleIs
  <2> QED BY <1>3, <2>1, <2>2, <2>3, <2>4, <2>5, <2>6, <2>7 DEF UserActs
<1>4. CASE AtServer
  <2>1. ASSUME NEW s \in Slots, Claims(s) \/ Cancels(s) \/ Deletes(s)
        PROVE  job'[t] = job[t]
    <3>1. Others(s) /\ job'[s].kind = job[s].kind /\ job[s].kind # "restore"
      BY <1>1, <2>1, AnswersDoes DEF Fields, Claims, Cancels, Deletes
    <3> QED BY <3>1 DEF Others
  <2>2. ASSUME NEW s \in Slots, NEW c \in Conversations, SendStarts(s, c)
        PROVE  job'[t] = job[t]
    <3>1. Others(s) /\ job'[s].kind = "send"
      BY <1>1, <2>2, StartsDoes
    <3> QED BY <3>1 DEF Others
  <2>3. ASSUME NEW r \in Runs, RunPauses(r) \/ RunResumes(r) \/ RunEnds(r)
        PROVE  job'[t] = job[t]
    BY <2>3 DEF RunPauses, RunResumes, RunEnds
  <2> QED BY <1>4, <2>1, <2>2, <2>3 DEF AtServer
<1>5. ASSUME NEW s \in Slots,
             \/ RestoreLists(s) \/ RestoreReadsCard(s) \/ RestoreApplies(s) \/ RestoreFails(s)
             \/ \E fails \in BOOLEAN : RestoreReadsEvents(s, fails)
      PROVE  \/ job'[t] = job[t] \/ RestoreLists(t) \/ RestoreReadsCard(t)
             \/ \E fails \in BOOLEAN : RestoreReadsEvents(t, fails)
  <2>1. Others(s)
    BY <1>1, <1>5, ListsDoes, ReadsCardDoes, ReadsEventsDoes, EndsDoes
       DEF RestoreApplies, RestoreFails
  <2>2. CASE RestoreApplies(s) \/ RestoreFails(s)
    <3>1. job'[s] = Idle
      BY <1>1, <2>2, EndsDoes DEF RestoreApplies, RestoreFails
    <3> QED BY <2>1, <3>1, IdleIs DEF Others
  <2> QED BY <1>5, <2>1, <2>2 DEF Others
<1>6. ASSUME NEW s \in Slots, Deliver(s) \/ End(s) \/ Break(s) \/ FirstPoll(s) \/ LatePoll(s)
      PROVE  job'[t] = job[t]
  <2>1. CASE End(s) \/ Break(s) \/ LatePoll(s)
    <3>1. job' = [job EXCEPT ![s] = Idle]
      BY <2>1 DEF End, Break, LatePoll, Settled
    <3>2. Others(s) /\ job'[s] = Idle
      BY <1>1, <3>1, EndsDoes
    <3> QED BY <3>2, IdleIs DEF Others
  <2>2. CASE FirstPoll(s)
    <3>1. Others(s) /\ job'[s].kind # "restore"
      BY <1>1, <2>2, FirstPollDoes, IdleIs
    <3> QED BY <3>1 DEF Others
  <2>3. CASE Deliver(s)
    <3>1. Others(s) /\ job'[s].kind # "restore"
      BY <1>1, <2>3, DeliverDoes DEF Fields, Streams
    <3> QED BY <3>1 DEF Others
  <2> QED BY <1>6, <2>1, <2>2, <2>3
<1>7. ASSUME NEW s \in Slots, \/ Cancelled(s) \/ NoAnswer(s)
                              \/ \E late \in BOOLEAN : Follow(s, late) \/ Deleted(s, late)
      PROVE  job'[t] = job[t]
  <2>1. CASE Cancelled(s) \/ NoAnswer(s)
    <3>1. job' = [job EXCEPT ![s] = Idle]
      BY <2>1 DEF Cancelled, NoAnswer
    <3>2. Others(s) /\ job'[s] = Idle
      BY <1>1, <3>1, EndsDoes
    <3> QED BY <3>2, IdleIs DEF Others
  <2>2. ASSUME NEW late \in BOOLEAN, Follow(s, late)
        PROVE  job'[t] = job[t]
    BY <1>1, <1>2, <2>2, FollowDoes
  <2>3. ASSUME NEW late \in BOOLEAN, Deleted(s, late)
        PROVE  job'[t] = job[t]
    BY <1>1, <1>2, <2>3, DeletedDoes, IdleIs DEF Others
  <2> QED BY <1>7, <2>1, <2>2, <2>3
<1>8. CASE UNCHANGED vars
  BY <1>8 DEF vars
<1> QED BY <1>3, <1>4, <1>5, <1>6, <1>7, <1>8, OneStep

\* What a restore has listed, and what it reads of it, goes on being so.
LEMMA ListedStays ==
  ASSUME TypeInv, [Next]_vars, \A s \in Slots : ListedDone(job[s])
  PROVE  \A s \in Slots : ListedDone(job[s])'
<1> SUFFICES ASSUME NEW t \in Slots, job'[t].kind = "restore", job'[t].row = "completed"
             PROVE  \E r \in Runs :
                      /\ job'[t].run = r /\ row'[r] \in {"completed", "none"}
                      /\ \E i \in DOMAIN log'[r] : log'[r][i] = "completed"
                      /\ job'[t].card # "pending" /\ job'[t].upto \in {0, Far, Len(log'[r])}
  BY DEF ListedDone, Has
<1>1. PageInv /\ ServerInv /\ JobIs(job[t]) /\ ListedDone(job[t])
  BY DEF TypeInv, JobsInv
<1>2. CASE job'[t] = job[t]
  <2>1. PICK r \in Runs : r = job[t].run
    BY <1>1, <1>2 DEF ListedDone
  <2>2. row[r] \in {"completed", "none"} /\ Has(r, "completed") /\ job[t].card # "pending"
        /\ job[t].upto \in {0, Far, Len(log[r])}
    BY <1>1, <1>2, <2>1 DEF ListedDone
  <2>3. row'[r] \in {"completed", "none"} /\ log'[r] = log[r]
    BY <2>2, CompletedStays
  <2> QED BY <1>2, <2>1, <2>2, <2>3 DEF Has
<1>3. CASE \E c : IsRestoring(job'[t], c)
  BY <1>3 DEF IsRestoring
<1>4. CASE RestoreLists(t)
  <2>1. /\ UNCHANGED <<row, log>> /\ RestoreOK(job[t]) /\ job[t].at = "asked"
        /\ job'[t].run = LatestRun(job[t].conv)
        /\ job'[t].upto = job[t].upto /\ job'[t].card = job[t].card
        /\ job'[t].row = IF LatestRun(job[t].conv) = NoRun THEN "none" ELSE row[LatestRun(job[t].conv)]
    BY <1>1, <1>4, ListsDoes DEF RestoreLists, server, JobIs
  <2>2. LatestRun(job[t].conv) # NoRun
    BY <2>1
  <2>3. PICK r \in Runs : r = LatestRun(job[t].conv)
    BY <2>2, LatestIsOne
  <2>4. row[r] = "completed" /\ Has(r, "completed")
    BY <1>1, <2>1, <2>2, <2>3 DEF ServerInv, RunOK
  <2> QED BY <2>1, <2>3, <2>4 DEF RestoreOK, Has
<1>5. CASE RestoreReadsCard(t)
  <2>1. /\ UNCHANGED <<row, log>> /\ job[t].kind = "restore" /\ job'[t].run = job[t].run
        /\ job'[t].upto = job[t].upto /\ job'[t].card = card[job[t].run]
        /\ job'[t].row = job[t].row
    BY <1>1, <1>5, ReadsCardDoes DEF RestoreReadsCard, server
  <2>2. PICK r \in Runs : r = job[t].run
    BY <1>1, <2>1 DEF ListedDone
  <2>3. row[r] \in {"completed", "none"} /\ Has(r, "completed") /\ job[t].upto \in {0, Far, Len(log[r])}
    BY <1>1, <2>1, <2>2 DEF ListedDone
  <2>4. card[r] # "pending"
    BY <1>1, <2>3 DEF ServerInv, RunOK
  <2> QED BY <2>1, <2>2, <2>3, <2>4 DEF Has
<1>6. CASE \E fails \in BOOLEAN : RestoreReadsEvents(t, fails)
  <2>1. PICK fails \in BOOLEAN : RestoreReadsEvents(t, fails)
    BY <1>6
  <2>2. /\ UNCHANGED <<row, log>> /\ job[t].kind = "restore" /\ job'[t].run = job[t].run
        /\ job'[t].upto \in {0, Stored(job[t].run)} /\ job'[t].card = job[t].card
        /\ job'[t].row = job[t].row
    BY <1>1, <2>1, ReadsEventsDoes DEF RestoreReadsEvents, server
  <2>3. PICK r \in Runs : r = job[t].run
    BY <1>1, <2>2 DEF ListedDone
  <2>4. row[r] \in {"completed", "none"} /\ Has(r, "completed") /\ job[t].card # "pending"
    BY <1>1, <2>2, <2>3 DEF ListedDone
  <2>5. Stored(r) \in {0, Len(log[r])}
    BY DEF Stored
  <2> QED BY <2>2, <2>3, <2>4, <2>5 DEF Has
<1> QED BY <1>2, <1>3, <1>4, <1>5, <1>6, RestoresAre

\* What the user does.
LEMMA UserKeepsExplained ==
  ASSUME TypeInv, Grows, hasty = 0 => Explained, UserActs, hasty' = 0
  PROVE  Explained'
<1>1. PageInv /\ RefOK /\ JobsOK /\ hasty \in Nat
  BY DEF TypeInv, PageInv, FieldsOK
<1>2. CASE Reload \/ \E late \in BOOLEAN : New(late)
  <2>1. view'.status = "none"
    BY <1>2, EmptyIsView DEF Reload, New, Fresh
  <2> QED BY <2>1 DEF Explained
<1>3. CASE \E c \in Conversations : Select(c)
  <2>1. PICK c \in Conversations : Select(c)
    BY <1>3
  <2>2. hasty = 0 /\ view' = view
    BY <1>1, <2>1, HasteIs DEF Select
  <2>3. PICK s \in Slots : Others(s) /\ job'[s].kind = "restore"
    BY <1>1, <2>1, SelectDoes DEF IsRestoring
  <2>4. Blank => \A t \in Slots : Quiet(job'[t])
    BY <2>3 DEF Blank, Quiet, Others
  <2> QED BY <2>2, <2>4, StillExplained
<1>4. CASE Send
  <2>1. hasty = 0 /\ view' = view
    BY <1>1, <1>4, HasteIs DEF Send
  <2>2. PICK s \in Slots : Others(s) /\ job'[s].kind = "send" /\ job'[s].at = "posted"
    BY <1>1, <1>4, SendDoes
  <2>3. Blank => \A t \in Slots : Quiet(job'[t])
    BY <2>2 DEF Blank, Quiet, Others
  <2> QED BY <2>1, <2>3, StillExplained
<1>5. CASE \E r \in Runs : Decide(r)
  <2>1. PICK r \in Runs : Decide(r)
    BY <1>5
  <2>2. hasty = 0 /\ view' = view /\ view.card[r] = "pending"
    BY <1>1, <2>1, HasteIs DEF Decide, page
  <2>3. ~Blank
    BY <2>2 DEF Blank
  <2> QED BY <2>2, <2>3, StillExplained
<1>6. CASE \E c \in Conversations : Delete(c)
  <2>1. PICK c \in Conversations : Delete(c)
    BY <1>6
  <2>2. hasty = 0 /\ view' = view
    BY <1>1, <2>1, HasteIs DEF Delete, page
  <2>3. PICK s \in Slots : Others(s) /\ job'[s].kind = "delete"
    BY <1>1, <2>1, DeleteDoes
  <2>4. Blank => \A t \in Slots : Quiet(job'[t])
    BY <2>3 DEF Blank, Quiet, Others
  <2> QED BY <2>2, <2>4, StillExplained
<1>7. CASE \E late \in BOOLEAN : Stop(late)
  <2>1. PICK late \in BOOLEAN : Stop(late)
    BY <1>7
  <2>2. hasty = 0 /\ view' = view
    BY <1>1, <2>1, HasteIs DEF Stop
  <2>3. \A t \in Slots : Quiet(job[t]) => Quiet(Cut(job, late)[t])
    <3> SUFFICES ASSUME NEW t \in Slots, Quiet(job[t]) PROVE Quiet(Cut(job, late)[t])
      OBVIOUS
    <3>1. Remains(job[t], Cut(job, late)[t])
      BY <1>1, CutDoes DEF JobsOK
    <3> QED BY <3>1, IdleIs DEF Remains, Quiet
  <2>4. \/ job' = Cut(job, late)
        \/ \E s \in Slots : /\ \A u \in Slots \ {s} : job'[u] = Cut(job, late)[u]
                            /\ job'[s].kind = "cancel"
    BY <1>1, <2>1, StopDoes
  <2>5. Blank => \A t \in Slots : Quiet(job'[t])
    <3> SUFFICES ASSUME Blank, NEW t \in Slots PROVE Quiet(job'[t])
      OBVIOUS
    <3>1. Quiet(Cut(job, late)[t])
      BY <2>3 DEF Blank
    <3>2. job'[t] = Cut(job, late)[t] \/ job'[t].kind = "cancel"
      BY <2>4
    <3> QED BY <3>1, <3>2 DEF Quiet
  <2> QED BY <2>2, <2>5, StillExplained
<1> QED BY <1>2, <1>3, <1>4, <1>5, <1>6, <1>7 DEF UserActs

\* What a restore shows as completed: with its events, or with none.
LEMMA RestoreKeepsExplained ==
  ASSUME TypeInv, Grows, Alone, Explained, NEW s \in Slots, ListedDone(job[s]),
         \/ RestoreLists(s) \/ RestoreReadsCard(s) \/ RestoreApplies(s) \/ RestoreFails(s)
         \/ \E fails \in BOOLEAN : RestoreReadsEvents(s, fails)
  PROVE  Explained'
<1>1. PageInv /\ ServerInv /\ JobIs(job[s])
  BY DEF TypeInv, JobsInv
<1>2. job[s].kind = "restore"
  BY DEF RestoreLists, RestoreReadsCard, RestoreApplies, RestoreFails, RestoreReadsEvents
<1>3. Others(s) /\ job'[s].kind \in {"none", "restore"}
  BY <1>1, ListsDoes, ReadsCardDoes, ReadsEventsDoes, EndsDoes, IdleIs
     DEF RestoreApplies, RestoreFails
<1>4. CASE ~RestoreApplies(s)
  <2>1. view' = view
    BY <1>4 DEF RestoreLists, RestoreReadsCard, RestoreFails, RestoreReadsEvents, page
  <2>2. Blank => \A t \in Slots : Quiet(job'[t])
    BY <1>3 DEF Blank, Quiet, Others
  <2> QED BY <2>1, <2>2, StillExplained
<1>5. CASE RestoreApplies(s) /\ job[s].run = NoRun
  <2>1. view'.status = "none"
    BY <1>5, EmptyIsView DEF RestoreApplies, Restored
  <2> QED BY <2>1 DEF Explained
<1>6. CASE RestoreApplies(s) /\ job[s].run # NoRun
  <2> PICK r \in Runs : r = job[s].run
    BY <1>1, <1>2, <1>6 DEF JobIs, RestoreOK
  <2> DEFINE j == job[s]
             all == SeeAll(EmptyView, r, 0, j.upto)
  <2>1. /\ RestoreOK(j) /\ j.upto # Far /\ j.card # "unread" /\ UNCHANGED log
        /\ view' = Restored(r, j.row, j.card, j.upto)
    BY <1>1, <1>2, <1>6 DEF RestoreApplies, JobIs, server
  <2> HIDE DEF j
  <2>2. /\ home[r] # None /\ j.row \in Rows /\ j.card \in Cards /\ j.run = r
        /\ j.upto \in Nat /\ j.upto <= Len(log[r])
    BY <1>6, <2>1, ConversationsOK DEF RestoreOK, j
  <2>3. /\ view'.run = r /\ view'.status = j.row /\ view'.seen = all.seen
        /\ \A q \in Runs \ {r} : view'.card[q] = all.card[q]
        /\ view'.card[r] = CASE j.card = "none" -> all.card[r]
                             [] j.card = "pending" -> "pending"
                             [] OTHER -> "decided"
    BY <1>1, <2>1, <2>2, RestoredIs
  <2> HIDE DEF all
  <2> SUFFICES ASSUME j.row = "completed" PROVE Done(view)' \/ Blank'
    BY <2>3 DEF Explained
  <2>4. j.card # "pending" /\ j.upto \in {0, Len(log[r])} /\ Has(r, "completed")
    BY <1>2, <2>1, <2>2 DEF ListedDone, j
  <2>5. CASE j.upto = 0
    <3>1. all = EmptyView
      BY <2>5, SeeNone DEF all
    <3>2. /\ view'.seen = {} /\ \A q \in Runs : view'.card[q] # "pending"
      BY <2>3, <2>4, <3>1, EmptyIsView
    <3>3. \A t \in Slots : job'[t].kind \in {"none", "restore"}
      <4>1. \A t \in Slots \ {s} : job[t].kind = "none"
        BY <1>2, AloneIs DEF Free, Late
      <4> QED BY <1>3, <4>1 DEF Others
    <3> QED BY <2>3, <3>2, <3>3 DEF Blank, Quiet
  <2>6. CASE j.upto = Len(log[r])
    <3>1. EventsOf(r, 0, j.upto) \subseteq view'.seen
      BY <1>1, <2>2, <2>3, SeeAllSeen DEF all
    <3>2. PICK i \in DOMAIN log[r] : log[r][i] = "completed"
      BY <2>4 DEF Has
    <3>3. log[r] \in Seq(LogTypes)
      BY <1>1 DEF ServerInv, ServerTypeOK
    <3>4. i \in 1..j.upto
      BY <2>6, <3>3
    <3>5. <<r, i>> \in view'.seen
      BY <3>1, <3>4 DEF EventsOf
    <3>6. log'[r][i] = "completed"
      BY <2>1, <3>2
    <3> QED BY <2>3, <3>5, <3>6 DEF Done
  <2> QED BY <2>4, <2>5, <2>6
<1> QED BY <1>4, <1>5, <1>6

\* A view whose end is explained by its events.
LEMMA DoneIsExplained ==
  ASSUME UNCHANGED log, view' \in DoneViews
  PROVE  Explained'
BY DEF DoneViews, Done, Explained

LEMMA NotBlankIsDone ==
  ASSUME TypeInv, Explained, ~Blank
  PROVE  view \in DoneViews
BY DEF TypeInv, DoneViews, Explained

\* What is answered of a stream.
LEMMA StreamKeepsExplained ==
  ASSUME TypeInv, Grows, Alone, Explained, NEW s \in Slots,
         Deliver(s) \/ End(s) \/ Break(s) \/ FirstPoll(s) \/ LatePoll(s)
  PROVE  Explained'
<1>1. /\ PageInv /\ ServerInv /\ JobIs(job[s]) /\ view \in Views /\ view \in ViewTypes
  BY DEF TypeInv, JobsInv, Views
<1>2. ASSUME view' = view, job' = [job EXCEPT ![s] = Idle]
      PROVE  Explained'
  <2>1. Blank => \A t \in Slots : Quiet(job'[t])
    BY <1>1, <1>2, EndsDoes, IdleIs DEF Blank, Quiet, Others
  <2> QED BY <1>2, <2>1, StillExplained
<1>3. CASE End(s)
  BY <1>2, <1>3 DEF End, Settled
<1>4. CASE Break(s)
  <2>1. CASE job[s].kind = "follow"
    BY <1>2, <1>4, <2>1 DEF Break, Settled
  <2>2. CASE job[s].kind # "follow"
    <3> DEFINE old == IF job[s].old = NoRun THEN Pending ELSE job[s].old
    <3>1. view' = [view EXCEPT !.run = old, !.status = "interrupted", !.seen = @ \cup {Local}]
      BY <1>4, <2>2 DEF Break
    <3> HIDE DEF old
    <3>2. view'.status = "interrupted"
      BY <1>1, <3>1 DEF ViewTypes
    <3> QED BY <3>2 DEF Explained
  <2> QED BY <2>1, <2>2
<1>5. CASE FirstPoll(s) \/ LatePoll(s)
  <2>1. /\ job[s].kind \in {"follow", "poll"} /\ job[s].run \in Runs /\ job[s].upto \in Nat
        /\ view' = SeeAll(view, job[s].run, job[s].upto, Stored(job[s].run)) /\ UNCHANGED log
    BY <1>1, <1>5 DEF FirstPoll, LatePoll, JobIs, server
  <2>2. view \in DoneViews
    BY <2>1, NotBlankIsDone DEF Blank, Quiet
  <2>3. view' \in DoneViews
    BY <1>1, <2>1, <2>2, StoredIs, SeeAllDone
  <2> QED BY <2>1, <2>3, DoneIsExplained
<1>6. CASE Deliver(s)
  <2> DEFINE j == job[s]
             e == <<j.run, j.upto + 1>>
  <2>1. /\ Others(s) /\ Streams(s) /\ job'[s].kind = j.kind /\ job'[s].at = j.at
        /\ job'[s].run = j.run
    BY <1>1, <1>6, DeliverDoes DEF Fields
  <2>2. /\ j.run \in Runs /\ j.upto \in Nat /\ home[j.run] # None /\ j.upto < Sendable(j)
    BY <1>1, <1>6, <2>1, ConversationsOK
       DEF Deliver, Streams, JobIs, SendOK, ServerInv, ServerTypeOK
  <2>3. e \in Happened /\ e[1] = j.run
    <3>1. Sendable(j) \in Nat /\ Sendable(j) <= Len(log[j.run])
      BY <1>1, <2>2, SendableIs
    <3>2. DOMAIN log[j.run] = 1..Len(log[j.run]) /\ Len(log[j.run]) \in Nat
      BY <1>1, <2>2 DEF ServerInv, ServerTypeOK
    <3>3. j.upto + 1 \in DOMAIN log[j.run]
      <4> HIDE DEF j
      <4> QED BY <2>2, <3>1, <3>2
    <3> QED BY <2>2, <3>3 DEF Happened
  <2>4. view' = See(view, e) /\ UNCHANGED log
    BY <1>6 DEF Deliver, server
  <2> HIDE DEF e
  <2>5. Blank => \A t \in Slots : Quiet(job'[t])
    BY <2>1 DEF Blank, Quiet, Others
  <2>6. CASE ~Blank
    <3>1. view' \in DoneViews
      BY <1>1, <2>3, <2>4, <2>6, NotBlankIsDone, SeeDone
    <3> QED BY <2>4, <3>1, DoneIsExplained
  <2>7. CASE e \in view.seen
    <3>1. view' = view
      BY <1>1, <2>3, <2>4, <2>7, SeeIs
    <3> QED BY <2>5, <3>1, StillExplained
  <2>8. CASE Blank /\ e \notin view.seen
    <3>1. j.run # view.run
      BY <2>1, <2>8 DEF Blank, Quiet, Streams
    <3>2. log[e[1]][e[2]] \in LogTypes
      BY <1>1, <2>3, EventIs
    <3> SUFFICES ASSUME view'.status = "completed" PROVE Done(view)' \/ Blank'
      BY DEF Explained
    <3>3. CASE log[e[1]][e[2]] = "completed"
      <4>1. view'.run = j.run /\ e \in view'.seen
        BY <1>1, <2>3, <2>4, <2>8, <3>3, SeeIs
      <4> QED BY <2>2, <2>3, <2>4, <3>3, <4>1 DEF Done
    <3>4. CASE log[e[1]][e[2]] = "decided"
      <4>1. /\ view'.run = view.run /\ view'.seen = view.seen \cup {e}
            /\ \A q \in Runs : view'.card[q] # "pending"
        BY <1>1, <2>3, <2>4, <2>8, <3>4, SeeIs DEF Blank
      <4>2. \A x \in view'.seen : x[1] # view'.run
        BY <2>3, <2>8, <3>1, <4>1 DEF Blank
      <4>3. \A t \in Slots : Quiet(job[t])'
        BY <2>5, <2>8, <4>1 DEF Quiet
      <4> QED BY <2>8, <4>1, <4>2, <4>3 DEF Blank
    <3>5. CASE log[e[1]][e[2]] \in {"started", "required", "cancelled"}
      <4>1. view'.status # "completed"
        BY <1>1, <2>3, <2>4, <2>8, <3>5, SeeIs
      <4> QED BY <4>1
    <3> QED BY <3>2, <3>3, <3>4, <3>5 DEF LogTypes
  <2> QED BY <2>6, <2>7, <2>8
<1> QED BY <1>3, <1>4, <1>5, <1>6

\* What is answered of the other requests, and what happens in the database.
LEMMA RequestKeepsExplained ==
  ASSUME TypeInv, Grows, Explained, NEW s \in Slots,
         \/ Cancelled(s) \/ NoAnswer(s)
         \/ \E late \in BOOLEAN : Follow(s, late) \/ Deleted(s, late)
  PROVE  Explained'
<1>1. /\ PageInv /\ ServerInv /\ JobIs(job[s]) /\ view \in Views /\ view \in ViewTypes
  BY DEF TypeInv, JobsInv, Views
<1>2. CASE NoAnswer(s)
  <2>1. Others(s) /\ job'[s] = Idle /\ view' = view
    BY <1>1, <1>2, EndsDoes DEF NoAnswer, page
  <2>2. Blank => \A t \in Slots : Quiet(job'[t])
    BY <2>1, IdleIs DEF Blank, Quiet, Others
  <2> QED BY <2>1, <2>2, StillExplained
<1>3. CASE Cancelled(s)
  <2> DEFINE r == job[s].run
  <2>1. view' = [view EXCEPT !.run = r, !.status = "cancelled", !.seen = @ \cup {Local}]
    BY <1>3 DEF Cancelled
  <2> HIDE DEF r
  <2>2. view'.status = "cancelled"
    BY <1>1, <2>1 DEF ViewTypes
  <2> QED BY <2>2 DEF Explained
<1>4. ASSUME NEW late \in BOOLEAN, Follow(s, late)
      PROVE  Explained'
  <2> DEFINE r == job[s].run
  <2>1. job[s].kind = "decide" /\ r \in Runs /\ view' = Mark(r) /\ UNCHANGED log
    BY <1>1, <1>4 DEF Follow, JobIs, server
  <2> HIDE DEF r
  <2>2. view'.run = view.run /\ view'.status = view.status /\ view'.seen = view.seen
    BY <1>1, <2>1 DEF Mark, ViewTypes
  <2>3. ~Blank
    BY <2>1 DEF Blank, Quiet
  <2> QED BY <2>1, <2>2, <2>3 DEF Explained, Done
<1>5. ASSUME NEW late \in BOOLEAN, Deleted(s, late)
      PROVE  Explained'
  <2>1. CASE job[s].shown
    <3>1. view'.status = "none"
      BY <1>1, <1>5, <2>1, DeletedDoes, EmptyIsView
    <3> QED BY <3>1 DEF Explained
  <2>2. CASE ~job[s].shown
    <3>1. Others(s) /\ view' = view /\ job'[s] = Idle
      BY <1>1, <1>5, <2>2, DeletedDoes DEF page
    <3>2. Blank => \A t \in Slots : Quiet(job'[t])
      BY <3>1, IdleIs DEF Blank, Quiet, Others
    <3> QED BY <3>1, <3>2, StillExplained
  <2> QED BY <2>1, <2>2
<1> QED BY <1>2, <1>3, <1>4, <1>5

LEMMA ServerKeepsExplained ==
  ASSUME TypeInv, Grows, Explained, AtServer
  PROVE  Explained'
<1>1. /\ PageInv /\ view \in Views /\ view' = view
  BY DEF TypeInv, AtServer, Claims, Cancels, Deletes, SendStarts, RunPauses, RunResumes, RunEnds,
         page
<1>2. ASSUME NEW s \in Slots, Claims(s) \/ Cancels(s) \/ Deletes(s)
      PROVE  Explained'
  <2>1. Others(s) /\ job'[s].kind = job[s].kind /\ job[s].kind \in {"decide", "cancel", "delete"}
    BY <1>1, <1>2, AnswersDoes DEF Claims, Cancels, Deletes, Fields
  <2>2. Blank => \A t \in Slots : Quiet(job'[t])
    BY <2>1 DEF Blank, Quiet, Others
  <2> QED BY <1>1, <2>2, StillExplained
<1>3. ASSUME NEW s \in Slots, NEW c \in Conversations, SendStarts(s, c)
      PROVE  Explained'
  <2>1. Others(s) /\ job'[s].kind = "send" /\ job'[s].run = NewRun
    BY <1>1, <1>3, StartsDoes
  <2>2. NewRun \in Runs /\ home[NewRun] = None
    BY <1>3, NewRunIsNew DEF SendStarts
  <2>3. NewRun # view.run
    BY <1>1, <2>2 DEF Views
  <2>4. Blank => \A t \in Slots : Quiet(job'[t])
    BY <2>1, <2>3 DEF Blank, Quiet, Others
  <2> QED BY <1>1, <2>4, StillExplained
<1>4. ASSUME NEW r \in Runs, RunPauses(r) \/ RunResumes(r) \/ RunEnds(r)
      PROVE  Explained'
  <2>1. job' = job
    BY <1>4 DEF RunPauses, RunResumes, RunEnds
  <2> QED BY <1>1, <2>1, StillExplained DEF Blank
<1> QED BY <1>2, <1>3, <1>4 DEF AtServer

LEMMA ExplainedInvHolds == Spec => []ExplainedInv
<1>1. Init => ExplainedInv
  <2> SUFFICES ASSUME Init PROVE ExplainedInv
    OBVIOUS
  <2>1. view.status = "none" /\ \A s \in Slots : job[s].kind = "none"
    BY EmptyIsView, IdleIs DEF Init
  <2> QED BY <2>1 DEF ExplainedInv, ListedDone, Explained
<1>2. TypeInv /\ OneInv /\ ExplainedInv /\ [Next]_vars => ExplainedInv'
  <2> SUFFICES ASSUME TypeInv, OneInv, ExplainedInv, [Next]_vars PROVE ExplainedInv'
    OBVIOUS
  <2>1. Grows
    BY StepKeepsTypes
  <2>2. \A s \in Slots : ListedDone(job[s])'
    BY ListedStays DEF ExplainedInv
  <2>3. ASSUME hasty' = 0 PROVE Explained'
    <3>1. CASE UserActs
      BY <2>1, <2>3, <3>1, UserKeepsExplained DEF ExplainedInv
    <3>2. CASE ~UserActs
      <4>1. Alone /\ Explained
        BY <2>3, <3>2, OnlyUserHastens DEF OneInv, ExplainedInv
      <4>2. CASE UNCHANGED vars
        BY <2>1, <4>1, <4>2, StillExplained DEF vars, Blank
      <4> QED BY <2>1, <3>2, <4>1, <4>2, OneStep, RestoreKeepsExplained, StreamKeepsExplained,
                 RequestKeepsExplained, ServerKeepsExplained DEF ExplainedInv
    <3> QED BY <3>1, <3>2
  <2> QED BY <2>2, <2>3 DEF ExplainedInv
<1> QED BY <1>1, <1>2, TypeInvHolds, OneInvHolds, PTL DEF Spec

\* A Run that is shown as completed to a user who waits is shown with the event
\* that completed it, or with none of its events: a restore never puts an older
\* log under a newer row.
THEOREM CompletedIsShownWhole == Spec => []CompletedIsExplained
<1>1. TypeInv /\ ExplainedInv => CompletedIsExplained
  <2> SUFFICES ASSUME TypeInv, ExplainedInv, hasty = 0, view.status = "completed",
                      NEW x \in view.seen, x[1] = view.run
               PROVE  \E e \in {e \in view.seen : e[1] = view.run} : log[e[1]][e[2]] = "completed"
    BY DEF CompletedIsExplained
  <2>1. Done(view)
    BY DEF ExplainedInv, Explained, Blank
  <2> QED BY <2>1 DEF Done
<1> QED BY <1>1, TypeInvHolds, ExplainedInvHolds, PTL

-----------------------------------------------------------------------------
(***************************************************************************)
(* What is offered to a user who waited for every answer and got it.       *)
(***************************************************************************)

\* What the page offers to decide is not decided.
Fits(r) == view.card[r] = "pending" => card[r] = "pending"

\* The decision on Run r was taken, and the page did not hear of its result.
Claimed(r) ==
  home[r] \in alive /\ (card[r] = "decided" \/ (card[r] = "claimed" /\ row[r] = "running"))
Unseen(r) == \A e \in view.seen : e[1] = r => log[e[1]][e[2]] # "decided"

\* A follow that replays the question has the decision before it.
Ahead(j) ==
  /\ view.card[j.run] = "pending" => j.upto <= Len(log[j.run])
  /\ \A i \in DOMAIN log[j.run] : log[j.run][i] = "decided" =>
       /\ <<j.run, i>> \in view.seen => i <= j.upto
       /\ view.card[j.run] = "pending" => i > j.upto

RestoreFits(j) ==
  j.run # NoRun => /\ home[j.run] \in alive
                   /\ j.card = "pending" => card[j.run] = "pending"
                   /\ j.card = "none" => card[j.run] \in {"none", "pending"}
DecideFits(j) ==
  IF j.at = "asked" THEN view.card[j.run] = "pending"
  ELSE Claimed(j.run) /\ Unseen(j.run)
FollowFits(j) ==
  /\ Claimed(j.run)
  /\ IF j.at = "first" THEN Unseen(j.run) /\ view.card[j.run] # "pending" ELSE Ahead(j)
SendFits(j) ==
  j.at = "open" =>
    /\ home[j.run] \in alive /\ card[j.run] \in {"none", "pending"}
    /\ j.upto = 0 => view.run # j.run /\ \A e \in view.seen : e[1] # j.run

\* What a request will do to the view fits the database.
JobFits(j) ==
  /\ ~Late(j)
  /\ j.kind = "restore" => RestoreFits(j)
  /\ j.kind = "decide" => DecideFits(j)
  /\ j.kind = "follow" => FollowFits(j)
  /\ j.kind = "send" => SendFits(j)
  /\ j.kind = "delete" => (j.shown <=> conv = j.conv)

\* A request that explains why Run r may still be offered.
Excuses(j, r) ==
  \/ j.kind = "decide" /\ j.at = "answered" /\ j.run = r
  \/ j.kind = "follow" /\ j.run = r
  \/ j.kind = "send" /\ j.at = "open" /\ j.upto = 0
  \/ j.kind = "delete" /\ j.at = "answered" /\ j.conv = home[r]

Calm ==
  /\ \A r \in Runs : Fits(r) \/ \E s \in Slots : Excuses(job[s], r)
  /\ \A s \in Slots : JobFits(job[s])

CalmInv == hasty = 0 /\ lost = 0 => Calm

\* One request is on its way: what it excuses is all that is not as it should be.
LEMMA CalmOne ==
  ASSUME Alone, Calm, NEW s \in Slots, ~Free(s)
  PROVE  /\ \A t \in Slots \ {s} : job[t].kind = "none"
         /\ \A r \in Runs : Fits(r) \/ Excuses(job[s], r)
         /\ JobFits(job[s])
<1>1. \A t \in Slots \ {s} : job[t].kind = "none"
  BY DEF Alone, Calm, JobFits, Free
<1>2. \A t \in Slots \ {s}, r \in Runs : ~Excuses(job[t], r)
  BY <1>1 DEF Excuses
<1> QED BY <1>1, <1>2 DEF Calm

LEMMA CalmNone ==
  ASSUME Calm, \A s \in Slots : job[s].kind = "none"
  PROVE  \A r \in Runs : Fits(r)
BY DEF Calm, Excuses

LEMMA OneIsCalm ==
  ASSUME NEW s \in Slots, \A t \in Slots \ {s} : job'[t].kind = "none",
         JobFits(job[s])', \A r \in Runs : Fits(r)' \/ Excuses(job[s], r)'
  PROVE  Calm'
BY DEF Calm, JobFits, Late

LEMMA NoneIsCalm ==
  ASSUME \A t \in Slots : job'[t].kind = "none", \A r \in Runs : Fits(r)'
  PROVE  Calm'
BY DEF Calm, JobFits, Late

LEMMA EmptyFits ==
  ASSUME view' = EmptyView
  PROVE  \A r \in Runs : Fits(r)'
BY EmptyIsView DEF Fits

LEMMA SameFits ==
  ASSUME UNCHANGED <<view, card>>, \A r \in Runs : Fits(r)
  PROVE  \A r \in Runs : Fits(r)'
BY DEF Fits

\* What the user does, who waited for all that came.
LEMMA UserKeepsCalm ==
  ASSUME TypeInv, OneInv, CalmInv, UserActs, hasty' = 0, lost' = 0
  PROVE  Calm'
<1>1. PageInv /\ RefOK /\ JobsOK /\ hasty \in Nat /\ lost \in Nat
  BY DEF TypeInv, PageInv, FieldsOK
<1>2. CASE Reload
  <2>1. PICK first \in Slots :
          job' = [s \in Slots |-> IF url # None /\ s = first THEN Restoring(url) ELSE Idle]
    BY <1>2 DEF Reload
  <2>2. \A t \in Slots \ {first} : job'[t].kind = "none"
    BY <2>1, IdleIs
  <2>3. job'[first].kind = "none" \/ (job'[first].kind = "restore" /\ job'[first].run = NoRun)
    BY <2>1, IdleIs DEF IsRestoring
  <2>4. JobFits(job[first])'
    BY <2>3 DEF JobFits, Late, RestoreFits
  <2> QED BY <1>2, <2>2, <2>4, EmptyFits, OneIsCalm DEF Reload
<1>3. CASE \E c \in Conversations : Select(c)
  <2>1. PICK c \in Conversations : Select(c)
    BY <1>3
  <2>2. /\ hasty = 0 /\ lost = 0 /\ UNCHANGED <<view, card>>
        /\ \A t \in Slots : job[t].kind = "none"
    BY <1>1, <2>1, HasteIs DEF Select, server
  <2>3. PICK s \in Slots : Others(s) /\ IsRestoring(job'[s], c)
    BY <1>1, <2>1, SelectDoes
  <2>4. JobFits(job[s])'
    BY <2>3 DEF IsRestoring, JobFits, Late, RestoreFits
  <2>5. \A r \in Runs : Fits(r)'
    BY <2>2, CalmNone, SameFits DEF CalmInv
  <2> QED BY <2>2, <2>3, <2>4, <2>5, OneIsCalm DEF Others
<1>4. CASE \E late \in BOOLEAN : New(late)
  <2>1. PICK late \in BOOLEAN : New(late)
    BY <1>4
  <2>2. hasty = 0 /\ \A t \in Slots : job[t].kind \in {"send", "none"}
    BY <1>1, <2>1, HasteIs DEF New
  <2>3. job' = Cut(job, late) /\ view' = EmptyView
    BY <2>1 DEF New, Fresh
  <2>4. \A t \in Slots : job'[t].kind = "none"
    <3> SUFFICES ASSUME NEW t \in Slots PROVE job'[t].kind = "none"
      OBVIOUS
    <3>1. CASE t = ref
      <4>1. job[ref].kind = "send"
        BY <1>1, <2>2, <3>1, NoRefOK DEF RefOK
      <4> QED BY <1>1, <2>3, <3>1, <4>1, CutDoes, IdleIs, NoRefOK DEF JobsOK
    <3>2. CASE t # ref
      <4>1. job'[t] = job[t]
        BY <1>1, <2>3, <3>2, CutDoes DEF JobsOK
      <4> QED BY <2>2, <3>2, <4>1 DEF OneInv, Alone, Held
    <3> QED BY <3>1, <3>2
  <2> QED BY <2>3, <2>4, EmptyFits, NoneIsCalm
<1>5. CASE Send
  <2>1. /\ hasty = 0 /\ lost = 0 /\ UNCHANGED <<view, card>>
        /\ \A t \in Slots : job[t].kind = "none"
    BY <1>1, <1>5, HasteIs DEF Send, server
  <2>2. PICK s \in Slots : Others(s) /\ job'[s].kind = "send" /\ job'[s].at = "posted"
    BY <1>1, <1>5, SendDoes
  <2>3. JobFits(job[s])'
    BY <2>2 DEF JobFits, Late, SendFits
  <2>4. \A r \in Runs : Fits(r)'
    BY <2>1, CalmNone, SameFits DEF CalmInv
  <2> QED BY <2>1, <2>2, <2>3, <2>4, OneIsCalm DEF Others
<1>6. CASE \E r \in Runs : Decide(r)
  <2>1. PICK r \in Runs : Decide(r)
    BY <1>6
  <2>2. /\ hasty = 0 /\ lost = 0 /\ UNCHANGED <<view, card>> /\ view.card[r] = "pending"
        /\ \A t \in Slots : job[t].kind = "none"
    BY <1>1, <2>1, HasteIs DEF Decide, server, page
  <2>3. PICK s \in Slots : /\ Others(s) /\ job'[s].kind = "decide" /\ job'[s].at = "asked"
                           /\ job'[s].run = r
    BY <1>1, <2>1, DecideDoes
  <2>4. JobFits(job[s])'
    BY <2>2, <2>3 DEF JobFits, Late, DecideFits
  <2>5. \A q \in Runs : Fits(q)'
    BY <2>2, CalmNone, SameFits DEF CalmInv
  <2> QED BY <2>2, <2>3, <2>4, <2>5, OneIsCalm DEF Others
<1>7. CASE \E c \in Conversations : Delete(c)
  <2>1. PICK c \in Conversations : Delete(c)
    BY <1>7
  <2>2. /\ hasty = 0 /\ lost = 0 /\ UNCHANGED <<view, card, conv>>
        /\ \A t \in Slots : job[t].kind = "none"
    BY <1>1, <2>1, HasteIs DEF Delete, server, page
  <2>3. PICK s \in Slots :
           LET k == job'[s]
           IN /\ Free(s) /\ Others(s) /\ c \in alive
              /\ k.kind = "delete" /\ k.at = "asked" /\ k.conv = c /\ k.shown = (conv = c)
    BY <1>1, <2>1, DeleteDoes
  <2>4. JobFits(job[s])'
    BY <2>2, <2>3 DEF JobFits, Late
  <2>5. \A q \in Runs : Fits(q)'
    BY <2>2, CalmNone, SameFits DEF CalmInv
  <2> QED BY <2>2, <2>3, <2>4, <2>5, OneIsCalm DEF Others
<1>8. CASE \E late \in BOOLEAN : Stop(late)
  <2>1. PICK late \in BOOLEAN : Stop(late)
    BY <1>8
  <2>2. /\ hasty = 0 /\ UNCHANGED <<view, card>>
        /\ \A t \in Slots : job[t].kind \in {"send", "follow", "none"}
    BY <1>1, <2>1, HasteIs DEF Stop, server
  <2>3. lost = 0 /\ (ref # NoRef => job[ref].kind = "send" /\ job[ref].upto # 0)
    BY <1>1, <2>1 DEF Stop, LostByCut
  <2>4. Alone /\ Calm
    BY <2>2, <2>3 DEF OneInv, CalmInv
  <2>5. ASSUME NEW t \in Slots
        PROVE  /\ job[t].kind = "none" \/ (t = ref /\ job[t].kind = "send" /\ job[t].upto # 0)
               /\ Cut(job, late)[t].kind = "none"
    <3>1. job[t].kind = "follow" => Held(job[t])
      BY <2>4 DEF Calm, JobFits, Late, Held
    <3>2. job[t].kind = "none" \/ (t = ref /\ job[t].kind = "send" /\ job[t].upto # 0)
      BY <2>2, <2>3, <2>4, <3>1, NoRefOK DEF Alone, Held
    <3>3. Cut(job, late)[t].kind = "none"
      BY <1>1, <3>2, CutDoes, IdleIs, NoRefOK DEF JobsOK, Remains
    <3> QED BY <3>2, <3>3
  <2>6. \A r \in Runs : Fits(r)'
    <3>1. \A r \in Runs, t \in Slots : ~Excuses(job[t], r)
      BY <2>5 DEF Excuses
    <3>2. \A r \in Runs : Fits(r)
      BY <2>4, <3>1 DEF Calm
    <3> QED BY <2>2, <3>2, SameFits
  <2>7. CASE job' = Cut(job, late)
    BY <2>5, <2>6, <2>7, NoneIsCalm
  <2>8. CASE \E s \in Slots : /\ \A u \in Slots \ {s} : job'[u] = Cut(job, late)[u]
                              /\ job'[s].kind = "cancel"
    <3>1. PICK s \in Slots : /\ \A u \in Slots \ {s} : job'[u] = Cut(job, late)[u]
                             /\ job'[s].kind = "cancel"
      BY <2>8
    <3>2. JobFits(job[s])'
      BY <3>1 DEF JobFits, Late
    <3> QED BY <2>5, <2>6, <3>1, <3>2, OneIsCalm
  <2> QED BY <1>1, <2>1, <2>7, <2>8, StopDoes
<1> QED BY <1>2, <1>3, <1>4, <1>5, <1>6, <1>7, <1>8 DEF UserActs

\* An answer that is lost is counted; only the user begins the count anew.
LEMMA LostKept ==
  ASSUME [Next]_vars, ~UserActs, lost \in Nat, lost' = 0
  PROVE  lost = 0
<1>1. CASE AtServer
  BY <1>1 DEF AtServer, Claims, Cancels, Deletes, SendStarts, RunPauses, RunResumes, RunEnds
<1>2. CASE UNCHANGED vars
  BY <1>2 DEF vars
<1>3. ASSUME NEW s \in Slots, lost' \in {lost, lost + 1} PROVE lost = 0
  BY <1>3
<1>4. ASSUME NEW s \in Slots,
             \/ RestoreLists(s) \/ RestoreReadsCard(s) \/ RestoreApplies(s) \/ RestoreFails(s)
             \/ \E fails \in BOOLEAN : RestoreReadsEvents(s, fails)
      PROVE  lost = 0
  BY <1>3, <1>4 DEF RestoreLists, RestoreReadsCard, RestoreApplies, RestoreFails,
                    RestoreReadsEvents
<1>5. ASSUME NEW s \in Slots, Deliver(s) \/ End(s) \/ Break(s) \/ FirstPoll(s) \/ LatePoll(s)
      PROVE  lost = 0
  BY <1>3, <1>5 DEF Deliver, End, Break, FirstPoll, LatePoll
<1>6. ASSUME NEW s \in Slots, Cancelled(s) \/ NoAnswer(s)
      PROVE  lost = 0
  BY <1>3, <1>6 DEF Cancelled, NoAnswer
<1>7. ASSUME NEW s \in Slots, NEW late \in BOOLEAN, Follow(s, late) \/ Deleted(s, late)
      PROVE  lost = 0
  BY <1>7 DEF Follow, Deleted
<1> QED BY <1>1, <1>2, <1>4, <1>5, <1>6, <1>7, OneStep

\* The replayed events of a Run offer nothing but its own approval, and that only
\* when the Run asked for one.
LEMMA ReplayOffers ==
  ASSUME ServerInv, NEW r \in Runs, NEW upto \in Nat, upto <= Len(log[r])
  PROVE  LET all == SeeAll(EmptyView, r, 0, upto)
         IN /\ \A q \in Runs \ {r} : all.card[q] = "none"
            /\ all.card[r] = "pending" => Has(r, "required")
<1> DEFINE V == {v \in Views : /\ \A q \in Runs \ {r} : v.card[q] = "none"
                               /\ v.card[r] = "pending" => Has(r, "required")}
<1>1. EmptyView \in V
  BY EmptyIsView
<1>2. ASSUME NEW v \in V, NEW e \in EventsOf(r, 0, upto) PROVE See(v, e) \in V
  <2> DEFINE w == See(v, e)
  <2>1. e \in Happened /\ e[1] = r
    BY ListedHappened DEF EventsOf
  <2>2. /\ v \in Views /\ v \in ViewTypes /\ w \in Views /\ log[e[1]][e[2]] \in LogTypes
        /\ e[2] \in DOMAIN log[r]
    BY <2>1, EventIs, SeeKeeps DEF Views
  <2>3. \A q \in Runs \ {r} : w.card[q] = "none"
    BY <2>1, <2>2, SeeIs, EmptyIsView DEF LogTypes
  <2>4. w.card[r] = "pending" => v.card[r] = "pending" \/ log[r][e[2]] = "required"
    BY <2>1, <2>2, SeeIs, EmptyIsView DEF LogTypes
  <2> HIDE DEF w
  <2>5. w.card[r] = "pending" => Has(r, "required")
    BY <2>2, <2>4 DEF Has
  <2>6. w \in V
    BY <2>2, <2>3, <2>5
  <2> QED BY <2>6 DEF w
<1>3. SeeAll(EmptyView, r, 0, upto) \in V
  <2> HIDE DEF V
  <2> QED BY <1>1, <1>2, SeeAllStays
<1> QED BY <1>3

\* What is answered of a restore: nothing else is on its way.
LEMMA RestoreKeepsCalm ==
  ASSUME TypeInv, Alone, Calm, NEW s \in Slots,
         \/ RestoreLists(s) \/ RestoreReadsCard(s) \/ RestoreApplies(s) \/ RestoreFails(s)
         \/ \E fails \in BOOLEAN : RestoreReadsEvents(s, fails)
  PROVE  Calm'
<1> DEFINE j == job[s]
<1>1. PageInv /\ ServerInv /\ JobIs(j)
  BY DEF TypeInv, JobsInv
<1>2. j.kind = "restore" /\ UNCHANGED <<home, row, log, card, alive>>
  BY DEF RestoreLists, RestoreReadsCard, RestoreApplies, RestoreFails, RestoreReadsEvents, server
<1>3. /\ \A t \in Slots \ {s} : job[t].kind = "none"
      /\ \A r \in Runs : Fits(r)
      /\ RestoreFits(j) /\ RestoreOK(j)
  BY <1>1, <1>2, CalmOne DEF Free, Excuses, JobFits, JobIs
<1>4. Others(s) /\ job'[s].kind \in {"none", "restore"}
  BY <1>1, ListsDoes, ReadsCardDoes, ReadsEventsDoes, EndsDoes, IdleIs
     DEF RestoreApplies, RestoreFails
<1>5. \A t \in Slots \ {s} : job'[t].kind = "none"
  BY <1>3, <1>4 DEF Others
<1>6. ASSUME view' = view, job'[s].kind = "restore", RestoreFits(job[s])' PROVE Calm'
  <2>1. JobFits(job[s])'
    BY <1>6 DEF JobFits, Late
  <2>2. \A r \in Runs : Fits(r)'
    BY <1>2, <1>3, <1>6, SameFits
  <2> QED BY <1>5, <2>1, <2>2, OneIsCalm
<1>7. ASSUME \A r \in Runs : Fits(r)', job'[s].kind = "none" PROVE Calm'
  BY <1>5, <1>7, NoneIsCalm
<1>8. CASE RestoreLists(s)
  <2> DEFINE k == job'[s]
  <2>1. /\ j.at = "asked" /\ j.conv \in alive /\ k.kind = "restore" /\ k.card = j.card
        /\ k.run = LatestRun(j.conv) /\ view' = view
    BY <1>1, <1>8, ListsDoes DEF RestoreLists, page
  <2>2. k.card = "unread"
    BY <1>3, <2>1 DEF RestoreOK
  <2>3. k.run # NoRun => home[k.run] \in alive
    BY <2>1, LatestIsOne
  <2>4. RestoreFits(job[s])'
    BY <1>2, <2>2, <2>3 DEF RestoreFits
  <2> QED BY <1>6, <2>1, <2>4
<1>9. CASE \E fails \in BOOLEAN : RestoreReadsEvents(s, fails)
  <2>1. PICK fails \in BOOLEAN : RestoreReadsEvents(s, fails)
    BY <1>9
  <2>2. /\ job'[s].kind = "restore" /\ job'[s].card = j.card /\ job'[s].run = j.run
        /\ view' = view
    BY <1>1, <2>1, ReadsEventsDoes DEF RestoreReadsEvents, page
  <2>3. RestoreFits(job[s])'
    BY <1>2, <1>3, <2>2 DEF RestoreFits
  <2> QED BY <1>6, <2>2, <2>3
<1>10. CASE RestoreReadsCard(s)
  <2>1. /\ job'[s].kind = "restore" /\ job'[s].card = card[j.run] /\ job'[s].run = j.run
        /\ home[j.run] \in alive /\ view' = view
    BY <1>1, <1>10, ReadsCardDoes DEF RestoreReadsCard, page
  <2>2. RestoreFits(job[s])'
    BY <1>2, <2>1 DEF RestoreFits
  <2> QED BY <1>6, <2>1, <2>2
<1>11. CASE RestoreFails(s)
  <2>1. job'[s] = Idle /\ view' = view
    BY <1>1, <1>11, EndsDoes DEF RestoreFails
  <2> QED BY <1>2, <1>3, <1>7, <2>1, IdleIs, SameFits
<1>12. CASE RestoreApplies(s)
  <2>1. /\ job'[s] = Idle /\ view' = Restored(j.run, j.row, j.card, j.upto)
        /\ j.run # NoRun => j.upto # Far /\ j.card # "unread"
    BY <1>1, <1>12, EndsDoes DEF RestoreApplies
  <2> HIDE DEF j
  <2>2. CASE j.run = NoRun
    <3>1. view' = EmptyView
      BY <2>1, <2>2 DEF Restored
    <3> QED BY <1>7, <2>1, <3>1, EmptyFits, IdleIs
  <2>3. CASE j.run # NoRun
    <3> PICK r \in Runs : r = j.run
      BY <1>3, <2>3 DEF RestoreOK
    <3> DEFINE all == SeeAll(EmptyView, r, 0, j.upto)
    <3>1. /\ home[r] \in alive /\ home[r] # None /\ j.row \in Rows /\ j.card \in Cards
          /\ j.upto \in Nat /\ j.upto <= Len(log[r])
          /\ j.card = "pending" => card[r] = "pending"
          /\ j.card = "none" => card[r] \in {"none", "pending"}
      BY <1>3, <2>1, <2>3, ConversationsOK DEF RestoreOK, RestoreFits
    <3>2. /\ \A q \in Runs \ {r} : view'.card[q] = all.card[q]
          /\ view'.card[r] = CASE j.card = "none" -> all.card[r]
                               [] j.card = "pending" -> "pending"
                               [] OTHER -> "decided"
      BY <1>1, <2>1, <3>1, RestoredIs
    <3>3. /\ \A q \in Runs \ {r} : all.card[q] = "none"
          /\ all.card[r] = "pending" => Has(r, "required")
      BY <1>1, <3>1, ReplayOffers
    <3>4. Has(r, "required") => card[r] # "none"
      BY <1>1, <3>1 DEF ServerInv, RunOK
    <3> HIDE DEF all
    <3>5. \A q \in Runs : Fits(q)'
      BY <1>2, <3>1, <3>2, <3>3, <3>4 DEF Fits
    <3> QED BY <1>7, <2>1, <3>5, IdleIs
  <2> QED BY <2>2, <2>3
<1> QED BY <1>8, <1>9, <1>10, <1>11, <1>12

\* What an event of Run r does to what is offered: it offers only when it asks, and
\* a decision that was not seen takes the offer away.
LEMMA SeeOffers ==
  ASSUME ServerInv, NEW v \in Views, NEW r \in Runs, NEW n \in DOMAIN log[r]
  PROVE  LET e == <<r, n>>
             w == See(v, e)
         IN /\ w \in Views /\ w.seen \subseteq v.seen \cup {e}
            /\ \A q \in Runs \ {r} : w.card[q] \in {v.card[q], "none"}
            /\ w.card[r] = "pending" =>
                 \/ log[r][n] = "required"
                 \/ v.card[r] = "pending" /\ (log[r][n] = "decided" => e \in v.seen)
<1> DEFINE e == <<r, n>>
           w == See(v, e)
<1>1. e \in Happened /\ e[1] = r /\ e[2] = n
  BY DEF Happened
<1>2. v \in ViewTypes /\ w \in Views /\ log[e[1]][e[2]] \in LogTypes
  BY <1>1, EventIs, SeeKeeps DEF Views
<1> HIDE DEF e
<1>3. CASE e \in v.seen
  <2>1. w = v
    BY <1>1, <1>2, <1>3, SeeIs
  <2> QED BY <1>2, <1>3, <2>1 DEF e
<1>4. CASE e \notin v.seen
  <2>1. w.seen \subseteq v.seen \cup {e}
    BY <1>1, <1>2, <1>4, SeeIs DEF LogTypes
  <2>2. \A q \in Runs \ {r} : w.card[q] \in {v.card[q], "none"}
    BY <1>1, <1>2, <1>4, SeeIs, EmptyIsView DEF LogTypes
  <2>3. w.card[r] = "pending" =>
          log[r][n] = "required" \/ (v.card[r] = "pending" /\ log[r][n] # "decided")
    BY <1>1, <1>2, <1>4, SeeIs, EmptyIsView DEF LogTypes
  <2> QED BY <1>2, <2>1, <2>2, <2>3 DEF e
<1> QED BY <1>3, <1>4

\* A follow replays the rest of a log: if it offers the approval, the log has no
\* decision.
LEMMA ReplayDecides ==
  ASSUME ServerInv, NEW v \in Views, NEW r \in Runs, NEW from \in Nat, from <= Len(log[r]),
         v.card[r] # "pending",
         \A i \in DOMAIN log[r] : log[r][i] = "decided" => <<r, i>> \notin v.seen
  PROVE  LET w == SeeAll(v, r, from, Len(log[r]))
         IN /\ w.card[r] = "pending" => ~Has(r, "decided")
            /\ \A q \in Runs \ {r} : w.card[q] \in {v.card[q], "none"}
<1> DEFINE n == Len(log[r])
           Undecided(k) == \A i \in DOMAIN log[r] : i <= k => log[r][i] # "decided"
           P(u, k) == /\ u.card[r] = "pending" => Undecided(k)
                      /\ \A i \in DOMAIN log[r] : i > k /\ log[r][i] = "decided" => <<r, i>> \notin u.seen
                      /\ \A q \in Runs \ {r} : u.card[q] \in {v.card[q], "none"}
           Q == [k \in from..n |-> {u \in Views : P(u, k)}]
<1>1. log[r] \in Seq(LogTypes) /\ n \in Nat /\ DOMAIN log[r] = 1..n /\ RunOK(r)
  BY DEF ServerInv, ServerTypeOK
<1>2. v \in Q[from]
  BY <1>1
<1>3. ASSUME NEW k \in from..(n - 1), NEW u \in Q[k]
      PROVE  See(u, <<r, k + 1>>) \in Q[k + 1]
  <2> DEFINE m == k + 1
             e == <<r, m>>
             w == See(u, e)
  <2>1. k \in from..n /\ m \in from..n /\ m \in DOMAIN log[r] /\ k \in Nat /\ m \in Nat /\ k < m
    BY <1>1
  <2>2. u \in Views /\ P(u, k)
    BY <2>1
  <2>3. /\ w \in Views /\ w.seen \subseteq u.seen \cup {e}
        /\ \A q \in Runs \ {r} : w.card[q] \in {u.card[q], "none"}
        /\ w.card[r] = "pending" =>
             log[r][m] = "required" \/ (u.card[r] = "pending" /\ (log[r][m] = "decided" => e \in u.seen))
    <3> HIDE DEF P, m
    <3> QED BY <2>1, <2>2, SeeOffers
  <2>4. w.card[r] = "pending" => Undecided(m)
    <3> SUFFICES ASSUME w.card[r] = "pending", NEW i \in DOMAIN log[r], i <= m
                 PROVE  log[r][i] # "decided"
      OBVIOUS
    <3>1. CASE log[r][m] = "required"
      <4>1. log[r][i] = "decided" => m < i
        BY <1>1, <2>1, <3>1 DEF RunOK
      <4> QED BY <1>1, <2>1, <4>1
    <3>2. CASE u.card[r] = "pending" /\ (log[r][m] = "decided" => e \in u.seen)
      <4>1. log[r][m] # "decided"
        BY <2>1, <2>2, <3>2
      <4>2. i <= k \/ i = m
        BY <1>1, <2>1
      <4> QED BY <2>2, <3>2, <4>1, <4>2
    <3> QED BY <2>3, <3>1, <3>2
  <2>5. ASSUME NEW i \in DOMAIN log[r], i > m, log[r][i] = "decided" PROVE <<r, i>> \notin w.seen
    <3>1. i > k /\ <<r, i>> # e
      BY <1>1, <2>1, <2>5
    <3> QED BY <2>2, <2>3, <2>5, <3>1
  <2>6. P(w, m)
    <3>1. \A q \in Runs \ {r} : w.card[q] \in {v.card[q], "none"}
      BY <2>2, <2>3
    <3> HIDE DEF w, m, Undecided
    <3> QED BY <2>4, <2>5, <3>1
  <2>7. w \in {x \in Views : P(x, m)}
    <3> HIDE DEF P, w, m
    <3> QED BY <2>3, <2>6
  <2> HIDE DEF P, w
  <2> QED BY <2>1, <2>7 DEF w
<1>4. SeeAll(v, r, from, n) \in Q[n]
  <2> HIDE DEF Q
  <2> QED BY <1>1, <1>2, <1>3, SeeAllPasses
<1>5. P(SeeAll(v, r, from, n), n)
  <2>1. n \in from..n
    BY <1>1
  <2> HIDE DEF P
  <2> QED BY <1>4, <2>1
<1> QED BY <1>1, <1>5 DEF Has

\* A stream that closes by itself has told all it had to tell.
LEMMA EndKeepsCalm ==
  ASSUME TypeInv, Alone, Calm, NEW s \in Slots, End(s)
  PROVE  Calm'
<1> DEFINE j == job[s]
<1>1. /\ PageInv /\ ServerInv /\ JobIs(j) /\ Streams(s) /\ MayEnd(j)
      /\ UNCHANGED <<view, card>> /\ Others(s) /\ job'[s] = Idle
  BY EndsDoes DEF TypeInv, JobsInv, End, Settled, server
<1>2. /\ \A t \in Slots \ {s} : job[t].kind = "none"
      /\ \A r \in Runs : Fits(r) \/ Excuses(j, r)
      /\ JobFits(j)
  BY <1>1, CalmOne DEF Streams, Free
<1> HIDE DEF j
<1>3. \A r \in Runs : Fits(r)
  <2>1. CASE j.kind = "send"
    <3>1. /\ home[j.run] \in alive /\ j.run \in Runs /\ home[j.run] # None /\ j.upto \in Nat
      BY <1>1, <1>2, <2>1 DEF Streams, JobFits, SendFits, JobIs, SendOK, j
    <3>2. Sendable(j) \in Nat /\ 1 <= Sendable(j)
      BY <1>1, <3>1, SendableIs
    <3>3. j.upto # 0
      BY <1>1, <3>1, <3>2 DEF MayEnd
    <3> QED BY <1>2, <2>1, <3>3 DEF Excuses
  <2>2. CASE j.kind = "follow"
    <3> PICK r \in Runs : r = j.run
      BY <1>1, <2>2 DEF JobIs
    <3>1. /\ home[r] \in alive /\ card[r] \in {"decided", "claimed"} /\ Ahead(j)
          /\ card[r] = "claimed" => row[r] = "running"
      BY <1>1, <1>2, <2>2 DEF Streams, JobFits, FollowFits, Claimed, j
    <3>2. card[r] = "decided" /\ Len(log[r]) <= j.upto
      <4>1. row[r] # "running" /\ j.upto >= Len(log[r])
        BY <1>1, <2>2, <3>1 DEF MayEnd, Closes, Sendable
      <4>2. Len(log[r]) \in Nat /\ j.upto \in Nat
        BY <1>1, <2>2 DEF ServerInv, ServerTypeOK, JobIs
      <4> QED BY <3>1, <4>1, <4>2
    <3>3. PICK i \in DOMAIN log[r] : log[r][i] = "decided"
      BY <1>1, <3>2 DEF ServerInv, RunOK, Has
    <3>4. i \in Nat /\ i <= Len(log[r]) /\ Len(log[r]) \in Nat /\ j.upto \in Nat
      <4>1. log[r] \in Seq(LogTypes)
        BY <1>1 DEF ServerInv, ServerTypeOK
      <4>2. DOMAIN log[r] = 1..Len(log[r]) /\ Len(log[r]) \in Nat
        BY <4>1
      <4> QED BY <1>1, <2>2, <4>2 DEF JobIs
    <3>5. view.card[r] # "pending"
      <4>1. view.card[r] = "pending" => i > j.upto
        BY <3>1, <3>3 DEF Ahead
      <4> QED BY <3>2, <3>4, <4>1
    <3> QED BY <1>2, <2>2, <3>5 DEF Excuses, Fits
  <2> QED BY <1>1, <2>1, <2>2 DEF Streams, j
<1>4. \A t \in Slots : job'[t].kind = "none"
  BY <1>1, <1>2, IdleIs DEF Others
<1> QED BY <1>1, <1>3, <1>4, SameFits, NoneIsCalm

\* The next event of a send: the first begins the view anew, a later one agrees with
\* the row of the approval.
LEMMA SentKeepsCalm ==
  ASSUME TypeInv, Alone, Calm, NEW s \in Slots, Deliver(s), job[s].kind = "send"
  PROVE  Calm'
<1> DEFINE j == job[s]
           n == j.upto + 1
<1>1. /\ PageInv /\ ServerInv /\ JobIs(j) /\ Streams(s) /\ j.upto < Sendable(j)
      /\ UNCHANGED <<home, card, alive>> /\ view' = See(view, <<j.run, n>>) /\ Others(s)
      /\ job'[s].kind = "send" /\ job'[s].at = "open" /\ job'[s].run = j.run /\ job'[s].upto = n
      /\ view \in Views
  BY DeliverDoes DEF TypeInv, JobsInv, Deliver, server, Streams, Fields
<1>2. /\ \A t \in Slots \ {s} : job[t].kind = "none"
      /\ \A r \in Runs : Fits(r) \/ Excuses(j, r)
      /\ JobFits(j)
  BY <1>1, CalmOne DEF Streams, Free
<1> HIDE DEF j, n
<1>3. /\ j.kind = "send" /\ j.at = "open" /\ j.run \in Runs /\ home[j.run] # None /\ j.upto \in Nat
      /\ SendFits(j) /\ n = j.upto + 1
  BY <1>1, <1>2 DEF Streams, JobFits, JobIs, SendOK, j, n
<1> PICK r \in Runs : r = j.run
  BY <1>3
<1>4. /\ RunOK(r) /\ n \in DOMAIN log[r] /\ n # 0 /\ n \in Nat
  <2>1. log[r] \in Seq(LogTypes) /\ RunOK(r)
    BY <1>1 DEF ServerInv, ServerTypeOK
  <2>2. DOMAIN log[r] = 1..Len(log[r]) /\ Len(log[r]) \in Nat
    BY <2>1
  <2>3. Sendable(j) \in Nat /\ Sendable(j) <= Len(log[r])
    BY <1>1, <1>3, SendableIs
  <2> QED BY <1>1, <1>3, <2>1, <2>2, <2>3
<1>5. home[r] \in alive /\ card[r] \in {"none", "pending"}
  BY <1>3 DEF SendFits
<1>6. JobFits(job[s])'
  BY <1>1, <1>3, <1>4, <1>5 DEF JobFits, Late, SendFits
<1>7. \A q \in Runs : Fits(q)'
  <2>1. CASE j.upto = 0
    <3> DEFINE e == <<r, 1>>
    <3>1. n = 1 /\ log[r][1] = "started" /\ e \notin view.seen /\ view.run # r
      BY <1>3, <1>4, <2>1 DEF RunOK, SendFits
    <3>2. e \in Happened /\ e[1] = r /\ e[2] = 1 /\ view \in ViewTypes /\ view' = See(view, e)
      BY <1>1, <1>4, <3>1 DEF Happened, Views
    <3> HIDE DEF e
    <3>3. view'.card = EmptyView.card
      BY <1>1, <3>1, <3>2, SeeIs
    <3> QED BY <3>3, EmptyIsView DEF Fits
  <2>2. CASE j.upto # 0
    <3>1. \A q \in Runs : Fits(q)
      BY <1>2, <1>3, <2>2 DEF Excuses
    <3>2. /\ \A q \in Runs \ {r} : view'.card[q] \in {view.card[q], "none"}
          /\ view'.card[r] = "pending" => log[r][n] = "required" \/ view.card[r] = "pending"
      BY <1>1, <1>4, SeeOffers
    <3>3. log[r][n] = "required" => card[r] = "pending"
      BY <1>4, <1>5 DEF RunOK, Has
    <3> QED BY <1>1, <3>1, <3>2, <3>3 DEF Fits
  <2> QED BY <2>1, <2>2
<1>8. \A t \in Slots \ {s} : job'[t].kind = "none"
  BY <1>1, <1>2 DEF Others
<1> QED BY <1>6, <1>7, <1>8, OneIsCalm

\* The next event of a follow: a question comes with the decision still before it.
LEMMA FollowedKeepsCalm ==
  ASSUME TypeInv, Alone, Calm, NEW s \in Slots, Deliver(s), job[s].kind = "follow"
  PROVE  Calm'
<1> DEFINE j == job[s]
           n == j.upto + 1
<1>1. /\ PageInv /\ ServerInv /\ JobIs(j) /\ Streams(s) /\ j.upto < Sendable(j)
      /\ UNCHANGED <<home, row, log, card, alive>> /\ view' = See(view, <<j.run, n>>) /\ Others(s)
      /\ job'[s].kind = "follow" /\ job'[s].at = "open" /\ job'[s].run = j.run /\ job'[s].upto = n
      /\ view \in Views
  BY DeliverDoes DEF TypeInv, JobsInv, Deliver, server, Streams, Fields
<1>2. /\ \A t \in Slots \ {s} : job[t].kind = "none"
      /\ \A r \in Runs : Fits(r) \/ Excuses(j, r)
      /\ JobFits(j)
  BY <1>1, CalmOne DEF Streams, Free
<1> HIDE DEF j, n
<1>3. /\ j.kind = "follow" /\ j.at = "open" /\ j.run \in Runs /\ j.upto \in Nat
      /\ Claimed(j.run) /\ Ahead(j) /\ n = j.upto + 1
  BY <1>1, <1>2 DEF Streams, JobFits, FollowFits, JobIs, j, n
<1> PICK r \in Runs : r = j.run
  BY <1>3
<1>4. /\ RunOK(r) /\ n \in DOMAIN log[r] /\ n \in Nat /\ n <= Len(log[r])
      /\ \A i \in DOMAIN log[r] : i \in Nat
  <2>1. log[r] \in Seq(LogTypes) /\ RunOK(r)
    BY <1>1 DEF ServerInv, ServerTypeOK
  <2>2. DOMAIN log[r] = 1..Len(log[r]) /\ Len(log[r]) \in Nat
    BY <2>1
  <2>3. j.upto < Len(log[r])
    BY <1>1, <1>3 DEF Sendable
  <2> QED BY <1>3, <2>1, <2>2, <2>3
<1>5. /\ view'.seen \subseteq view.seen \cup {<<r, n>>}
      /\ \A q \in Runs \ {r} : view'.card[q] \in {view.card[q], "none"}
      /\ view'.card[r] = "pending" =>
           \/ log[r][n] = "required"
           \/ view.card[r] = "pending" /\ (log[r][n] = "decided" => <<r, n>> \in view.seen)
  <2>1. ServerInv /\ view \in Views /\ n \in DOMAIN log[r] /\ view' = See(view, <<r, n>>)
    BY <1>1, <1>4
  <2>2. view'.seen \subseteq view.seen \cup {<<r, n>>}
    BY <2>1, SeeOffers
  <2>3. \A q \in Runs \ {r} : view'.card[q] \in {view.card[q], "none"}
    BY <2>1, SeeOffers
  <2>4. view'.card[r] = "pending" /\ log[r][n] # "required" =>
          view.card[r] = "pending" /\ (log[r][n] = "decided" => <<r, n>> \in view.seen)
    BY <2>1, SeeOffers
  <2> QED BY <2>2, <2>3, <2>4
<1>6. ASSUME NEW i \in DOMAIN log[r], log[r][i] = "decided"
      PROVE  /\ <<r, i>> \in view'.seen => i <= n
             /\ view'.card[r] = "pending" => i > n
  <2>1. /\ <<r, i>> \in view.seen => i <= j.upto
        /\ view.card[r] = "pending" => i > j.upto
    BY <1>3, <1>6 DEF Ahead
  <2>2. <<r, i>> \in view'.seen => i <= n
    <3>1. <<r, i>> \in view'.seen => <<r, i>> \in view.seen \/ i = n
      BY <1>5
    <3> QED BY <1>3, <1>4, <2>1, <3>1
  <2>3. log[r][n] = "required" => i > n
    BY <1>4, <1>6 DEF RunOK
  <2>4. view.card[r] = "pending" /\ (log[r][n] = "decided" => <<r, n>> \in view.seen) => i > n
    <3> SUFFICES ASSUME view.card[r] = "pending", log[r][n] = "decided" => <<r, n>> \in view.seen
                 PROVE  i > n
      OBVIOUS
    <3>1. i # n
      BY <1>3, <1>4, <1>6, <2>1
    <3> QED BY <1>3, <1>4, <2>1, <3>1
  <2> QED BY <1>5, <2>2, <2>3, <2>4
<1>7. JobFits(job[s])'
  <2>1. Claimed(job[s].run)'
    BY <1>1, <1>3 DEF Claimed
  <2>2. Ahead(job[s])'
    BY <1>1, <1>4, <1>6 DEF Ahead
  <2> QED BY <1>1, <2>1, <2>2 DEF JobFits, Late, FollowFits
<1>8. \A q \in Runs : Fits(q)' \/ Excuses(job[s], q)'
  <2>1. \A q \in Runs \ {r} : Fits(q)
    BY <1>2, <1>3 DEF Excuses
  <2>2. \A q \in Runs \ {r} : Fits(q)'
    BY <1>1, <1>5, <2>1 DEF Fits
  <2>3. Excuses(job[s], r)'
    BY <1>1 DEF Excuses
  <2> QED BY <2>2, <2>3
<1>9. \A t \in Slots \ {s} : job'[t].kind = "none"
  BY <1>1, <1>2 DEF Others
<1> QED BY <1>7, <1>8, <1>9, OneIsCalm

\* The first request of a follow is answered with the rest of the log.
LEMMA PollKeepsCalm ==
  ASSUME TypeInv, Alone, Calm, NEW s \in Slots, FirstPoll(s)
  PROVE  Calm'
<1> DEFINE j == job[s]
<1>1. /\ PageInv /\ ServerInv /\ JobIs(j) /\ j.kind = "follow" /\ view \in Views
      /\ UNCHANGED <<home, row, log, card, alive>>
      /\ view' = SeeAll(view, j.run, j.upto, Stored(j.run)) /\ Others(s)
  BY FirstPollDoes DEF TypeInv, JobsInv, FirstPoll, server
<1>2. /\ \A t \in Slots \ {s} : job[t].kind = "none"
      /\ \A r \in Runs : Fits(r) \/ Excuses(j, r)
      /\ JobFits(j)
  BY <1>1, CalmOne DEF Free
<1>3. /\ j.at = "first" /\ j.run \in Runs /\ j.upto \in Nat
      /\ Claimed(j.run) /\ Unseen(j.run) /\ view.card[j.run] # "pending"
  BY <1>1, <1>2, FirstPollDoes DEF JobFits, Late, FollowFits, JobIs
<1> PICK r \in Runs : r = j.run
  BY <1>3
<1> DEFINE n == Len(log[r])
<1>4. /\ n \in Nat /\ Stored(r) = n /\ \A i \in DOMAIN log[r] : i \in Nat /\ i <= n
  <2>1. log[r] \in Seq(LogTypes)
    BY <1>1 DEF ServerInv, ServerTypeOK
  <2>2. DOMAIN log[r] = 1..n /\ n \in Nat
    BY <2>1
  <2> QED BY <1>3, <2>2 DEF Claimed, Stored
<1>5. /\ job'[s].kind = "follow" /\ job'[s].at = "open" /\ job'[s].run = r
      /\ job'[s].upto = IF j.upto > n THEN j.upto ELSE n
  BY <1>1, <1>3, <1>4, FirstPollDoes
<1> HIDE DEF j, n
<1>6. /\ view'.card[r] = "pending" => ~Has(r, "decided") /\ j.upto <= n
      /\ \A q \in Runs \ {r} : view'.card[q] \in {view.card[q], "none"}
  <2>1. CASE j.upto > n
    <3>1. view' = view
      BY <1>1, <1>3, <1>4, <2>1, SeeNone
    <3> QED BY <1>3, <3>1
  <2>2. CASE j.upto <= n
    <3>1. \A i \in DOMAIN log[r] : log[r][i] = "decided" => <<r, i>> \notin view.seen
      BY <1>3 DEF Unseen
    <3>2. view' = SeeAll(view, r, j.upto, Len(log[r]))
      BY <1>1, <1>4 DEF n
    <3> QED BY <1>1, <1>3, <2>2, <3>1, <3>2, ReplayDecides DEF n
  <2> QED BY <1>3, <1>4, <2>1, <2>2
<1>7. JobFits(job[s])'
  <2>1. Claimed(job[s].run)'
    BY <1>1, <1>3, <1>5 DEF Claimed
  <2>2. Ahead(job[s])'
    <3>1. n <= job'[s].upto /\ (view'.card[r] = "pending" => job'[s].upto = n)
      BY <1>3, <1>4, <1>5, <1>6
    <3>2. \A i \in DOMAIN log[r] : i <= job'[s].upto
      <4> PICK m : m = job'[s].upto
        OBVIOUS
      <4>1. m \in Nat
        BY <1>3, <1>4, <1>5
      <4> QED BY <1>4, <3>1, <4>1
    <3>3. view'.card[r] = "pending" => job'[s].upto <= Len(log[r])
      BY <1>4, <3>1 DEF n
    <3> QED BY <1>1, <1>5, <1>6, <3>2, <3>3 DEF Ahead, Has
  <2> QED BY <1>5, <2>1, <2>2 DEF JobFits, Late, FollowFits
<1>8. \A q \in Runs : Fits(q)' \/ Excuses(job[s], q)'
  <2>1. \A q \in Runs \ {r} : Fits(q)
    BY <1>1, <1>2 DEF Excuses, j
  <2>2. \A q \in Runs \ {r} : Fits(q)'
    BY <1>1, <1>6, <2>1 DEF Fits
  <2>3. Excuses(job[s], r)'
    BY <1>5 DEF Excuses
  <2> QED BY <2>2, <2>3
<1>9. \A t \in Slots \ {s} : job'[t].kind = "none"
  BY <1>1, <1>2 DEF Others
<1> QED BY <1>7, <1>8, <1>9, OneIsCalm

\* What is answered of a stream: it is not lost, and none is left of an aborted one.
LEMMA StreamKeepsCalm ==
  ASSUME TypeInv, Alone, Calm, lost' = 0, NEW s \in Slots,
         Deliver(s) \/ End(s) \/ Break(s) \/ FirstPoll(s) \/ LatePoll(s)
  PROVE  Calm'
<1>1. ~LatePoll(s)
  BY DEF LatePoll, Calm, JobFits, Late
<1>2. ~Break(s)
  BY DEF TypeInv, FieldsOK, Break
<1>3. Deliver(s) => job[s].kind \in {"send", "follow"}
  BY DEF Deliver, Streams
<1> QED BY <1>1, <1>2, <1>3, EndKeepsCalm, SentKeepsCalm, FollowedKeepsCalm, PollKeepsCalm

\* What is answered of the other requests.
LEMMA RequestKeepsCalm ==
  ASSUME TypeInv, Alone, OneConversation, Calm, lost' = 0, NEW s \in Slots,
         \/ Cancelled(s) \/ NoAnswer(s)
         \/ \E late \in BOOLEAN : Follow(s, late) \/ Deleted(s, late)
  PROVE  Calm'
<1> DEFINE j == job[s]
<1>1. /\ PageInv /\ RefOK /\ ServerInv /\ JobIs(j) /\ view \in Views /\ view \in ViewTypes
      /\ lost \in Nat /\ UNCHANGED <<home, row, log, card, alive>>
      /\ j.kind \in {"cancel", "decide", "delete"}
  BY DEF TypeInv, PageInv, JobsInv, Views, FieldsOK, Cancelled, NoAnswer, Follow, Deleted, server
<1>2. /\ \A t \in Slots \ {s} : job[t].kind = "none"
      /\ \A r \in Runs : Fits(r) \/ Excuses(j, r)
      /\ JobFits(j)
  BY <1>1, CalmOne DEF Free
<1>3. CASE Cancelled(s)
  <2> DEFINE r == j.run
  <2>1. /\ view' = [view EXCEPT !.run = r, !.status = "cancelled", !.seen = @ \cup {Local}]
        /\ j.kind = "cancel"
    BY <1>3 DEF Cancelled
  <2>2. Others(s) /\ job'[s] = Idle
    BY <1>1, <1>3, EndsDoes DEF Cancelled
  <2>3. view'.card = view.card
    <3> HIDE DEF r
    <3> QED BY <1>1, <2>1 DEF ViewTypes
  <2>4. \A q \in Runs : Fits(q)'
    BY <1>1, <1>2, <2>1, <2>3 DEF Fits, Excuses
  <2> QED BY <1>2, <2>2, <2>4, IdleIs, NoneIsCalm DEF Others
<1>4. CASE NoAnswer(s)
  <2>1. Refused(j) /\ view' = view
    BY <1>1, <1>4 DEF NoAnswer, page
  <2>2. j.at = "asked"
    BY <1>1, <2>1 DEF Refused
  <2>3. Others(s) /\ job'[s] = Idle
    BY <1>1, <1>4, EndsDoes DEF NoAnswer
  <2>4. \A r \in Runs : Fits(r)
    BY <1>1, <1>2, <2>2 DEF Excuses
  <2> QED BY <1>1, <1>2, <2>1, <2>3, <2>4, IdleIs, NoneIsCalm, SameFits DEF Others
<1>5. ASSUME NEW late \in BOOLEAN, Follow(s, late) PROVE Calm'
  <2>1. /\ j.kind = "decide" /\ j.at = "answered" /\ j.run \in Runs
        /\ job'[s].kind = "follow" /\ job'[s].at = "first" /\ job'[s].run = j.run
        /\ \A t \in Slots \ {s} : job'[t] = Cut(job, late)[t]
    BY <1>1, <1>5, FollowDoes DEF JobIs
  <2> PICK r \in Runs : r = j.run
    BY <2>1
  <2>2. ref = NoRef
    BY <1>1, <1>2, <2>1 DEF RefOK
  <2>3. Others(s) /\ view' = Mark(r)
    BY <1>5, <2>1, <2>2 DEF Follow, Others, Cut
  <2>4. /\ view'.seen = view.seen /\ view'.card[r] # "pending"
        /\ \A q \in Runs \ {r} : view'.card[q] = view.card[q]
    <3>1. CASE view.card[r] = "none"
      BY <2>3, <3>1 DEF Mark
    <3>2. CASE view.card[r] # "none"
      <4>1. view' = [view EXCEPT !.card[r] = "executing"]
        BY <2>3, <3>2 DEF Mark
      <4> QED BY <1>1, <3>2, <4>1 DEF ViewTypes
    <3> QED BY <3>1, <3>2
  <2>5. Claimed(r) /\ Unseen(r)
    BY <1>2, <2>1 DEF JobFits, DecideFits
  <2>6. Claimed(job[s].run)' /\ Unseen(job[s].run)'
    BY <1>1, <2>1, <2>4, <2>5 DEF Claimed, Unseen
  <2>7. JobFits(job[s])'
    BY <2>1, <2>4, <2>6 DEF JobFits, Late, FollowFits
  <2>8. \A q \in Runs : Fits(q)'
    BY <1>1, <1>2, <2>1, <2>4 DEF Fits, Excuses
  <2>9. \A t \in Slots \ {s} : job'[t].kind = "none"
    BY <1>2, <2>3 DEF Others
  <2> QED BY <2>7, <2>8, <2>9, OneIsCalm
<1>6. ASSUME NEW late \in BOOLEAN, Deleted(s, late) PROVE Calm'
  <2>1. /\ j.kind = "delete" /\ job'[s] = Idle
        /\ ~j.shown => Others(s) /\ UNCHANGED page
        /\ j.shown => /\ \A t \in Slots \ {s} : job'[t] = Cut(job, late)[t]
                      /\ view' = EmptyView
    BY <1>1, <1>6, DeletedDoes
  <2>2. ref = NoRef
    BY <1>1, <1>2, <2>1 DEF RefOK
  <2>3. \A t \in Slots : job'[t].kind = "none"
    BY <1>2, <2>1, <2>2, IdleIs DEF Others, Cut
  <2>4. CASE j.shown
    BY <2>1, <2>3, <2>4, EmptyFits, NoneIsCalm
  <2>5. CASE ~j.shown
    <3>1. view' = view /\ conv # j.conv
      BY <1>2, <2>1, <2>5 DEF JobFits, page
    <3>2. \A r \in Runs : view.card[r] = "pending" => home[r] = conv
      BY DEF OneConversation, HereViews
    <3>3. \A r \in Runs : Fits(r)
      BY <1>2, <2>1, <3>1, <3>2 DEF Excuses, Fits
    <3> QED BY <1>1, <2>3, <3>1, <3>3, NoneIsCalm, SameFits
  <2> QED BY <2>4, <2>5
<1> QED BY <1>3, <1>4, <1>5, <1>6

\* What the backend does of a request.
LEMMA AnswerKeepsCalm ==
  ASSUME TypeInv, Alone, Calm, NEW s \in Slots, Claims(s) \/ Cancels(s) \/ Deletes(s)
  PROVE  Calm'
<1> DEFINE j == job[s]
<1>1. /\ PageInv /\ ServerInv /\ JobIs(j) /\ view \in Views /\ home' = home
      /\ UNCHANGED <<view, conv>> /\ j.kind \in {"cancel", "decide", "delete"}
  BY DEF TypeInv, JobsInv, Claims, Cancels, Deletes, page
<1>2. /\ Others(s) /\ j.at = "asked" /\ job'[s].at = "answered" /\ job'[s].kind = j.kind
      /\ job'[s].run = j.run /\ job'[s].conv = j.conv /\ job'[s].shown = j.shown
  BY <1>1, AnswersDoes DEF Fields
<1>3. /\ \A t \in Slots \ {s} : job[t].kind = "none"
      /\ \A r \in Runs : Fits(r)
      /\ JobFits(j)
  BY <1>1, <1>2, CalmOne DEF Free, Excuses
<1>4. \A t \in Slots \ {s} : job'[t].kind = "none"
  BY <1>2, <1>3 DEF Others
<1>5. CASE Cancels(s)
  <2>1. j.kind = "cancel" /\ card' = card
    BY <1>5 DEF Cancels
  <2>2. JobFits(job[s])'
    BY <1>2, <2>1 DEF JobFits, Late
  <2> QED BY <1>1, <1>3, <1>4, <2>1, <2>2, SameFits, OneIsCalm
<1>6. CASE Deletes(s)
  <2>1. j.kind = "delete" /\ card' = [r \in Runs |-> IF home[r] = j.conv THEN "none" ELSE card[r]]
    BY <1>6 DEF Deletes
  <2>2. JobFits(job[s])'
    BY <1>1, <1>2, <1>3, <2>1 DEF JobFits, Late
  <2>3. ASSUME NEW r \in Runs PROVE Fits(r)' \/ Excuses(job[s], r)'
    <3>1. CASE home[r] = j.conv
      BY <1>1, <1>2, <2>1, <3>1 DEF Excuses
    <3>2. CASE home[r] # j.conv
      BY <1>1, <1>3, <2>1, <3>2 DEF Fits
    <3> QED BY <3>1, <3>2
  <2> QED BY <1>4, <2>2, <2>3, OneIsCalm
<1>7. CASE Claims(s)
  <2>1. j.kind = "decide" /\ j.run \in Runs /\ log' = log /\ alive' = alive
    BY <1>1, <1>7 DEF Claims, JobIs
  <2> PICK r \in Runs : r = j.run
    BY <2>1
  <2>2. card[r] = "pending" /\ home[r] \in alive
    BY <1>2, <1>3, <1>7, <2>1 DEF JobFits, DecideFits, Fits, Claims
  <2>3. card' = [card EXCEPT ![r] = "claimed"] /\ row' = [row EXCEPT ![r] = "running"]
    BY <1>7, <2>2 DEF Claims
  <2>4. /\ card'[r] = "claimed" /\ row'[r] = "running" /\ \A q \in Runs \ {r} : card'[q] = card[q]
    BY <1>1, <2>3 DEF ServerInv, ServerTypeOK
  <2>5. \A i \in DOMAIN log[r] : log[r][i] # "decided"
    BY <1>1, <2>2 DEF ServerInv, RunOK, Has
  <2>6. Unseen(r)
    <3> SUFFICES ASSUME NEW e \in view.seen, e[1] = r PROVE log[e[1]][e[2]] # "decided"
      BY DEF Unseen
    <3>1. e # Local
      BY ConversationsOK DEF Local, Runs
    <3>2. e[2] \in DOMAIN log[e[1]]
      BY <1>1, <3>1, EventIs DEF Views
    <3> QED BY <2>5, <3>2
  <2>7. Claimed(job[s].run)' /\ Unseen(job[s].run)'
    BY <1>1, <1>2, <2>1, <2>2, <2>4, <2>6 DEF Claimed, Unseen
  <2>8. JobFits(job[s])'
    BY <1>2, <2>1, <2>7 DEF JobFits, Late, DecideFits
  <2>9. ASSUME NEW q \in Runs PROVE Fits(q)' \/ Excuses(job[s], q)'
    <3>1. CASE q = r
      BY <1>2, <2>1, <3>1 DEF Excuses
    <3>2. CASE q # r
      BY <1>1, <1>3, <2>4, <3>2 DEF Fits
    <3> QED BY <3>1, <3>2
  <2> QED BY <1>4, <2>8, <2>9, OneIsCalm
<1> QED BY <1>5, <1>6, <1>7

\* A Run starts: nothing of it was shown.
LEMMA StartKeepsCalm ==
  ASSUME TypeInv, Alone, Calm, NEW s \in Slots, NEW c \in Conversations, SendStarts(s, c)
  PROVE  Calm'
<1> DEFINE r == NewRun
<1>1. PageInv /\ ServerInv /\ JobIs(job[s]) /\ view \in Views /\ view' = view
  BY DEF TypeInv, JobsInv, SendStarts, page
<1>2. /\ Others(s) /\ job[s].kind = "send" /\ job[s].at = "posted"
      /\ job'[s].kind = "send" /\ job'[s].at = "open" /\ job'[s].run = r
      /\ job'[s].upto = job[s].upto
  BY <1>1, StartsDoes
<1>3. job'[s].upto = 0
  BY <1>1, <1>2 DEF JobIs, SendOK
<1>4. \A t \in Slots \ {s} : job'[t].kind = "none"
  BY <1>2, CalmOne DEF Free, Others
<1>5. r \in Runs /\ home[r] = None
  BY NewRunIsNew DEF SendStarts
<1>6. /\ home' = [home EXCEPT ![r] = c] /\ alive' = alive \cup {c}
      /\ card' = [q \in Runs |-> IF home[q] = c /\ card[q] = "pending" THEN "superseded"
                                 ELSE card[q]]
  BY DEF SendStarts, NewRun
<1> HIDE DEF r
<1>7. home'[r] \in alive' /\ card'[r] = "none"
  <2>1. card[r] = "none"
    BY <1>1, <1>5, ConversationsOK DEF ServerInv, ServerTypeOK, RunOK
  <2> QED BY <1>1, <1>5, <1>6, <2>1 DEF ServerInv, ServerTypeOK
<1>8. view.run # r /\ \A e \in view.seen : e[1] # r
  <2>1. view.run # r
    BY <1>1, <1>5 DEF Views
  <2>2. ASSUME NEW e \in view.seen PROVE e[1] # r
    <3>1. CASE e = Local
      BY <1>5, <3>1, ConversationsOK DEF Local, Runs
    <3>2. CASE e # Local
      BY <1>1, <1>5, <3>2, EventIs DEF Views
    <3> QED BY <3>1, <3>2
  <2> QED BY <2>1, <2>2
<1>9. JobFits(job[s])'
  BY <1>1, <1>2, <1>7, <1>8 DEF JobFits, Late, SendFits
<1>10. \A q \in Runs : Excuses(job[s], q)'
  BY <1>2, <1>3 DEF Excuses
<1> QED BY <1>4, <1>9, <1>10, OneIsCalm

\* A Run goes on with one more event, and its approval with it.
LEMMA OnlyMore ==
  ASSUME ServerInv, NEW r \in Runs, RunPauses(r) \/ RunResumes(r) \/ RunEnds(r)
  PROVE  /\ UNCHANGED <<home, alive, conv, view, job>> /\ Grows
         /\ \A q \in Runs : card[q] = "pending" => card'[q] = "pending"
         /\ \A q \in Runs : card[q] \in {"none", "pending"} => card'[q] \in {"none", "pending"}
         /\ \A q \in Runs : Claimed(q) => Claimed(q)'
         /\ \A q \in Runs : \A i \in DOMAIN log'[q] :
              i \in DOMAIN log[q] \/ i > Len(log[q])
<1>1. UNCHANGED <<home, alive, conv, view, job>>
  BY DEF RunPauses, RunResumes, RunEnds, page
<1>2. Grows
  BY EventsKeepServer
<1>3. PICK type \in LogTypes : log' = [log EXCEPT ![r] = Append(@, type)]
  BY DEF RunPauses, RunResumes, RunEnds, LogTypes
<1>4. /\ \A q \in Runs \ {r} : log'[q] = log[q]
      /\ DOMAIN log[r] = 1..Len(log[r]) /\ DOMAIN log'[r] = 1..(Len(log[r]) + 1)
      /\ Len(log[r]) \in Nat
  BY <1>1, <1>3, OneMore DEF ServerInv
<1>5. \A q \in Runs : \A i \in DOMAIN log'[q] : i \in DOMAIN log[q] \/ i > Len(log[q])
  BY <1>4
<1>6. card \in [Runs -> Cards] /\ row \in [Runs -> Rows]
  BY DEF ServerInv, ServerTypeOK
<1>7. /\ \A q \in Runs \ {r} : card'[q] = card[q] /\ row'[q] = row[q]
      /\ \/ card[r] = "none" /\ card'[r] = "pending"
         \/ card[r] = "claimed" /\ card'[r] = "decided"
         \/ card[r] # "claimed" /\ card'[r] = card[r]
  BY <1>6 DEF RunPauses, RunResumes, RunEnds
<1>8. \A q \in Runs : card[q] \in {"none", "pending"} => card'[q] \in {"none", "pending"}
  BY <1>7
<1>9. \A q \in Runs : card[q] = "pending" => card'[q] = "pending"
  BY <1>7
<1>10. ASSUME NEW q \in Runs, Claimed(q) PROVE Claimed(q)'
  BY <1>1, <1>7, <1>10 DEF Claimed
<1> QED BY <1>1, <1>2, <1>5, <1>8, <1>9, <1>10

LEMMA RunKeepsCalm ==
  ASSUME TypeInv, Calm, NEW r \in Runs, RunPauses(r) \/ RunResumes(r) \/ RunEnds(r)
  PROVE  Calm'
<1>1. ServerInv /\ view \in Views /\ \A t \in Slots : JobIs(job[t])
  BY DEF TypeInv, JobsInv
<1>2. /\ UNCHANGED <<home, alive, conv, view, job>> /\ Grows
      /\ \A q \in Runs : card[q] = "pending" => card'[q] = "pending"
      /\ \A q \in Runs : card[q] \in {"none", "pending"} => card'[q] \in {"none", "pending"}
      /\ \A q \in Runs : Claimed(q) => Claimed(q)'
      /\ \A q \in Runs : \A i \in DOMAIN log'[q] : i \in DOMAIN log[q] \/ i > Len(log[q])
  BY <1>1, OnlyMore
<1>3. \A q \in Runs : /\ DOMAIN log[q] = 1..Len(log[q]) /\ Len(log[q]) \in Nat
                      /\ Len(log[q]) <= Len(log'[q]) /\ Len(log'[q]) \in Nat
                      /\ \A i \in DOMAIN log[q] : log'[q][i] = log[q][i]
  <2>1. \A q \in Runs : log[q] \in Seq(LogTypes) /\ log'[q] \in Seq(LogTypes)
    BY <1>1, EventsKeepServer DEF ServerInv, ServerTypeOK
  <2> QED BY <1>2, <2>1 DEF Grows
<1>4. ASSUME NEW q \in Runs, NEW e \in view.seen, e[1] = q
      PROVE  e[2] \in DOMAIN log[q] /\ log'[e[1]][e[2]] = log[e[1]][e[2]]
  <2>1. e # Local
    BY <1>4, ConversationsOK DEF Local, Runs
  <2>2. e[2] \in DOMAIN log[q]
    BY <1>1, <1>4, <2>1, EventIs DEF Views
  <2> QED BY <1>3, <1>4, <2>2
<1>5. ASSUME NEW q \in Runs, Unseen(q) PROVE Unseen(q)'
  BY <1>2, <1>4, <1>5 DEF Unseen
<1>6. ASSUME NEW t \in Slots, job[t].run \in Runs, job[t].upto \in Nat, Ahead(job[t])
      PROVE  Ahead(job[t])'
  <2> DEFINE j == job[t]
             q == j.run
  <2>1. view.card[q] = "pending" => j.upto <= Len(log[q]) /\ j.upto <= Len(log'[q])
    <3>1. view.card[q] = "pending" => j.upto <= Len(log[q])
      BY <1>6 DEF Ahead
    <3>2. Len(log[q]) \in Nat /\ Len(log'[q]) \in Nat /\ Len(log[q]) <= Len(log'[q]) /\ j.upto \in Nat
      BY <1>3, <1>6
    <3> HIDE DEF q, j
    <3> QED BY <3>1, <3>2
  <2>2. ASSUME NEW i \in DOMAIN log'[q], log'[q][i] = "decided"
        PROVE  /\ <<q, i>> \in view.seen => i <= j.upto
               /\ view.card[q] = "pending" => i > j.upto
    <3>1. CASE i \in DOMAIN log[q]
      <4>1. log[q][i] = "decided"
        BY <1>3, <1>6, <2>2, <3>1
      <4> QED BY <1>6, <3>1, <4>1 DEF Ahead
    <3>2. CASE i \notin DOMAIN log[q]
      <4>1. i > Len(log[q])
        BY <1>2, <1>6, <3>2
      <4>2. <<q, i>> \notin view.seen
        BY <1>4, <1>6, <3>2
      <4>3. Len(log[q]) \in Nat /\ j.upto \in Nat /\ i \in Int
        <5>1. log'[q] \in Seq(LogTypes)
          BY <1>1, <1>6, EventsKeepServer DEF ServerInv, ServerTypeOK
        <5>2. DOMAIN log'[q] = 1..Len(log'[q]) /\ Len(log'[q]) \in Nat
          BY <5>1
        <5> QED BY <1>3, <1>6, <5>2
      <4> QED BY <2>1, <4>1, <4>2, <4>3
    <3> QED BY <3>1, <3>2
  <2> QED BY <1>2, <2>1, <2>2 DEF Ahead
<1>7. ASSUME NEW t \in Slots PROVE JobFits(job[t])'
  <2> DEFINE j == job[t]
  <2>1. JobFits(j) /\ JobIs(j)
    BY <1>1 DEF Calm
  <2>2. CASE j.kind = "restore"
    <3>1. RestoreFits(j) /\ RestoreOK(j)
      BY <2>1, <2>2 DEF JobFits, JobIs
    <3>2. RestoreFits(job[t])'
      BY <1>2, <3>1 DEF RestoreFits, RestoreOK
    <3> QED BY <1>2, <2>2, <3>2 DEF JobFits, Late
  <2>3. CASE j.kind = "decide"
    <3>1. DecideFits(j) /\ j.run \in Runs
      BY <2>1, <2>3 DEF JobFits, JobIs
    <3>2. j.at # "asked" => Claimed(job[t].run)' /\ Unseen(job[t].run)'
      <4> PICK q \in Runs : q = j.run
        BY <3>1
      <4>1. j.at # "asked" => Claimed(q)' /\ Unseen(q)'
        BY <1>2, <1>5, <3>1 DEF DecideFits
      <4> QED BY <1>2, <4>1 DEF Claimed, Unseen
    <3>3. DecideFits(job[t])'
      BY <1>2, <3>1, <3>2 DEF DecideFits
    <3> QED BY <1>2, <2>3, <3>3 DEF JobFits, Late
  <2>4. CASE j.kind = "follow"
    <3>1. FollowFits(j) /\ j.run \in Runs /\ j.upto \in Nat /\ ~Late(j)
      BY <2>1, <2>4 DEF JobFits, JobIs
    <3>2. Claimed(job[t].run)' /\ (j.at = "first" => Unseen(job[t].run)')
      <4> PICK q \in Runs : q = j.run
        BY <3>1
      <4>1. Claimed(q)' /\ (j.at = "first" => Unseen(q)')
        BY <1>2, <1>5, <3>1 DEF FollowFits
      <4> QED BY <1>2, <4>1 DEF Claimed, Unseen
    <3>3. j.at # "first" => Ahead(job[t])'
      BY <1>6, <3>1 DEF FollowFits
    <3>4. FollowFits(job[t])'
      BY <1>2, <3>1, <3>2, <3>3 DEF FollowFits
    <3> QED BY <1>2, <2>4, <3>1, <3>4 DEF JobFits, Late
  <2>5. CASE j.kind = "send"
    <3>1. SendFits(j) /\ SendOK(j)
      BY <2>1, <2>5 DEF JobFits, JobIs
    <3>2. SendFits(job[t])'
      BY <1>2, <3>1 DEF SendFits, SendOK
    <3> QED BY <1>2, <2>5, <3>2 DEF JobFits, Late
  <2>6. CASE j.kind \notin {"restore", "decide", "follow", "send"}
    BY <1>2, <2>1, <2>6 DEF JobFits, Late
  <2> QED BY <2>2, <2>3, <2>4, <2>5, <2>6
<1>8. ASSUME NEW q \in Runs PROVE Fits(q)' \/ \E t \in Slots : Excuses(job[t], q)'
  <2>1. CASE Fits(q)
    BY <1>2, <2>1 DEF Fits
  <2>2. CASE \E t \in Slots : Excuses(job[t], q)
    BY <1>2, <2>2 DEF Excuses
  <2> QED BY <2>1, <2>2 DEF Calm
<1> QED BY <1>7, <1>8 DEF Calm

LEMMA CalmInvHolds == Spec => []CalmInv
<1>1. Init => CalmInv
  <2> SUFFICES ASSUME Init PROVE Calm
    BY DEF CalmInv
  <2>1. \A t \in Slots : job[t].kind = "none"
    BY IdleIs DEF Init
  <2>2. \A r \in Runs : Fits(r)
    BY EmptyIsView DEF Init, Fits
  <2> QED BY <2>1, <2>2 DEF Calm, JobFits, Late
<1>2. TypeInv /\ OneInv /\ CalmInv /\ [Next]_vars => CalmInv'
  <2> SUFFICES ASSUME TypeInv, OneInv, CalmInv, [Next]_vars, hasty' = 0, lost' = 0
               PROVE  Calm'
    BY DEF CalmInv
  <2>1. CASE UserActs
    BY <2>1, UserKeepsCalm
  <2>2. CASE ~UserActs
    <3>1. hasty = 0 /\ lost = 0
      BY <2>2, OnlyUserHastens, LostKept DEF TypeInv, FieldsOK
    <3>2. Alone /\ OneConversation /\ Calm
      BY <3>1 DEF OneInv, CalmInv
    <3>3. CASE UNCHANGED vars
      BY <3>2, <3>3 DEF vars, Calm, Fits, Excuses, JobFits, Late, RestoreFits, DecideFits,
                        FollowFits, SendFits, Claimed, Unseen, Ahead
    <3>4. CASE AtServer
      BY <3>2, <3>4, AnswerKeepsCalm, StartKeepsCalm, RunKeepsCalm DEF AtServer
    <3> QED BY <2>2, <3>2, <3>3, <3>4, OneStep, RestoreKeepsCalm, StreamKeepsCalm, RequestKeepsCalm
  <2> QED BY <2>1, <2>2
<1> QED BY <1>1, <1>2, TypeInvHolds, OneInvHolds, PTL DEF Spec

\* An approval that was decided is not offered again to a user who waited for every
\* answer and got it: not by a stream, a restore or a reload.
THEOREM DecisionIsTakenOnce == Spec => []DecidedIsNotOffered
<1>1. CalmInv => DecidedIsNotOffered
  <2> SUFFICES ASSUME CalmInv, hasty = 0, lost = 0, ~Waits({"decide", "send", "follow", "delete"}),
                      NEW r \in Runs, view.card[r] = "pending"
               PROVE  card[r] = "pending"
    BY DEF DecidedIsNotOffered
  <2>1. \A s \in Slots : ~Excuses(job[s], r)
    BY DEF Waits, Excuses
  <2> QED BY <2>1 DEF CalmInv, Calm, Fits
<1> QED BY <1>1, CalmInvHolds, PTL
=============================================================================
