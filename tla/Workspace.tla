------------------------------ MODULE Workspace ------------------------------
(***************************************************************************)
(* The workspace page of one tab: useRunStream and the handlers of         *)
(* WorkspacePage, with every request they have on its way. The page shows  *)
(* one conversation and one Run; requests are answered in any order, and   *)
(* what an answer does was fixed when its request was made. The backend is *)
(* reduced to what its answers say; RunLifecycle and RunTrace have the     *)
(* rest of it, RunStream the connection of one stream, RunEvents the rest  *)
(* of the view. Modes and the list of conversations are left out.          *)
(*                                                                         *)
(* An aborted stream settles (catch and finally) before anything else      *)
(* happens, since its pending read is rejected at once. A request of a     *)
(* follow for persisted events is not aborted: it delivers its answer.     *)
(***************************************************************************)
EXTENDS Naturals, SequencesExt, FiniteSets

CONSTANTS
  Conversations,  \* conversation ids
  Saved,          \* the conversations of the past: one Run each
  None,           \* no conversation
  NoRef,          \* no stream
  MaxRuns,        \* bound: Runs in all
  Slots,          \* bound: requests on their way at a time
  MaxTrouble      \* bound: answers not waited for, and answers lost

\* No slot stands for the absence of a stream, and no conversation for that of
\* one.
ASSUME NoRefOK == NoRef \notin Slots
ASSUME ConversationsOK ==
  /\ Saved \subseteq Conversations /\ None \notin Conversations
  /\ MaxRuns \in Nat /\ MaxTrouble \in Nat

Runs == 1..MaxRuns
NoRun == 0
Pending == MaxRuns + 1   \* the id given to a Run that was never heard of
Local == <<0, 0>>        \* a local event, numbered MAX_SAFE_INTEGER
Far == 99                \* the cursor it leaves behind

VARIABLES
  home,     \* home[r]: the conversation of Run r, None before it starts
  row,      \* row[r]: its status in the database
  log,      \* log[r]: its events
  card,     \* card[r]: its approval's row
  alive,    \* the conversations that exist
  conv,     \* the conversation the page shows
  url,      \* the one its address names
  view,     \* the reduced state of the Run it shows
  loading,
  ref,      \* abortRef: the slot of the stream that can be aborted
  job,      \* job[s]: the requests on their way
  hasty,    \* how often the user went on while the page waited for an answer
  lost      \* how many answers were lost

server == <<home, row, log, card, alive>>
page == <<conv, url, view, loading, ref>>
vars == <<home, row, log, card, alive,
          conv, url, view, loading, ref, job, hasty, lost>>

EmptyView == [run |-> NoRun, status |-> "none", seen |-> {},
              card |-> [r \in Runs |-> "none"]]
Idle == [kind |-> "none", at |-> "none", run |-> NoRun, conv |-> None,
         old |-> NoRun, upto |-> 0, row |-> "none", card |-> "none",
         shown |-> FALSE]
Restoring(c) == [Idle EXCEPT !.kind = "restore", !.at = "asked", !.conv = c,
                             !.upto = Far, !.card = "unread"]
RunTerminal == {"completed", "cancelled"}

\* The saved conversations have a Run each, which waits for a decision.
Init ==
  /\ home \in [Runs -> Saved \cup {None}]
  /\ \A c \in Saved : \E r \in 1..Cardinality(Saved) : {q \in Runs : home[q] = c} = {r}
  /\ row = [r \in Runs |-> IF home[r] = None THEN "none" ELSE "waiting"]
  /\ log = [r \in Runs |-> IF home[r] = None THEN <<>> ELSE <<"started", "required">>]
  /\ card = [r \in Runs |-> IF home[r] = None THEN "none" ELSE "pending"]
  /\ alive = Saved
  /\ conv = None /\ url = None /\ view = EmptyView /\ loading = FALSE /\ ref = NoRef
  /\ job = [s \in Slots |-> Idle]
  /\ hasty = 0 /\ lost = 0

-----------------------------------------------------------------------------
(***************************************************************************)
(* The view.                                                               *)
(***************************************************************************)

\* Event e, as the Run and the number in its log, is reduced, once. The first
\* event of another Run starts an empty view; any other event is taken into the
\* view as it is.
See(v, e) ==
  LET r == e[1]
      type == log[r][e[2]]
      base == IF type = "started" /\ v.run # r
              THEN EmptyView ELSE v
      seen == [base EXCEPT !.seen = @ \cup {e}]
  IN IF e \in v.seen THEN v
     ELSE CASE type = "started" -> [seen EXCEPT !.run = r, !.status = "running"]
            [] type = "required" ->
                 [seen EXCEPT !.status = "waiting", !.card[r] = "pending"]
            [] type = "decided" ->
                 [seen EXCEPT !.card[r] = IF @ = "none" THEN @ ELSE "decided"]
            [] OTHER -> [seen EXCEPT !.run = r, !.status = type]

Events(r, from, upto) ==
  [i \in 1..(IF upto > from THEN upto - from ELSE 0) |-> <<r, from + i>>]
SeeAll(v, r, from, upto) == FoldLeft(See, v, Events(r, from, upto))

\* Mutant of Restored: the approvals are those of the replayed events.
RestoredFromEvents(r, rowRead, cardRead, upto) ==
  [SeeAll(EmptyView, r, 0, IF r = NoRun THEN 0 ELSE upto)
     EXCEPT !.run = r, !.status = rowRead]

\* Mutant of Restored: the events are replayed over the view that is shown.
RestoredOver(r, rowRead, cardRead, upto) ==
  [SeeAll(view, r, 0, IF r = NoRun THEN 0 ELSE upto)
     EXCEPT !.run = r, !.status = rowRead]

\* The replayed events, then the Run's row and its approval's row over them.
Restored(r, rowRead, cardRead, upto) ==
  IF r = NoRun THEN EmptyView
  ELSE [SeeAll(EmptyView, r, 0, upto) EXCEPT
          !.run = r, !.status = rowRead,
          !.card[r] = CASE cardRead = "none" -> @
                        [] cardRead = "pending" -> "pending"
                        [] OTHER -> "decided"]

\* The cursor of followRun: the greatest sequence number in rawEvents.
Cursor == IF Local \in view.seen THEN Far
          ELSE LET at == {e[2] : e \in view.seen}
               IN IF at = {} THEN 0 ELSE CHOOSE n \in at : \A m \in at : m <= n

\* Mutant of Address: an address that names a conversation is kept.
AddressOnce(c) == IF url = None THEN c ELSE url

\* The address when conversation c is shown.
Address(c) == IF c # None THEN c ELSE url

CanCancel == view.run # NoRun /\ view.status \notin RunTerminal

-----------------------------------------------------------------------------
(***************************************************************************)
(* Requests.                                                               *)
(***************************************************************************)
Free(s) == job[s].kind = "none"
Waits(kinds) == \E s \in Slots : job[s].kind \in kinds

Bounded == hasty' + lost' <= MaxTrouble

\* The user acts while one of the other requests is on its way.
Haste(allowed) ==
  /\ hasty' = IF \E s \in Slots : job[s].kind \notin allowed \cup {"none"}
               THEN hasty + 1 ELSE hasty

\* What is left of a stream that is aborted: of a follow its first request, or
\* a later one if one is out.
AfterAbort(j, late) ==
  IF j.kind = "follow" /\ j.at = "first" THEN [j EXCEPT !.at = "late"]
  ELSE IF j.kind = "follow" /\ late THEN [j EXCEPT !.kind = "poll", !.at = "late"]
  ELSE Idle

\* The jobs when the stream of ref is aborted.
Cut(jobs, late) ==
  IF ref = NoRef THEN jobs ELSE [jobs EXCEPT ![ref] = AfterAbort(@, late)]

\* Mutant of LoadingAfterCut: the aborted stream leaves the composer disabled.
LoadingKept == loading

\* The finally of the aborted stream, unless its first request is still out.
LoadingAfterCut ==
  IF ref = NoRef \/ (job[ref].kind = "follow" /\ job[ref].at = "first")
  THEN loading ELSE FALSE

\* A send that is aborted before its first event has no answer, and a follow
\* that is aborted does not tell how the decision ended.
LostByCut ==
  lost' = IF ref # NoRef /\ (job[ref].kind = "send" => job[ref].upto = 0)
          THEN lost + 1 ELSE lost

-----------------------------------------------------------------------------
(***************************************************************************)
(* What the user does.                                                     *)
(***************************************************************************)
Select(c) ==
  \E s \in Slots :
    /\ Free(s) /\ c \in alive
    /\ job' = [job EXCEPT ![s] = Restoring(c)]
    /\ loading' = TRUE
    /\ Haste({"none"})
    /\ UNCHANGED <<server, conv, url, view, ref, lost>>
    /\ Bounded

\* beginNewConversation, and the address is cleaned.
Fresh(jobs, late) ==
  /\ job' = Cut(jobs, late)
  /\ loading' = LoadingAfterCut
  /\ ref' = NoRef /\ conv' = None /\ url' = None /\ view' = EmptyView

New(late) ==
  /\ Fresh(job, late) /\ LostByCut
  /\ Haste({"send"})
  /\ UNCHANGED server
  /\ Bounded

Send ==
  \E s \in Slots :
    /\ Free(s) /\ ~loading
    /\ job' = [job EXCEPT ![s] = [Idle EXCEPT !.kind = "send", !.at = "posted",
                                              !.conv = conv, !.old = view.run]]
    /\ loading' = TRUE /\ ref' = s
    /\ Haste({"none"})
    /\ UNCHANGED <<server, conv, url, view, lost>>
    /\ Bounded

\* A click on an approval. The cursor of the follow is the one of this moment.
Decide(r) ==
  \E s \in Slots :
    /\ Free(s) /\ view.card[r] = "pending"
    /\ job' = [job EXCEPT ![s] = [Idle EXCEPT !.kind = "decide", !.at = "asked",
                                              !.run = r, !.upto = Cursor]]
    /\ Haste({"none"})
    /\ UNCHANGED <<server, page, lost>>
    /\ Bounded

\* The stop buttons: the stream is aborted, the Run shown is cancelled.
Stop(late) ==
  /\ CanCancel \/ loading
  /\ ~Waits({"cancel"})
  /\ IF view.run = NoRun
     THEN job' = Cut(job, late) /\ loading' = FALSE
     ELSE \E s \in Slots :
            /\ Free(s)
            /\ job' = [Cut(job, late) EXCEPT ![s] =
                         [Idle EXCEPT !.kind = "cancel", !.at = "asked",
                                      !.run = view.run]]
            /\ loading' = LoadingAfterCut
  /\ ref' = NoRef /\ LostByCut
  /\ Haste({"send", "follow"})
  /\ UNCHANGED <<server, conv, url, view>>
  /\ Bounded

Delete(c) ==
  \E s \in Slots :
    /\ Free(s) /\ c \in alive
    /\ job' = [job EXCEPT ![s] = [Idle EXCEPT !.kind = "delete", !.at = "asked",
                                              !.conv = c, !.shown = (conv = c)]]
    /\ Haste({"none"})
    /\ UNCHANGED <<server, page, lost>>
    /\ Bounded

\* The page is loaded again and restores what its address names.
Reload ==
  /\ \E first \in Slots :
       job' = [s \in Slots |->
                 IF url # None /\ s = first THEN Restoring(url) ELSE Idle]
  /\ conv' = None /\ view' = EmptyView /\ ref' = NoRef /\ loading' = (url # None)
  /\ hasty' = IF Waits({"decide", "cancel", "delete", "send"}) THEN 1 ELSE 0
  /\ lost' = 0
  /\ UNCHANGED <<server, url>>
  /\ Bounded

-----------------------------------------------------------------------------
(***************************************************************************)
(* Restoring a conversation.                                               *)
(***************************************************************************)
\* How many events the database has of a Run.
Stored(r) == IF home[r] \in alive THEN Len(log[r]) ELSE 0

LatestRun(c) ==
  LET of == {r \in Runs : home[r] = c}
  IN IF of = {} THEN NoRun ELSE CHOOSE r \in of : \A q \in of : q <= r

\* The conversation is there, and the list of Runs gives its latest Run's row.
RestoreLists(s) ==
  /\ job[s].kind = "restore" /\ job[s].at = "asked"
  /\ job[s].conv \in alive
  /\ LET r == LatestRun(job[s].conv)
     IN job' = [job EXCEPT ![s].at = "listed", ![s].run = r,
                           ![s].row = IF r = NoRun THEN "none" ELSE row[r]]
  /\ UNCHANGED <<server, page, hasty, lost>>

\* Mutant of EventsAfterList: the events are asked for together with the list.
EventsWithList(s) == job[s].at = "asked" /\ LatestRun(job[s].conv) # NoRun

EventsAfterList(s) == job[s].at = "listed" /\ job[s].run # NoRun

\* The two requests for the Run's details: its events, or none on an error ...
RestoreReadsEvents(s, fails) ==
  /\ job[s].kind = "restore" /\ EventsAfterList(s) /\ job[s].upto = Far
  /\ LET r == IF job[s].at = "asked" THEN LatestRun(job[s].conv) ELSE job[s].run
     IN job' = [job EXCEPT ![s].upto = IF fails THEN 0 ELSE Stored(r)]
  /\ lost' = IF fails THEN lost + 1 ELSE lost
  /\ UNCHANGED <<server, page, hasty>>
  /\ Bounded

\* ... and its approvals.
RestoreReadsCard(s) ==
  /\ job[s].kind = "restore" /\ job[s].at = "listed" /\ job[s].run # NoRun
  /\ job[s].card = "unread" /\ home[job[s].run] \in alive
  /\ job' = [job EXCEPT ![s].card = card[job[s].run]]
  /\ UNCHANGED <<server, page, hasty, lost>>

RestoreApplies(s) ==
  LET j == job[s]
  IN /\ j.kind = "restore" /\ j.at = "listed"
     /\ j.run # NoRun => j.upto # Far /\ j.card # "unread"
     /\ conv' = j.conv /\ url' = Address(j.conv)
     /\ view' = Restored(j.run, j.row, j.card, j.upto)
     /\ loading' = FALSE
     /\ job' = [job EXCEPT ![s] = Idle]
     /\ UNCHANGED <<server, ref, hasty, lost>>

RestoreFails(s) ==
  /\ job[s].kind = "restore"
  /\ loading' = FALSE
  /\ job' = [job EXCEPT ![s] = Idle]
  /\ lost' = IF job[s].conv \in alive THEN lost + 1 ELSE lost
  /\ UNCHANGED <<server, conv, url, view, ref, hasty>>
  /\ Bounded

-----------------------------------------------------------------------------
(***************************************************************************)
(* Streams.                                                                *)
(***************************************************************************)

\* The backend starts the Run of a send, in its conversation or in a new one; a
\* Run of that conversation that waits for a decision is superseded, in its rows
\* only.
SendStarts(s, c) ==
  LET r == CHOOSE q \in Runs : home[q] = None /\ \A p \in 1..(q - 1) : home[p] # None
  IN /\ job[s].kind = "send" /\ job[s].at = "posted"
     /\ \E q \in Runs : home[q] = None
     /\ IF job[s].conv = None
        THEN c \notin alive /\ \A q \in Runs : home[q] # c
        ELSE c = job[s].conv /\ c \in alive
     /\ alive' = alive \cup {c}
     /\ home' = [home EXCEPT ![r] = c]
     /\ log' = [log EXCEPT ![r] = <<"started">>]
     /\ row' = [q \in Runs |-> IF q = r THEN "running"
                               ELSE IF home[q] = c /\ card[q] = "pending" THEN "cancelled"
                               ELSE row[q]]
     /\ card' = [q \in Runs |-> IF home[q] = c /\ card[q] = "pending" THEN "superseded"
                                ELSE card[q]]
     /\ job' = [job EXCEPT ![s].at = "open", ![s].run = r]
     /\ UNCHANGED <<page, hasty, lost>>

Streams(s) == job[s].kind \in {"send", "follow"} /\ job[s].at = "open"

\* A send is sent what its producer writes, until the Run waits or is cancelled;
\* a follow is sent the log.
Sendable(j) ==
  IF j.kind = "follow" THEN Len(log[j.run])
  ELSE Cardinality({i \in DOMAIN log[j.run] : log[j.run][i] \in {"started", "required"}})
         + IF card[j.run] = "none" /\ row[j.run] = "completed" THEN 1 ELSE 0

Closes(j) == row[j.run] # "running" \/ (j.kind = "send" /\ card[j.run] # "none")

\* The next event of a stream. That of a send names the conversation when the
\* page shows none; the address follows.
Deliver(s) ==
  LET j == job[s]
  IN /\ Streams(s) /\ home[j.run] \in alive /\ j.upto < Sendable(j)
     /\ view' = See(view, <<j.run, j.upto + 1>>)
     /\ conv' = IF j.kind = "send" /\ conv = None THEN home[j.run] ELSE conv
     /\ url' = Address(conv')
     /\ job' = [job EXCEPT ![s].upto = @ + 1]
     /\ UNCHANGED <<server, loading, ref, hasty, lost>>

\* Mutant of MayEnd: the stream closes with the Run, whatever it has sent.
MayEndEarly(j) == Closes(j)

\* A stream closes when the Run is not running and all of it has been sent, or
\* when it was deleted.
MayEnd(j) == Closes(j) /\ (j.upto >= Sendable(j) \/ home[j.run] \notin alive)

\* Mutant of Settled: a follow that ends stays the stream to abort.
SettledSendOnly(s) ==
  /\ loading' = FALSE
  /\ ref' = IF job[s].kind = "send" THEN NoRef ELSE ref
  /\ job' = [job EXCEPT ![s] = Idle]

\* The finally of a stream: that of a send clears abortRef whoever holds it.
Settled(s) ==
  /\ loading' = FALSE
  /\ ref' = IF job[s].kind = "send" \/ ref = s THEN NoRef ELSE ref
  /\ job' = [job EXCEPT ![s] = Idle]

End(s) ==
  /\ Streams(s) /\ MayEnd(job[s])
  /\ Settled(s)
  /\ UNCHANGED <<server, conv, url, view, hasty, lost>>

\* The stream fails for good. That of a send leaves a local event, with the Run
\* the page showed when the message was sent.
Break(s) ==
  LET j == job[s]
  IN /\ j.kind \in {"send", "follow"}
     /\ Settled(s)
     /\ view' = IF j.kind = "follow" THEN view
                ELSE [view EXCEPT !.run = IF j.old = NoRun THEN Pending ELSE j.old,
                                  !.status = "interrupted", !.seen = @ \cup {Local}]
     /\ lost' = lost + 1
     /\ UNCHANGED <<server, conv, url, hasty>>
     /\ Bounded

\* The first request of a follow is answered; its stream is opened, unless it
\* was aborted meanwhile.
FirstPoll(s) ==
  LET j == job[s]
  IN /\ j.kind = "follow" /\ j.at \in {"first", "late"}
     /\ view' = SeeAll(view, j.run, j.upto, Stored(j.run))
     /\ IF j.at = "first"
        THEN /\ job' = [job EXCEPT ![s].at = "open",
                           ![s].upto = IF @ > Stored(j.run) THEN @ ELSE Stored(j.run)]
             /\ UNCHANGED <<loading, ref>>
        ELSE Settled(s)
     /\ UNCHANGED <<server, conv, url, hasty, lost>>

\* A later request of an aborted follow is answered.
LatePoll(s) ==
  LET j == job[s]
  IN /\ j.kind = "poll"
     /\ view' = SeeAll(view, j.run, j.upto, Stored(j.run))
     /\ job' = [job EXCEPT ![s] = Idle]
     /\ UNCHANGED <<server, conv, url, loading, ref, hasty, lost>>

-----------------------------------------------------------------------------
(***************************************************************************)
(* The other requests: what the backend does, and what the page does then. *)
(***************************************************************************)
\* The decision is claimed. The same decision made twice is answered too; the
\* other one, or one on an approval that was superseded, is refused.
Claims(s) ==
  LET r == job[s].run
  IN /\ job[s].kind = "decide" /\ job[s].at = "asked"
     /\ card[r] \in {"pending", "claimed", "decided"} /\ home[r] \in alive
     /\ IF card[r] = "pending"
        THEN card' = [card EXCEPT ![r] = "claimed"] /\ row' = [row EXCEPT ![r] = "running"]
        ELSE UNCHANGED <<card, row>>
     /\ job' = [job EXCEPT ![s].at = "answered"]
     /\ UNCHANGED <<home, log, alive, page, hasty, lost>>

\* The page takes the decision for accepted.
Mark(r) == IF view.card[r] = "none" THEN view ELSE [view EXCEPT !.card[r] = "executing"]

\* The Run is followed in the place of the request. An aborted send clears the
\* reference to the new stream with its own.
Follow(s, late) ==
  /\ job[s].kind = "decide" /\ job[s].at = "answered"
  /\ view' = Mark(job[s].run)
  /\ job' = [Cut(job, late) EXCEPT ![s] = [@ EXCEPT !.kind = "follow", !.at = "first"]]
  /\ loading' = ~(ref # NoRef /\ job[ref].kind = "send")
  /\ ref' = IF ref # NoRef /\ job[ref].kind = "send" THEN NoRef ELSE s
  /\ UNCHANGED <<server, conv, url, hasty, lost>>

Cancels(s) ==
  LET r == job[s].run
  IN /\ job[s].kind = "cancel" /\ job[s].at = "asked"
     /\ r \in Runs /\ home[r] \in alive
     /\ IF row[r] \in RunTerminal THEN UNCHANGED <<row, log>>
        ELSE /\ row' = [row EXCEPT ![r] = "cancelled"]
             /\ log' = [log EXCEPT ![r] = Append(@, "cancelled")]
     /\ job' = [job EXCEPT ![s].at = "answered"]
     /\ UNCHANGED <<home, card, alive, page, hasty, lost>>

\* The page tells itself that the Run was cancelled.
Cancelled(s) ==
  /\ job[s].kind = "cancel" /\ job[s].at = "answered"
  /\ view' = [view EXCEPT !.run = job[s].run, !.status = "cancelled",
                          !.seen = @ \cup {Local}]
  /\ loading' = FALSE
  /\ job' = [job EXCEPT ![s] = Idle]
  /\ UNCHANGED <<server, conv, url, ref, hasty, lost>>

\* A conversation is deleted with its Runs.
Deletes(s) ==
  /\ job[s].kind = "delete" /\ job[s].at = "asked" /\ job[s].conv \in alive
  /\ alive' = alive \ {job[s].conv}
  /\ row' = [r \in Runs |-> IF home[r] = job[s].conv THEN "none" ELSE row[r]]
  /\ card' = [r \in Runs |-> IF home[r] = job[s].conv THEN "none" ELSE card[r]]
  /\ job' = [job EXCEPT ![s].at = "answered"]
  /\ UNCHANGED <<home, log, page, hasty, lost>>

\* The page begins anew when it showed the conversation at the time of the click.
Deleted(s, late) ==
  LET rest == [job EXCEPT ![s] = Idle]
  IN /\ job[s].kind = "delete" /\ job[s].at = "answered"
     /\ IF job[s].shown THEN Fresh(rest, late) ELSE job' = rest /\ UNCHANGED page
     /\ UNCHANGED <<server, hasty, lost>>

\* What was asked for is not there to be done.
Refused(j) ==
  CASE j.kind = "decide" -> j.at = "asked" /\ card[j.run] # "pending"
    [] j.kind = "cancel" -> j.at = "asked" /\ (j.run = Pending \/ home[j.run] \notin alive)
    [] OTHER -> j.at = "asked" /\ j.conv \notin alive

\* An error, or no answer at all: a message, and nothing else.
NoAnswer(s) ==
  /\ job[s].kind \in {"decide", "cancel", "delete"}
  /\ job' = [job EXCEPT ![s] = Idle]
  /\ lost' = IF Refused(job[s]) THEN lost ELSE lost + 1
  /\ UNCHANGED <<server, page, hasty>>
  /\ Bounded

-----------------------------------------------------------------------------
(***************************************************************************)
(* What Runs do meanwhile. What the job of a decision still does to a Run  *)
(* that was cancelled after it is in RunLifecycle and RunTrace.            *)
(***************************************************************************)
RunPauses(r) ==
  /\ row[r] = "running" /\ card[r] = "none"
  /\ row' = [row EXCEPT ![r] = "waiting"]
  /\ card' = [card EXCEPT ![r] = "pending"]
  /\ log' = [log EXCEPT ![r] = Append(@, "required")]
  /\ UNCHANGED <<home, alive, page, job, hasty, lost>>

RunResumes(r) ==
  /\ card[r] = "claimed" /\ row[r] = "running"
  /\ card' = [card EXCEPT ![r] = "decided"]
  /\ log' = [log EXCEPT ![r] = Append(@, "decided")]
  /\ UNCHANGED <<home, row, alive, page, job, hasty, lost>>

RunEnds(r) ==
  /\ row[r] = "running" /\ card[r] # "claimed"
  /\ row' = [row EXCEPT ![r] = "completed"]
  /\ log' = [log EXCEPT ![r] = Append(@, "completed")]
  /\ UNCHANGED <<home, card, alive, page, job, hasty, lost>>

UserActs ==
  \/ Send \/ Reload
  \/ \E c \in Conversations : Select(c) \/ Delete(c)
  \/ \E r \in Runs : Decide(r)
  \/ \E late \in BOOLEAN : New(late) \/ Stop(late)

PageAnswered ==
  \E s \in Slots :
    \/ RestoreLists(s) \/ RestoreReadsCard(s)
    \/ RestoreApplies(s) \/ RestoreFails(s)
    \/ \E fails \in BOOLEAN : RestoreReadsEvents(s, fails)
    \/ \E c \in Conversations : SendStarts(s, c)
    \/ Deliver(s) \/ End(s) \/ Break(s) \/ FirstPoll(s) \/ LatePoll(s)
    \/ Claims(s) \/ Cancels(s) \/ Cancelled(s) \/ Deletes(s) \/ NoAnswer(s)
    \/ \E late \in BOOLEAN : Follow(s, late) \/ Deleted(s, late)

Next ==
  \/ UserActs \/ PageAnswered
  \/ \E r \in Runs : RunPauses(r) \/ RunResumes(r) \/ RunEnds(r)

Spec == Init /\ [][Next]_vars

-----------------------------------------------------------------------------
(***************************************************************************)
(* Properties.                                                             *)
(***************************************************************************)
TypeOK ==
  /\ home \in [Runs -> Conversations \cup {None}]
  /\ \A r \in Runs : row[r] \in RunTerminal \cup {"none", "running", "waiting"}
  /\ \A r \in Runs : card[r] \in {"none", "pending", "claimed", "decided", "superseded"}
  /\ alive \subseteq Conversations
  /\ conv \in Conversations \cup {None} /\ url \in Conversations \cup {None}
  /\ loading \in BOOLEAN /\ hasty + lost \in 0..MaxTrouble
  /\ ref \in Slots \cup {NoRef}
  /\ ref # NoRef => job[ref].kind \in {"send", "follow"}
  /\ view.run \in Runs \cup {NoRun, Pending}
  /\ \A e \in view.seen \ {Local} : e[2] \in DOMAIN log[e[1]]

\* The composer is disabled only while a request is on its way that will enable
\* it again, in whatever order requests are made, aborted and answered.
ComposerIsFreed == loading => Waits({"restore", "send", "follow"})

\* The address names the conversation that is shown, so that a reload brings it
\* back, also after a stream, a restore or a deletion that was answered late.
UrlNamesConversation == conv # None => url = conv

\* A user who waits for answers sees the events of one conversation: none of a
\* stream that was left behind by beginning anew, and none of a Run of before.
EventsOfOneConversation ==
  hasty = 0 => \A e \in view.seen \ {Local} : home[e[1]] = conv

\* A Run that is shown as completed is shown with the event that completed it, or
\* with no events at all: a restore never puts an older log under a newer row.
CompletedIsExplained ==
  LET of == {e \in view.seen : e[1] = view.run}
  IN hasty = 0 /\ view.status = "completed" /\ of # {} =>
       \E e \in of : log[e[1]][e[2]] = "completed"

\* When the page is up to date, an approval that was decided is not offered again:
\* not by a stream, a restore or a reload. (A follow may replay the event that
\* asked for it, when the restore before read the events and then the approvals.)
DecidedIsNotOffered ==
  hasty = 0 /\ lost = 0 /\ ~Waits({"decide", "send", "follow", "delete"}) =>
    \A r \in Runs : view.card[r] = "pending" => card[r] = "pending"

\* When a stream ends by itself the page shows the Run as the backend has it:
\* its status, and its approval if it waits for one. A local event of before
\* hides the rest of a Run from a follow, and a reader sends no event that is
\* written after it looked.
StreamEndShowsTheRun ==
  [][\A s \in Slots : End(s) /\ hasty = 0 /\ Local \notin view.seen =>
       /\ view'.run = job[s].run
       /\ view'.status = row[job[s].run]
       /\ row[job[s].run] = "waiting" => view'.card[job[s].run] = "pending"]_vars

\* When the page waits for no answer and the latest Run of the conversation it
\* shows is at work, the stop button is there and stops that Run.
StopIsForTheRunAtWork ==
  LET r == LatestRun(conv)
  IN (\A s \in Slots : Free(s)) /\ hasty = 0 /\ conv \in alive /\ r # NoRun
       /\ row[r] = "running" /\ (\E e \in view.seen : e[1] = r)
     => CanCancel /\ view.run = r
=============================================================================
