----------------------------- MODULE EventViews -----------------------------
(***************************************************************************)
(* The page of the execution events: what the backend's feed holds is      *)
(* filtered, grouped by conversation and Run, and shown as cards with a    *)
(* timeline each. An event is its conversation, its Run (events of the     *)
(* time before there were Runs have none) and its type; its place in the   *)
(* log stands for its time. The tasks and tools of a card are in RunTrace, *)
(* the names and modes that the lists of agents and Runs add are left out. *)
(***************************************************************************)
EXTENDS Requests, Arrays, SequencesExt

CONSTANTS
  Conversations,
  MultiAgent,     \* those of type "multi"
  RunsOf,         \* RunsOf[c]: the Runs of conversation c
  MaxEvents       \* bound: events of the log

ASSUME EventViewsAssumption == MaxEvents \in Nat /\ MultiAgent \subseteq Conversations

VARIABLES
  log,        \* the events of the backend, the first first
  events,     \* what the page has read, the latest first
  waiting,    \* the loading flag
  alert,      \* an error is shown
  filter,     \* the type and the state that are wanted
  viewed      \* the view of the timelines; it is kept in the browser's storage

eventVars == <<log, events, waiting, alert, filter, viewed>>

EventTypes == {"tool.called", "task.failed", "run.completed"}
TypeOf(e) == IF e.conversation \in MultiAgent THEN "multi" ELSE "single"
StateOf(e) == CASE e.type = "task.failed" -> "failed"
                [] e.type = "run.completed" -> "completed"
                [] OTHER -> "working"

\* Of the types and of the states that can be wanted one stands for all.
Filter == [type |-> {"all", "multi"}, state |-> {"all", "failed"}]
Views == {"summary", "all", "errors", "tools"}

EventsInit ==
  /\ log = <<>> /\ events = <<>>
  /\ waiting = TRUE /\ alert = FALSE
  /\ filter = [type |-> "all", state |-> "all"]
  /\ viewed \in Views

-----------------------------------------------------------------------------
Emit(c, r, type) ==
  /\ Len(log) < MaxEvents
  /\ log' = Append(log, [conversation |-> c, run |-> r, type |-> type, at |-> Len(log) + 1])
  /\ UNCHANGED <<calls, events, waiting, alert, filter, viewed>>

ServeEvents(s) == Waits(s, "feed") /\ Answer(s, Reverse(log)) /\ UNCHANGED eventVars

LoseEvents(s) == calls[s].kind = "feed" /\ Lose(s) /\ UNCHANGED eventVars

ReadEvents ==
  /\ ~waiting
  /\ Make("feed", None)
  /\ waiting' = TRUE /\ alert' = FALSE
  /\ UNCHANGED <<log, events, filter, viewed>>

TakeEvents(s) ==
  /\ Settles(s, "feed")
  /\ events' = IF Succeeded(s) THEN calls[s].data ELSE events
  /\ alert' = ~Succeeded(s)
  /\ waiting' = FALSE
  /\ Turn(s, Free)
  /\ UNCHANGED <<log, filter, viewed>>

FilterBy(field, wanted) ==
  /\ wanted # filter[field] /\ filter' = [filter EXCEPT ![field] = wanted]
  /\ UNCHANGED <<calls, log, events, waiting, alert, viewed>>

View(v) ==
  /\ v # viewed /\ viewed' = v
  /\ UNCHANGED <<calls, log, events, waiting, alert, filter>>

EventsNext ==
  \/ ReadEvents
  \/ \E c \in Conversations : \E r \in RunsOf[c] \cup {None} :
       \E type \in EventTypes : Emit(c, r, type)
  \/ \E field \in DOMAIN Filter : \E wanted \in Filter[field] : FilterBy(field, wanted)
  \/ \E v \in Views : View(v)
  \/ \E s \in Slots : ServeEvents(s) \/ LoseEvents(s) \/ TakeEvents(s)

-----------------------------------------------------------------------------
filterEvents(all) ==
  LET wanted(e) == filter.type \in {"all", TypeOf(e)} /\ filter.state \in {"all", StateOf(e)}
  IN Kept(all, {e \in Range(all) : wanted(e)})

filterEventsByView(all) ==
  LET allowed == CASE viewed = "errors" -> {"task.failed"}
                   [] viewed = "tools" -> {"tool.called"}
                   [] viewed = "summary" -> {"task.failed", "run.completed"}
                   [] OTHER -> EventTypes
  IN Kept(all, {e \in Range(all) : e.type \in allowed})

FilteredEvents == filterEvents(events)

\* Mutant of Ordered: the events are taken as they arrive.
OrderedAsRead(all) == all

\* The feed has the latest event first, the groups are built from the first on.
Ordered(all) ==
  LET places == DOMAIN all
  IN Arranged(all, places, {p \in places \X places : all[p[1]].at < all[p[2]].at})

\* Mutant of CardOf: an event without a Run is on no card.
CardOfRuns(e) == IF e.run = None THEN <<None, None>> ELSE <<e.conversation, e.run>>

\* The card of an event: its Run's, or that of the events of its conversation
\* that have none.
CardOf(e) == <<e.conversation, e.run>>

\* The cards of a conversation with their events, and the status they show.
Cards(c) == {CardOf(e) : e \in Range(FilteredEvents)} \cap ({c} \X (RunsOf[c] \cup {None}))
CardEvents(card) ==
  LET all == FilteredEvents
  IN Ordered(Kept(all, {e \in Range(all) : CardOf(e) = card}))
CardStatus(card) == StateOf(Last(CardEvents(card)))

ConversationEvents(c) ==
  LET all == FilteredEvents
  IN Ordered(Kept(all, {e \in Range(all) : e.conversation = c}))

\* Conversations with the latest event first, their cards with the latest start.
LatestFirst(all) == Sorted(all, {p \in all \X all : p[1].at > p[2].at})
ShownConversations ==
  LET ends == {Last(ConversationEvents(c)) : c \in {e.conversation : e \in Range(FilteredEvents)}}
      order == LatestFirst(ends)
  IN [n \in DOMAIN order |-> order[n].conversation]
ShownCards(c) ==
  LET starts == {CardEvents(card)[1] : card \in Cards(c)}
      order == LatestFirst(starts)
  IN [n \in DOMAIN order |-> CardOf(order[n])]

\* What the timelines of all cards hold, and the number the page counts.
Listed ==
  LET timelines(c) ==
        LET cards == ShownCards(c)
        IN FlattenSeq([k \in DOMAIN cards |-> filterEventsByView(CardEvents(cards[k]))])
      conversations == ShownConversations
  IN FlattenSeq([i \in DOMAIN conversations |-> timelines(conversations[i])])
Counted == Len(filterEventsByView(FilteredEvents))

-----------------------------------------------------------------------------
EventsTypeOK ==
  /\ Len(log) <= MaxEvents /\ Len(events) <= Len(log)
  /\ filter.type \in Filter.type /\ filter.state \in Filter.state /\ viewed \in Views

EventsSpinnersEnd == waiting <=> Flying({"feed"})

\* Each event that passes the filters and the view is listed once, on one card,
\* so that the page counts what it lists; the conversation that had the latest
\* event comes first; and the status on a card is that of the Run's latest
\* event, unless events are filtered by their own state.
EventsAreShownOnce ==
  LET all == FilteredEvents
      list == Listed
  IN /\ Len(list) = Counted
     /\ Range(filterEventsByView(all)) = Range(list)
     /\ all # <<>> => ShownConversations[1] = all[1].conversation
     /\ filter.state = "all" =>
          \A i \in DOMAIN events :
            /\ \E e \in Range(all) : CardOf(e) = CardOf(events[i])
            /\ \A j \in 1..i - 1 : CardOf(events[j]) # CardOf(events[i])
            => CardStatus(CardOf(events[i])) = StateOf(events[i])
=============================================================================
