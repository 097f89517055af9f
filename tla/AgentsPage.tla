----------------------------- MODULE AgentsPage -----------------------------
(***************************************************************************)
(* The agents page: the hook useAgents, the page with its search and its   *)
(* pages of cards, and the dialog that adds an agent. The registry may be  *)
(* changed by others at any time. What a health check says of an agent is  *)
(* left out; agents are known by their address.                            *)
(***************************************************************************)
EXTENDS Requests

CONSTANTS
  Agents,      \* agents that may be registered
  Found,       \* those the search finds
  PageSize,    \* cards on a page
  MaxChanges   \* bound: changes of the registry

\* There may be some agents; the dialog's own reload is not that of the page.
ASSUME AgentsAssumption ==
  /\ IsFiniteSet(Agents) /\ Agents # {} /\ Found \subseteq Agents
  /\ PageSize \in Nat \ {0} /\ MaxChanges \in Nat
  /\ None # "dialog"

VARIABLES
  registry,    \* the registered agents
  changes,     \* how often that changed
  list,        \* the agents shown, and the change they are from
  loading, checking,
  failed,      \* an error is shown
  query,       \* something is searched
  page,
  adding,      \* the dialog is open
  address,     \* what its input holds
  card,        \* the agent whose card it shows
  busy,        \* the dialog's own loading
  own,         \* the last change the page was told it had made
  hasty        \* the last change was asked for while another was under way

agentsVars == <<registry, changes, list, loading, checking, failed, query,
                page, adding, address, card, busy, own, hasty>>
dialog == <<adding, address, card, busy>>
shownAgents == <<list, query, page>>

Filtered == IF query THEN list.agents \cap Found ELSE list.agents
OnPage == Cardinality(Filtered) > (page - 1) * PageSize
Changing == Flying({"list", "delete", "register"})

AgentsInit ==
  /\ registry \in SUBSET Agents
  /\ changes = 0
  /\ list = [agents |-> {}, at |-> 0]
  /\ page = 1 /\ own = 0
  /\ query = FALSE /\ loading = TRUE /\ checking = FALSE /\ failed = FALSE
  /\ adding = FALSE /\ address = None /\ card = None /\ busy = FALSE
  /\ hasty = FALSE

-----------------------------------------------------------------------------
(***************************************************************************)
(* The backend.                                                            *)
(***************************************************************************)
SetRegistry(agents) ==
  /\ changes < MaxChanges
  /\ registry' = agents
  /\ changes' = changes + 1

Elsewhere ==
  /\ \E a \in Agents :
       \/ a \in registry /\ SetRegistry(registry \ {a})
       \/ a \notin registry /\ SetRegistry(registry \cup {a})
  /\ UNCHANGED <<calls, shownAgents, loading, checking, failed, dialog, own, hasty>>

\* An agent that is gone cannot be deleted, nor an empty address registered:
\* such requests fail.
ServeAgents(s) ==
  /\ \/ /\ Waits(s, "list") /\ Answer(s, [agents |-> registry, at |-> changes])
        /\ UNCHANGED <<registry, changes>>
     \/ /\ Waits(s, "delete") /\ calls[s].arg \in registry
        /\ SetRegistry(registry \ {calls[s].arg})
        /\ Answer(s, changes')
     \/ /\ Waits(s, "register") /\ calls[s].arg # None
        /\ SetRegistry(registry \cup {calls[s].arg})
        /\ Answer(s, changes')
  /\ UNCHANGED <<shownAgents, loading, checking, failed, dialog, own, hasty>>

LoseAgents(s) ==
  /\ calls[s].kind \in {"list", "delete", "register"}
  /\ Lose(s)
  /\ UNCHANGED agentsVars

-----------------------------------------------------------------------------
(***************************************************************************)
(* useAgents.                                                              *)
(***************************************************************************)

\* Mutant of CountChanged: only when there are more.
CountGrew(old, new) == Cardinality(new) > Cardinality(old)

\* The effect on the number of agents: when it changes the first page is shown
\* and, unless there is none, health is checked at once.
CountChanged(old, new) == Cardinality(old) # Cardinality(new)

\* Mutant of ListSettled: a failed load leaves the spinner.
ListSettledOnSuccess(s) == ~Succeeded(s) /\ loading

\* load's finally.
ListSettled(s) == FALSE

TakeList(s) ==
  LET new == IF Succeeded(s) THEN calls[s].data ELSE list
      counted == CountChanged(list.agents, new.agents)
      checks == counted /\ new.agents # {}
      closes == calls[s].arg = "dialog"
  IN /\ Settles(s, "list")
     /\ list' = new
     /\ failed' = (failed \/ ~Succeeded(s))
     /\ loading' = ListSettled(s)
     /\ page' = IF counted THEN 1 ELSE page
     /\ checking' = (checking \/ checks)
     /\ Turn(s, IF checks THEN Asked("health", None) ELSE Free)
     /\ adding' = (adding /\ ~closes)
     /\ busy' = (busy /\ ~closes)
     /\ address' = IF closes THEN None ELSE address
     /\ card' = IF closes THEN None ELSE card
     /\ UNCHANGED <<registry, changes, query, own, hasty>>

\* What a health check or a card says does not depend on when it is read; the
\* answer and its arrival are one step.
TakeHealth(s) ==
  /\ Waits(s, "health")
  /\ failed' \in {failed, TRUE}
  /\ checking' = FALSE
  /\ Turn(s, Free)
  /\ UNCHANGED <<registry, changes, list, loading, query, page, dialog, own, hasty>>

\* The button, the drawer's test, or the timer that runs while agents are shown.
CheckHealth ==
  /\ list.agents # {} \/ ~checking
  /\ Make("health", None)
  /\ checking' = TRUE
  /\ UNCHANGED <<registry, changes, shownAgents, loading, failed, dialog, own, hasty>>

-----------------------------------------------------------------------------
(***************************************************************************)
(* The page.                                                               *)
(***************************************************************************)
Search ==
  /\ list.agents # {}
  /\ query' = ~query
  /\ page' = 1
  /\ UNCHANGED <<calls, registry, changes, list, loading, checking, failed,
                 dialog, own, hasty>>

TurnPage ==
  /\ ~loading /\ Filtered # {} /\ Cardinality(list.agents) > PageSize
  /\ \E p \in 1..Cardinality(Filtered) :
       /\ p # page /\ (p - 1) * PageSize < Cardinality(Filtered)
       /\ page' = p
  /\ UNCHANGED <<calls, registry, changes, list, loading, checking, failed,
                 query, dialog, own, hasty>>

Delete(a) ==
  /\ ~loading /\ a \in Filtered /\ OnPage
  /\ Make("delete", a)
  /\ hasty' = (Changing \/ (hasty /\ list.at < own))
  /\ UNCHANGED <<registry, changes, shownAgents, loading, checking, failed, dialog, own>>

\* Mutant of Reload: the page does not ask for the list again.
ReloadNothing(s, then) ==
  /\ Turn(s, Free)
  /\ UNCHANGED <<loading, failed>>

\* load, called when a change was made; the call goes on in the same slot.
Reload(s, then) ==
  /\ Turn(s, Asked("list", then))
  /\ loading' = TRUE /\ failed' = FALSE

TakeDelete(s) ==
  /\ Settles(s, "delete")
  /\ IF Succeeded(s) THEN Reload(s, None) /\ own' = calls[s].data
     ELSE Turn(s, Free) /\ UNCHANGED <<loading, failed, own>>
  /\ UNCHANGED <<registry, changes, shownAgents, checking, dialog, hasty>>

-----------------------------------------------------------------------------
(***************************************************************************)
(* AddAgentModal. Closing it empties it but does not stop its requests.    *)
(***************************************************************************)
OpenDialog ==
  /\ ~adding /\ adding' = TRUE
  /\ UNCHANGED <<calls, registry, changes, shownAgents, loading, checking, failed,
                 address, card, busy, own, hasty>>

CloseDialog ==
  /\ adding
  /\ adding' = FALSE /\ address' = None /\ card' = None
  /\ UNCHANGED <<calls, registry, changes, shownAgents, loading, checking, failed,
                 busy, own, hasty>>

\* Mutant of CardAfterTyping: the card of the address before stays.
CardKept(a) == card

\* A changed address takes its card away.
CardAfterTyping(a) == None

Type(a) ==
  /\ adding /\ ~busy /\ a # address
  /\ address' = a
  /\ card' = CardAfterTyping(a)
  /\ UNCHANGED <<calls, registry, changes, shownAgents, loading, checking, failed,
                 adding, busy, own, hasty>>

FetchCard ==
  /\ adding /\ ~busy /\ address # None
  /\ Make("card", address)
  /\ busy' = TRUE /\ card' = None
  /\ UNCHANGED <<registry, changes, shownAgents, loading, checking, failed,
                 adding, address, own, hasty>>

TakeCard(s) ==
  /\ Waits(s, "card")
  /\ card' \in {calls[s].arg, None}
  /\ busy' = FALSE
  /\ Turn(s, Free)
  /\ UNCHANGED <<registry, changes, shownAgents, loading, checking, failed,
                 adding, address, own, hasty>>

Save ==
  /\ adding /\ ~busy /\ card # None
  /\ Make("register", address)
  /\ busy' = TRUE
  /\ hasty' = (Changing \/ (hasty /\ list.at < own))
  /\ UNCHANGED <<registry, changes, shownAgents, loading, checking, failed,
                 adding, address, card, own>>

TakeRegister(s) ==
  /\ Settles(s, "register")
  /\ IF Succeeded(s)
     THEN Reload(s, "dialog") /\ own' = calls[s].data /\ UNCHANGED busy
     ELSE Turn(s, Free) /\ busy' = FALSE /\ UNCHANGED <<loading, failed, own>>
  /\ UNCHANGED <<registry, changes, shownAgents, checking, adding, address, card, hasty>>

AgentsNext ==
  \/ Elsewhere \/ CheckHealth \/ Search \/ TurnPage
  \/ OpenDialog \/ CloseDialog \/ FetchCard \/ Save
  \/ \E a \in Agents : Delete(a) \/ Type(a)
  \/ \E s \in Slots : ServeAgents(s) \/ LoseAgents(s) \/ TakeList(s) \/ TakeHealth(s)
                      \/ TakeDelete(s) \/ TakeCard(s) \/ TakeRegister(s)

-----------------------------------------------------------------------------
AgentsTypeOK ==
  /\ registry \subseteq Agents
  /\ list \in [agents : SUBSET Agents, at : 0..MaxChanges]
  /\ page \in 1..Cardinality(Agents)
  /\ address \in Agents \cup {None} /\ card \in Agents \cup {None}
  /\ own \in 0..changes

\* A flag that a request is on its way is only set while one is.
AgentsSpinnersEnd ==
  /\ loading => Flying({"list"})
  /\ checking => Flying({"health"})
  /\ busy <=> Flying({"card", "register"})
              \/ \E s \in OnTheirWay({"list"}) : calls[s].arg = "dialog"

\* Once the page has settled its list is not older than its own last change,
\* when that was not asked for while another was under way.
OwnAgentChangesAreShown ==
  ~Changing /\ ~hasty /\ ~failed => list.at >= own

\* While nothing is searched, a page that has agents shows some of them: the
\* number of the page follows the list when it gets shorter.
PageShowsAgents == list.agents # {} /\ ~query => OnPage

\* What the dialog would add is what its card describes (an empty address adds
\* nothing): also when a card is read after the dialog was closed.
CardIsOfTheAddress == adding /\ card # None => address \in {card, None}
=============================================================================
