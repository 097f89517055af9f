------------------------------ MODULE Overview ------------------------------
(***************************************************************************)
(* The two pages that read several lists at once and go on with those that *)
(* arrive: the dashboard and the sidebar and header of the workspace. Data *)
(* is reduced to how old it is: the number of the change it was read after.*)
(* Of the lists that are treated alike one stands for all ("rows"); which  *)
(* agents are online is left out.                                          *)
(***************************************************************************)
EXTENDS Requests

CONSTANTS
  Failed,    \* a request that failed
  MaxNews    \* bound: changes of the backend's data

ASSUME OverviewAssumption == MaxNews \in Nat \ {0}

Parts == {"agents", "rows"}
Open == None     \* not answered yet
NotRead == 0     \* what a page shows of a list before it has read it

VARIABLES
  view,       \* the page that is open
  news,       \* changes of the backend's data
  seen,       \* what the page shows: how old each list is
  fetching,   \* the dashboard's loading flag
  degraded,   \* the warning that some of the data is missing
  removal,    \* what was seen when a conversation began to be deleted or renamed
  crowded     \* a load was made while another, or a deletion, was under way

overviewVars == <<view, news, seen, fetching, degraded, removal, crowded>>

Loading == OnTheirWay({"load"})
Busy == Loading # {} \/ removal # None

\* The requests of a load are made together; the workspace's falls back on
\* what the page showed when it was rendered.
Load(had) == [Asked("load", had) EXCEPT !.data = [p \in Parts |-> Open]]
Empty == [agents |-> NotRead, rows |-> NotRead]

OverviewInit ==
  /\ view \in {"dashboard", "workspace"}
  /\ news = 1
  /\ seen = Empty
  /\ fetching = TRUE /\ degraded = FALSE /\ removal = None /\ crowded = FALSE

-----------------------------------------------------------------------------
Change ==
  /\ news < MaxNews
  /\ news' = news + 1
  /\ UNCHANGED <<calls, view, seen, fetching, degraded, removal, crowded>>

\* A request of a load is answered, or fails.
ServePart(s, p) ==
  /\ Waits(s, "load") /\ calls[s].data[p] = Open
  /\ \E answer \in {news, Failed} : calls' = [calls EXCEPT ![s].data[p] = answer]
  /\ UNCHANGED overviewVars

-----------------------------------------------------------------------------
\* Mutant of OnDashboard: agents that were not read are none.
OnDashboardBlank(values) ==
  [agents |-> IF values.agents = Failed THEN NotRead ELSE values.agents,
   rows   |-> IF values.rows = Failed THEN seen.rows ELSE values.rows]

\* DashboardPage: an update of what is shown when the load settles. (Without
\* the answer of the health check the agents just listed are shown offline.)
OnDashboard(values) ==
  [agents |-> IF values.agents = Failed THEN seen.agents ELSE values.agents,
   rows   |-> IF values.rows = Failed THEN seen.rows ELSE values.rows]

\* resolveWorkspaceRefreshResults: what failed is what the page had when the
\* load was made.
InWorkspace(values, had) ==
  [agents |-> IF values.agents = Failed THEN had.agents ELSE values.agents,
   rows   |-> IF values.rows = Failed THEN had.rows ELSE values.rows]

Settle(s) ==
  LET values == calls[s].data
  IN /\ Waits(s, "load") /\ \A p \in Parts : values[p] # Open
     /\ seen' = IF view = "dashboard" THEN OnDashboard(values)
                ELSE InWorkspace(values, calls[s].arg)
     /\ degraded' = (\E p \in Parts : values[p] = Failed)
     /\ fetching' = FALSE
     /\ Turn(s, Free)
     /\ UNCHANGED <<view, news, removal, crowded>>

-----------------------------------------------------------------------------
StartLoad(had) ==
  /\ \E s \in Slots : IsFree(s) /\ Turn(s, Load(had))
  /\ crowded' = (Busy /\ (crowded \/ Loading # {} \/ had # seen))

\* The dashboard's two buttons; the second, in the warning, can be used while
\* a load is under way.
Refetch ==
  /\ view = "dashboard"
  /\ ~fetching \/ degraded
  /\ StartLoad(seen)
  /\ fetching' = TRUE
  /\ UNCHANGED <<view, news, seen, degraded, removal>>

\* The workspace refreshes when a Run ends or another conversation is opened,
\* and from its warning.
Refetched ==
  /\ view = "workspace"
  /\ StartLoad(seen)
  /\ UNCHANGED <<view, news, seen, fetching, degraded, removal>>

\* A conversation is deleted or renamed; the refresh that follows is the one
\* of the page as it was when that began.
BeginRemoval ==
  /\ view = "workspace" /\ removal = None
  /\ removal' = seen
  /\ UNCHANGED <<calls, view, news, seen, fetching, degraded, crowded>>

RemovalEnds ==
  /\ removal # None
  /\ \/ /\ news < MaxNews /\ news' = news + 1
        /\ StartLoad(removal)
     \/ UNCHANGED <<calls, news, crowded>>
  /\ removal' = None
  /\ UNCHANGED <<view, seen, fetching, degraded>>

OverviewNext ==
  \/ Change \/ Refetch \/ Refetched \/ BeginRemoval \/ RemovalEnds
  \/ \E s \in Slots : Settle(s) \/ \E p \in Parts : ServePart(s, p)

-----------------------------------------------------------------------------
OverviewTypeOK ==
  /\ view \in {"dashboard", "workspace"} /\ news \in 1..MaxNews
  /\ seen \in [Parts -> 0..news]
  /\ removal # None => view = "workspace"

OverviewSpinnersEnd == fetching /\ view = "dashboard" => Loading # {}

\* What a page shows of one list is never replaced by something older, nor by
\* nothing: when other requests of the load failed, when its own did, and when
\* the load follows a deletion. Loads that were under way together may settle
\* in the wrong order.
ShownNeverGoesBack ==
  [][crowded' \/ (\A p \in Parts : seen'[p] >= seen[p])]_overviewVars
=============================================================================
