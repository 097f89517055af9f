------------------------------ MODULE EventFeed ------------------------------
(***************************************************************************)
(* What a tab that follows a Run is promised: from the position where it   *)
(* took up the log, it is shown every event, in the order of the log, and  *)
(* its position never moves back. How the events get to it (a connection,  *)
(* a reconnection, a poll) does not matter here.                           *)
(***************************************************************************)
EXTENDS Naturals

VARIABLES
  end,        \* the sequence number of the last persisted event
  shown,      \* the events the tab has applied
  position,   \* everything after the start of the follow and up to here is shown
  following   \* a follow is going on

vars == <<end, shown, position, following>>

Init ==
  /\ end = 0
  /\ shown = {}
  /\ position = 0
  /\ following = FALSE

Persist ==
  /\ end' = end + 1
  /\ UNCHANGED <<shown, position, following>>

\* Without a follow the tab sees what its own request produces, which need not
\* be everything.
Glimpse ==
  /\ ~following
  /\ shown' \subseteq 1..end
  /\ shown \subseteq shown'
  /\ UNCHANGED <<end, position, following>>

Follow ==
  /\ ~following
  /\ position' \in Nat
  /\ following' = TRUE
  /\ UNCHANGED <<end, shown>>

\* The next events, in one go and without leaving one out.
Show ==
  /\ position' \in (position + 1)..end
  /\ shown' = shown \cup (position + 1)..position'
  /\ UNCHANGED <<end, following>>

Stop ==
  /\ following' = FALSE
  /\ UNCHANGED <<end, shown, position>>

Next == Persist \/ Glimpse \/ Follow \/ Show \/ Stop

Spec == Init /\ [][Next]_vars
=============================================================================
