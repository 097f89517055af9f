------------------------------ MODULE TasksPage ------------------------------
(***************************************************************************)
(* The task explorer: a list of Runs and the Run that the address names,   *)
(* which is read again every three seconds while it is at work. Runs are   *)
(* numbered as they are started, the list begins with the latest. What is  *)
(* shown of a Run is reduced to which it is and whether it is at work.     *)
(***************************************************************************)
EXTENDS Requests

CONSTANT MaxRuns   \* bound: Runs in all

ASSUME TasksAssumption == MaxRuns \in Nat

NoRun == 0
Runs == 1..MaxRuns

VARIABLES
  started,     \* the Runs there are: 1..started
  working,     \* those that are running, planning or wait for an approval
  latest,      \* the first Run of the list shown
  selected,    \* the Run that the address names
  shown,       \* the Run shown, and whether it was at work when it was read
  reading,     \* the loading flag
  broken,      \* an error is shown
  crossed      \* a Run was selected while another was being read

tasksVars == <<started, working, latest, selected, shown, reading, broken, crossed>>
explorer == <<latest, selected, shown, reading, broken, crossed>>

\* A refresh knows the Run of the address when it began; it reads the list,
\* then that Run.
Refresh(run) == Asked("list", run)

TasksInit ==
  /\ started \in 0..MaxRuns
  /\ working \in SUBSET (1..started)
  /\ latest = NoRun
  /\ selected \in 0..started
  /\ shown = [run |-> NoRun, working |-> FALSE]
  /\ reading = TRUE /\ broken = FALSE /\ crossed = FALSE

-----------------------------------------------------------------------------
Start ==
  /\ started < MaxRuns
  /\ started' = started + 1
  /\ working' = working \cup {started + 1}
  /\ UNCHANGED <<calls, explorer>>

End(r) ==
  /\ r \in working
  /\ working' = working \ {r}
  /\ UNCHANGED <<calls, started, explorer>>

ServeTasks(s) ==
  /\ \/ Waits(s, "list") /\ Answer(s, started)
     \/ /\ calls[s].kind \in {"run", "poll"} /\ calls[s].state = "asked"
        /\ Answer(s, [run |-> calls[s].arg, working |-> calls[s].arg \in working])
  /\ UNCHANGED tasksVars

LoseTasks(s) == Lose(s) /\ UNCHANGED tasksVars

-----------------------------------------------------------------------------
Others(s, run) ==
  \E t \in Slots \ {s} : calls[t].kind # "free" /\ calls[t].arg # run

\* The effect on the address: every change of it begins a refresh.
Select(s, run) ==
  /\ selected' = run
  /\ Turn(s, Refresh(run))
  /\ reading' = TRUE /\ broken' = FALSE
  /\ crossed' = IF \A t \in Slots \ {s} : calls[t] = Free THEN FALSE
                ELSE crossed \/ Others(s, run)

\* A Run of the list is clicked, or the page's own link, which names none.
Choose(run) ==
  /\ run \in {NoRun} \cup 1..latest
  /\ run # selected
  /\ \E s \in Slots : IsFree(s) /\ Select(s, run)
  /\ UNCHANGED <<started, working, latest, shown>>

\* The button, or a change of the language.
RefreshAgain ==
  /\ \E s \in Slots : IsFree(s) /\ Select(s, selected)
  /\ UNCHANGED <<started, working, latest, shown>>

\* refresh's catch and finally.
RefreshEnds(s) ==
  /\ Turn(s, Free)
  /\ reading' = FALSE
  /\ broken' = (broken \/ ~Succeeded(s))
  /\ UNCHANGED crossed

\* The list: without a Run in the address its first is put there, whatever the
\* address has become by now.
TakeRuns(s) ==
  LET had == calls[s].arg
      first == calls[s].data
  IN /\ Settles(s, "list")
     /\ latest' = IF Succeeded(s) THEN first ELSE latest
     /\ IF ~Succeeded(s) THEN RefreshEnds(s) /\ UNCHANGED selected
        ELSE IF had # NoRun
        THEN /\ Turn(s, Asked("run", had))
             /\ UNCHANGED <<selected, reading, broken, crossed>>
        ELSE IF first \in {NoRun, selected} THEN RefreshEnds(s) /\ UNCHANGED selected
        ELSE Select(s, first)
     /\ UNCHANGED <<started, working, shown>>

\* loadSelected: what is shown is replaced, whichever Run is selected by now.
TakeRun(s) ==
  /\ Settles(s, "run")
  /\ shown' = IF Succeeded(s) THEN calls[s].data ELSE shown
  /\ RefreshEnds(s)
  /\ UNCHANGED <<started, working, latest, selected>>

\* Mutant of Polled: the Run that is shown is read again.
PolledShown == IF shown.working THEN shown.run ELSE NoRun

\* The Run that the timer reads: the effect that sets it depends on the address
\* and on the status shown, which may be those of two Runs.
Polled == IF shown.working THEN selected ELSE NoRun

Poll ==
  /\ Polled # NoRun
  /\ Make("poll", Polled)
  /\ UNCHANGED tasksVars

TakePoll(s) ==
  /\ Settles(s, "poll")
  /\ shown' = IF Succeeded(s) THEN calls[s].data ELSE shown
  /\ Turn(s, Free)
  /\ UNCHANGED <<started, working, latest, selected, reading, broken, crossed>>

TasksNext ==
  \/ Start \/ RefreshAgain \/ Poll
  \/ \E r \in Runs : End(r)
  \/ \E r \in 0..MaxRuns : Choose(r)
  \/ \E s \in Slots : ServeTasks(s) \/ LoseTasks(s) \/ TakeRuns(s) \/ TakeRun(s)
                      \/ TakePoll(s)

-----------------------------------------------------------------------------
TasksTypeOK ==
  /\ started \in 0..MaxRuns /\ working \subseteq 1..started
  /\ latest \in 0..started /\ selected \in 0..started
  /\ shown \in [run : 0..started, working : BOOLEAN]

TasksSpinnersEnd == reading => Flying({"list", "run"})

\* When nothing is on its way and no timer runs, the page shows the Run that
\* the address names as it ended, unless an error is shown or a Run was
\* selected while another was being read: the answer that comes last stays.
SelectedRunIsShown ==
  AtRest /\ Polled = NoRun /\ selected # NoRun /\ ~broken /\ ~crossed
    => shown = [run |-> selected, working |-> FALSE] /\ selected \notin working
=============================================================================
