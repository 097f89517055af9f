------------------------------- MODULE Console -------------------------------
(***************************************************************************)
(* The pages of the console beside the workspace's own, and what they all  *)
(* have around them. The router shows one page at a time and begins it     *)
(* anew, so that a behaviour is the visit of one part, from whatever state *)
(* the backend and the browser's storage are in.                           *)
(***************************************************************************)
EXTENDS AgentsPage, TasksPage, Overview, HostModel, ConnectionTests,
        ConsoleSettings, CommandPalette, EventViews, SSEParser

VARIABLE part   \* the part that is visited

consoleVars == <<part, calls, agentsVars, tasksVars, overviewVars, hostVars, testVars,
                 settingsVars, paletteVars, eventVars, parserVars>>

Visits == {"agents", "tasks", "overview", "model", "tests", "settings", "palette",
           "events", "stream"}

\* What a part asks for when it is shown.
Asks == [
  agents   |-> Asked("list", None),
  tasks    |-> Refresh(selected),
  overview |-> Load(seen),
  model    |-> Asked("get", None),
  tests    |-> Asked("test", "mcp"),
  settings |-> Free,
  palette  |-> Free,
  events   |-> Asked("feed", None),
  stream   |-> Free]

\* A part that is not visited is in one state.
Only(p, state) == part = p \/ state

Init ==
  /\ part \in Visits
  /\ AgentsInit /\ Only("agents", registry = {})
  /\ TasksInit /\ Only("tasks", started = 0)
  /\ OverviewInit /\ Only("overview", view = "dashboard")
  /\ HostModelInit /\ Only("model", environment = [model |-> CHOOSE m \in Models : TRUE, key |-> None])
  /\ ConnectionTestsInit
  /\ SettingsInit /\ Only("settings", storage = Absent)
  /\ PaletteInit /\ Only("palette", there = {})
  /\ EventsInit /\ Only("events", viewed = "all")
  /\ SSEInit /\ Only("stream", records = <<>> /\ ending = <<LF>>)
  /\ \E s \in Slots : calls = [NoCalls EXCEPT ![s] = Asks[part]]

\* The step of one part leaves the others as they are.
VisitAgents == part = "agents" /\ AgentsNext
  /\ UNCHANGED <<part, tasksVars, overviewVars, hostVars, testVars, settingsVars,
                 paletteVars, eventVars, parserVars>>
VisitTasks == part = "tasks" /\ TasksNext
  /\ UNCHANGED <<part, agentsVars, overviewVars, hostVars, testVars, settingsVars,
                 paletteVars, eventVars, parserVars>>
VisitOverview == part = "overview" /\ OverviewNext
  /\ UNCHANGED <<part, agentsVars, tasksVars, hostVars, testVars, settingsVars,
                 paletteVars, eventVars, parserVars>>
VisitModel == part = "model" /\ HostModelNext
  /\ UNCHANGED <<part, agentsVars, tasksVars, overviewVars, testVars, settingsVars,
                 paletteVars, eventVars, parserVars>>
VisitTests == part = "tests" /\ ConnectionTestsNext
  /\ UNCHANGED <<part, agentsVars, tasksVars, overviewVars, hostVars, settingsVars,
                 paletteVars, eventVars, parserVars>>
VisitSettings == part = "settings" /\ SettingsNext
  /\ UNCHANGED <<part, calls, agentsVars, tasksVars, overviewVars, hostVars, testVars,
                 paletteVars, eventVars, parserVars>>
VisitPalette == part = "palette" /\ PaletteNext
  /\ UNCHANGED <<part, agentsVars, tasksVars, overviewVars, hostVars, testVars,
                 settingsVars, eventVars, parserVars>>
VisitEvents == part = "events" /\ EventsNext
  /\ UNCHANGED <<part, agentsVars, tasksVars, overviewVars, hostVars, testVars,
                 settingsVars, paletteVars, parserVars>>
VisitStream == part = "stream" /\ SSENext
  /\ UNCHANGED <<part, calls, agentsVars, tasksVars, overviewVars, hostVars, testVars,
                 settingsVars, paletteVars, eventVars>>

Next == \/ VisitAgents \/ VisitTasks \/ VisitOverview \/ VisitModel \/ VisitTests \/ VisitSettings
        \/ VisitPalette \/ VisitEvents \/ VisitStream

Spec == Init /\ [][Next]_consoleVars

-----------------------------------------------------------------------------
In(p, formula) == part = p => formula

TypeOK ==
  /\ part \in Visits
  /\ In("agents", AgentsTypeOK) /\ In("tasks", TasksTypeOK) /\ In("overview", OverviewTypeOK)
  /\ In("model", HostModelTypeOK) /\ In("tests", ConnectionTestsTypeOK)
  /\ In("settings", SettingsTypeOK) /\ In("palette", PaletteTypeOK)
  /\ In("events", EventsTypeOK) /\ In("stream", SSETypeOK)

\* No page waits for nothing: a flag that shows that it waits is only set while
\* a request is under way that will clear it, however requests fail or cross.
SpinnersEnd ==
  /\ In("agents", AgentsSpinnersEnd) /\ In("tasks", TasksSpinnersEnd)
  /\ In("overview", OverviewSpinnersEnd) /\ In("model", HostModelSpinnersEnd)
  /\ In("tests", ConnectionTestsSpinnersEnd) /\ In("palette", PaletteSpinnersEnd)
  /\ In("events", EventsSpinnersEnd)

\* What the user changed is what the user sees afterwards: agents that were
\* added or deleted, the configuration and the key of the model, the settings.
OwnChangesAreShown ==
  /\ In("agents", OwnAgentChangesAreShown)
  /\ In("model", OwnConfigIsShown /\ EnteredKeyIsUsed)
  /\ In("settings", SettingsSurvive)

\* What is shown answers what is asked now, not what was asked before: the card
\* of the address, the Run that is selected, the test of a target, the commands
\* of this opening of the palette.
AnswersFitTheirQuestion ==
  /\ In("agents", CardIsOfTheAddress)
  /\ In("tasks", SelectedRunIsShown)
  /\ In("tests", TestsAreAnswered)
  /\ In("palette", PaletteIsOfThisOpening)

\* A list shows what it holds: the page of agents that is turned to has some,
\* the palette offers the best commands and marks one of them, each event is
\* listed once, under the latest state.
ListsShowWhatTheyHold ==
  /\ In("agents", PageShowsAgents)
  /\ In("palette", BestAreOffered /\ MarkedIsOffered)
  /\ In("events", EventsAreShownOnce)
=============================================================================
