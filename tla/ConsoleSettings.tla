--------------------------- MODULE ConsoleSettings ---------------------------
(***************************************************************************)
(* The settings of the console: each tab of the browser keeps its own, and *)
(* writes all of them to the browser's storage when one changes. Storage   *)
(* may hold something else, of another version or edited by hand.          *)
(***************************************************************************)
EXTENDS Naturals

CONSTANTS
  Tabs,
  Odd,      \* a value no setting allows
  Absent    \* nothing is stored, or nothing that can be parsed; no tab

Allowed == [
  theme              |-> {"light", "dark"},
  density            |-> {"comfortable", "compact"},
  language           |-> {"zh-CN", "en-US"},
  sidebarCollapsed   |-> BOOLEAN,
  onboardingComplete |-> BOOLEAN]
Fields == DOMAIN Allowed

Default == [
  theme |-> "light", density |-> "comfortable", language |-> "zh-CN",
  sidebarCollapsed |-> FALSE, onboardingComplete |-> FALSE]

Valid == [
  theme : Allowed.theme, density : Allowed.density, language : Allowed.language,
  sidebarCollapsed : BOOLEAN, onboardingComplete : BOOLEAN]

ASSUME SettingsAssumption ==
  Absent \notin Valid /\ \A f \in Fields : Odd \notin Allowed[f]

VARIABLES
  storage,   \* what the browser has stored
  settings,  \* settings[t]: those of tab t, Absent while it is closed
  chosen     \* what the user last saw in the tab used last

settingsVars == <<storage, settings, chosen>>

-----------------------------------------------------------------------------
\* Mutant of normalizeSettings: the field added last was forgotten.
normalizeForgets(value) ==
  [f \in Fields |->
    IF f = "onboardingComplete" \/ value[f] = Odd THEN Default[f] ELSE value[f]]

\* Mutant of normalizeSettings: what is stored is trusted.
normalizeTrusts(value) == value

\* A field with a value that is not allowed becomes its default.
normalizeSettings(value) ==
  [f \in Fields |-> IF value[f] = Odd THEN Default[f] ELSE value[f]]

parseSettings(raw) == IF raw = Absent THEN Default ELSE normalizeSettings(raw)
serializeSettings(value) == normalizeSettings(value)

\* Some fields of what is stored may be odd.
Stored == {[f \in Fields |-> IF f \in odd THEN Odd ELSE base[f]] :
             odd \in SUBSET Fields, base \in {Default, [Default EXCEPT !.theme = "dark"]}}

SettingsInit ==
  /\ storage \in Stored \cup {Absent}
  /\ settings = [t \in Tabs |-> Absent]
  /\ chosen = parseSettings(storage)

-----------------------------------------------------------------------------
\* The effect on the settings of a tab, also when it is opened: they are stored.
Keep(t, new) ==
  /\ settings' = [settings EXCEPT ![t] = new]
  /\ storage' = serializeSettings(new)

OpenTab(t) ==
  /\ settings[t] = Absent
  /\ Keep(t, parseSettings(storage))
  /\ UNCHANGED chosen

CloseTab(t) ==
  /\ settings[t] # Absent
  /\ settings' = [settings EXCEPT ![t] = Absent]
  /\ UNCHANGED <<storage, chosen>>

\* The drawer, the buttons of the top bar, the onboarding panel that is closed.
Update(t, f, v) ==
  /\ settings[t] # Absent /\ v # settings[t][f]
  /\ f = "onboardingComplete" => v
  /\ chosen' = [settings[t] EXCEPT ![f] = v]
  /\ Keep(t, [settings[t] EXCEPT ![f] = v])

ResetSettings(t) ==
  /\ settings[t] # Absent
  /\ chosen' = Default
  /\ Keep(t, Default)

SettingsNext ==
  \E t \in Tabs :
    \/ OpenTab(t) \/ CloseTab(t) \/ ResetSettings(t)
    \/ \E f \in Fields : \E v \in Allowed[f] : Update(t, f, v)

-----------------------------------------------------------------------------
SettingsTypeOK ==
  /\ \A t \in Tabs : settings[t] # Absent =>
       \A f \in Fields : settings[t][f] \in Allowed[f]
  /\ \A f \in Fields : chosen[f] \in Allowed[f]

\* A tab that is opened shows what the user last saw in the tab used last, all
\* of it, whatever other tabs were opened and closed since: nothing of it is
\* lost on the way through the storage.
SettingsSurvive == parseSettings(storage) = chosen
=============================================================================
