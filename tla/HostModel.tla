------------------------------ MODULE HostModel ------------------------------
(***************************************************************************)
(* The page of the Host's model and the configuration behind it: what was  *)
(* saved, or the environment's. The API key is stored encrypted with a     *)
(* master key of the process, which a restart may change; it never leaves  *)
(* the backend. Provider, base URL and model are one value.                *)
(***************************************************************************)
EXTENDS Requests

CONSTANTS
  Models,     \* what may be configured
  Keys,       \* API keys
  MaxSaves    \* bound: saves and resets the backend carries out

Config == [model : Models, key : Keys \cup {None}]

ASSUME HostModelAssumption == MaxSaves \in Nat /\ None \notin Config

VARIABLES
  environment,  \* the environment's model and key
  saved,        \* the setting stored, None if there is none
  readable,     \* its key can be decrypted with the present master key
  saves,        \* how often the setting was written
  form,         \* what the form holds
  config,       \* the configuration shown
  getting, saving,
  refused,      \* an error is shown
  entered,      \* the key last entered and saved, None since a reset
  mixed         \* a request was made while another was under way

hostVars == <<environment, saved, readable, saves, form, config, getting, saving,
              refused, entered, mixed>>
store == <<environment, saved, readable, saves, entered>>

NotLoaded == [model |-> None, runtime |-> FALSE, keyed |-> FALSE]

HostModelInit ==
  /\ environment \in Config
  /\ saved = None /\ readable = TRUE /\ saves = 0
  /\ form = [model |-> None, key |-> None]
  /\ config = NotLoaded
  /\ getting = TRUE /\ saving = FALSE /\ refused = FALSE
  /\ entered = None /\ mixed = FALSE

-----------------------------------------------------------------------------
(***************************************************************************)
(* HostModelConfigService.                                                 *)
(***************************************************************************)
Resolves == saved = None \/ saved.key = None \/ readable

\* What a new Run of the Host is given.
Resolve ==
  IF saved = None THEN environment
  ELSE [model |-> saved.model,
        key   |-> IF saved.key # None THEN saved.key ELSE environment.key]

Public == [model   |-> Resolve.model,
           runtime |-> saved # None,
           keyed   |-> Resolve.key # None]

\* The answer of a request is the public configuration as it is now; it is an
\* error if the stored key cannot be decrypted.
AnswerConfig(s) ==
  calls' = [calls EXCEPT
    ![s].state = IF Resolves' THEN "answered" ELSE "failed",
    ![s].data = IF Resolves' THEN Public' ELSE None]

\* Mutant of KeyToStore: a save without a key forgets the one stored.
KeyToStoreBlank(key) == key

\* A save without a key keeps the one stored.
KeyToStore(key) ==
  IF key # None THEN key ELSE IF saved = None THEN None ELSE saved.key

Serve(s) ==
  \/ /\ Waits(s, "get")
     /\ UNCHANGED store
     /\ AnswerConfig(s)
  \/ /\ Waits(s, "save") /\ saves < MaxSaves
     /\ LET wanted == calls[s].arg
        IN /\ saved' = [model |-> wanted.model, key |-> KeyToStore(wanted.key)]
           /\ readable' = (readable \/ wanted.key # None)
           /\ entered' = IF wanted.key # None THEN wanted.key ELSE entered
     /\ saves' = saves + 1
     /\ UNCHANGED environment
     /\ AnswerConfig(s)
  \/ /\ Waits(s, "reset") /\ saves < MaxSaves
     /\ saved' = None /\ readable' = TRUE /\ entered' = None
     /\ saves' = saves + 1
     /\ UNCHANGED environment
     /\ AnswerConfig(s)

ServeHostModel(s) ==
  /\ Serve(s)
  /\ UNCHANGED <<form, config, getting, saving, refused, mixed>>

\* The backend is started with another master key, or with the right one again.
Rekey ==
  /\ saved # None /\ saved.key # None
  /\ readable' = ~readable
  /\ UNCHANGED <<calls, environment, saved, saves, entered, form, config, getting,
                 saving, refused, mixed>>

LoseHostModel(s) ==
  /\ calls[s].kind \in {"get", "save", "reset"}
  /\ Lose(s)
  /\ UNCHANGED hostVars

-----------------------------------------------------------------------------
(***************************************************************************)
(* ModelSettingsPage.                                                      *)
(***************************************************************************)
Ask(kind, arg) ==
  /\ Make(kind, arg)
  /\ refused' = FALSE
  /\ mixed' = ~AtRest

EditForm ==
  /\ config # NotLoaded \/ ~getting
  /\ \E typed \in Config : typed # form /\ form' = typed
  /\ UNCHANGED <<calls, store, config, getting, saving, refused, mixed>>

\* The button, or a change of the language.
GetConfig ==
  /\ Ask("get", None)
  /\ getting' = TRUE
  /\ UNCHANGED <<store, form, config, saving>>

SaveConfig ==
  /\ ~saving /\ form.model # None
  /\ Ask("save", form)
  /\ saving' = TRUE
  /\ UNCHANGED <<store, form, config, getting>>

ResetConfig ==
  /\ ~saving /\ config.runtime
  /\ Ask("reset", None)
  /\ saving' = TRUE
  /\ UNCHANGED <<store, form, config, getting>>

\* The form takes over what an answer says, also over what was typed meanwhile.
TakeConfig(s) ==
  LET done == Succeeded(s)
      changed == calls[s].kind # "get"
  IN /\ calls[s].kind \in {"get", "save", "reset"} /\ Settles(s, calls[s].kind)
     /\ config' = IF done THEN calls[s].data ELSE config
     /\ form' = IF done THEN [model |-> config'.model, key |-> None] ELSE form
     /\ refused' = (refused \/ ~done)
     /\ getting' = (getting /\ changed)
     /\ saving' = (saving /\ ~changed)
     /\ Turn(s, Free)
     /\ UNCHANGED <<store, mixed>>

HostModelNext ==
  \/ Rekey \/ EditForm \/ GetConfig \/ SaveConfig \/ ResetConfig
  \/ \E s \in Slots : ServeHostModel(s) \/ LoseHostModel(s) \/ TakeConfig(s)

-----------------------------------------------------------------------------
HostModelTypeOK ==
  /\ saved \in Config \cup {None} /\ saves \in 0..MaxSaves
  /\ form.model \in Models \cup {None}

HostModelSpinnersEnd ==
  /\ getting => Flying({"get"})
  /\ saving <=> Flying({"save", "reset"})

\* When the page has settled without an error it shows the configuration as the
\* backend has it and will give it to the next Run, and the form no key, unless
\* it was edited; requests that were under way together may have crossed.
OwnConfigIsShown ==
  AtRest /\ ~refused /\ ~mixed => config = Public

\* A key that was entered stays the one in use, through saves that leave the
\* field blank, until another is entered or the defaults are restored.
EnteredKeyIsUsed == entered # None => saved # None /\ Resolve.key = entered
=============================================================================
