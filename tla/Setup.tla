-------------------------------- MODULE Setup --------------------------------
(***************************************************************************)
(* The global settings file, the orchestrator.yaml files, the interactive  *)
(* setup that edits a draft of all of them and the command line's          *)
(* load-edit-save commands (setup/, config/, app/command_handlers/).       *)
(* Nothing is locked: setup and a command may overlap, and each may die or *)
(* fail between two of its writes.                                         *)
(*                                                                         *)
(* Screens are the nested loops of setup/actions.rs; the moving selection  *)
(* of a screen is the choice of the item that a key acts on.               *)
(***************************************************************************)
EXTENDS SetupDraft

CONSTANTS
    Orchs,         \* orchestrator ids; one is "main"
    AgentNames,    \* agent ids that may be typed
    WorkflowNames, \* workflow ids that may be typed
    StepNames,     \* step ids that may be typed
    Templates,     \* the workflow templates offered
    SharedKeys,    \* keys of settings.shared_workspaces
    AccessInputs,  \* values of shared_access that may be typed
    OutputInputs,  \* sets of output keys that may be typed
    Starts         \* what to begin with: the orchestrators of the settings file ({} for no
                   \* file), and how many edits, commands and accidents there may be

\* "none" and "torn" stand for what is no id, in the model only.
ASSUME ConstantsOK ==
    /\ "main" \in Orchs /\ {None, "torn"} \cap Orchs = {}
    /\ Starts \subseteq [configured : SUBSET Orchs, edits : Nat, commands : Nat, crashes : Nat]
    /\ Templates \subseteq {"minimal", "engineering", "product"}
    /\ \A name \in Orchs \cup WorkflowNames
                   \cup {"default", "feature_delivery", "quick_answer", "prd_draft",
                         "release_notes"} : Rank[name] \in Nat

VARIABLES
    settings,  \* the settings file: Absent, Torn or the settings
    yaml,      \* [path -> the orchestrator.yaml there, or NoFile]
    view,      \* the screen setup shows: which, and on which ids
    draft,     \* setup's draft, or NoDraft
    todo,      \* what persist_setup_state still has to write
    cmd,       \* the running command
    outcome,   \* how the last setup ended
    why,       \* history: what happened in this session that may spoil the draft
    causes,    \* history: what happened that may spoil the files
    edits, commands, crashes  \* how many there may still be; a file operation that fails
                              \* counts as a crash

vars == <<settings, yaml, view, draft, todo, cmd, outcome, why, causes, edits, commands, crashes>>
files == <<settings, yaml>>
session == <<view, draft, todo, outcome, why>>

-----------------------------------------------------------------------------
(* Maps: one with a single key, and one with an entry added or replaced.   *)

Only(k, v)    == [x \in {k} |-> v]
With(f, k, v) == [x \in DOMAIN f \cup {k} |-> IF x = k THEN v ELSE f[x]]

-----------------------------------------------------------------------------
(* The files                                                               *)

Absent == [state |-> "absent"]
Torn   == [state |-> "torn"]
NoFile == [id |-> None]
Nothing == [pc |-> "idle"]  \* neither a save nor a command under way
TornFile == [id |-> "torn"]

\* An orchestrator's private workspace: its own directory below workspaces_path,
\* one absolute path, or a relative one.
Workspaces == {"own", "abs", "relative"}

Entry(ws, shared) == [ws |-> ws, shared |-> shared]

Settings(base, orchs, profiles) ==
    [state |-> "ok", base |-> base, orchs |-> orchs, profiles |-> profiles]

\* Settings::validate: a relative private workspace is not looked at.
SettingsValid(s) ==
    /\ s.base = "abs"
    /\ \A o \in DOMAIN s.orchs : s.orchs[o].shared \subseteq SharedKeys
    /\ \A p \in DOMAIN s.profiles : s.profiles[p] \in DOMAIN s.orchs

load_settings(s) == s.state = "ok" /\ SettingsValid(s)

\* resolve_private_workspace succeeds.
Resolves(s, o) == o \in DOMAIN s.orchs /\ s.orchs[o].ws /= "relative"

PathOf(s, o) == IF s.orchs[o].ws = "own" THEN <<"own", o>> ELSE <<"abs", "x">>

Paths == {<<"own", o>> : o \in Orchs} \cup {<<"abs", "x">>}

load_orchestrator_config(s, o) ==
    /\ Resolves(s, o)
    /\ yaml[PathOf(s, o)] /= NoFile
    /\ validate(yaml[PathOf(s, o)], DOMAIN s.orchs, o)

\* reconcile_all_orchestrator_shared_mounts, after the settings were written.
MountsReconcile(s) == \A o \in DOMAIN s.orchs : Resolves(s, o)

\* Two orchestrators of the settings live in one directory.
Collides(s) == \E o, p \in DOMAIN s.orchs :
                   o /= p /\ s.orchs[o].ws = "abs" /\ s.orchs[p].ws = "abs"

\* fs::write of the settings, and what the new contents may lead to later.
WriteSettings(s) ==
    /\ settings' = s
    /\ causes' = causes \cup (IF MountsReconcile(s) THEN {} ELSE {"relative"})
                        \cup (IF Collides(s) THEN {"collision"} ELSE {})
                        \cup (IF cmd /= Nothing /\ view.at \in {"settings", "registry"}
                              THEN {"overlap"} ELSE {})

\* Mutant: the configuration is not validated before it is written.
SavableUnchecked(s, o, c) == Resolves(s, o) /\ PromptsResolve(c)

\* save_orchestrator_config: it is refused, or it writes the file.  The templates of the
\* prompts are written before it, and validation does not look at their paths.
Savable(s, o, c) == validate(c, DOMAIN s.orchs, o) /\ Resolves(s, o) /\ PromptsResolve(c)

\* A configuration that is refused for a prompt.
PromptRefused(c) == IF PromptsResolve(c) THEN {} ELSE {"prompt"}

WriteConfig(s, o, c) == yaml' = [yaml EXCEPT ![PathOf(s, o)] = c]

-----------------------------------------------------------------------------
(* Opening the setup                                                       *)

NoDraft    == [orchs |-> <<>>]
NoWorkflow == <<None, 0>>
Off        == [at |-> "off",  o |-> None, w |-> NoWorkflow, s |-> None, a |-> None]
Root       == [Off EXCEPT !.at = "root"]

infer_workflow_template(c) ==
    IF {"planner", "builder", "reviewer"} \subseteq AgentIds(c) THEN "engineering"
    ELSE IF {"researcher", "writer"} \subseteq AgentIds(c) THEN "product"
    ELSE "minimal"

DefaultDraft ==
    [base |-> "abs", primary |-> "main", template |-> "minimal", existed |-> FALSE,
     orchs |-> Only("main", Entry("own", {})),
     cfgs  |-> Only("main", initial_orchestrator_config("main", "minimal"))]

\* Files are read without validation; a missing one is the minimal template.
LoadedDraft(s) ==
    LET cfgs == [o \in DOMAIN s.orchs |->
                    IF yaml[PathOf(s, o)] /= NoFile THEN yaml[PathOf(s, o)]
                    ELSE initial_orchestrator_config(o, "minimal")]
        first == FirstKey(DOMAIN s.orchs)
    IN  [base |-> s.base, orchs |-> s.orchs, cfgs |-> cfgs, existed |-> TRUE,
         primary  |-> IF DOMAIN s.orchs = {} THEN "main" ELSE first,
         template |-> IF DOMAIN s.orchs = {} THEN "minimal"
                      ELSE infer_workflow_template(cfgs[first])]

\* Every configuration of a draft is valid under its orchestrator's id.
validate_setup_bootstrap(d) ==
    \A o \in DOMAIN d.orchs : validate(d.cfgs[o], DOMAIN d.orchs, o)

\* load_setup_bootstrap gets as far as a draft.
SetupLoads ==
    \/ settings = Absent
    \/ /\ load_settings(settings) /\ MountsReconcile(settings)
       /\ \A o \in DOMAIN settings.orchs : yaml[PathOf(settings, o)] /= TornFile

cmd_setup ==
    /\ view = Off
    /\ SetupLoads
    /\ draft' = IF settings = Absent THEN DefaultDraft ELSE LoadedDraft(settings)
    /\ view' = Root
    /\ outcome' = "open"
    /\ why' = (IF validate_setup_bootstrap(draft') THEN {} ELSE {"files"})
              \cup (IF cmd = Nothing THEN {} ELSE {"command"})
    /\ UNCHANGED <<files, todo, cmd, causes, edits, commands, crashes>>

-----------------------------------------------------------------------------
(* Moving between screens                                                  *)

Go(to) == /\ view' = to
          /\ UNCHANGED <<files, draft, todo, cmd, outcome, why, causes, edits, commands, crashes>>

Cfg == draft.cfgs[view.o]

Parent == CASE view.at = "manager"   -> Root
            [] view.at = "detail"    -> [Off  EXCEPT !.at = "manager"]
            [] view.at = "workflows" -> [view EXCEPT !.at = "detail"]
            [] view.at = "workflow"  -> [view EXCEPT !.at = "workflows", !.w = NoWorkflow]
            [] view.at = "steps"     -> [view EXCEPT !.at = "workflow"]
            [] view.at = "step"      -> [view EXCEPT !.at = "steps", !.s = None]
            [] view.at = "agents"    -> [view EXCEPT !.at = "detail"]
            [] view.at = "agent"     -> [view EXCEPT !.at = "agents", !.a = None]

Back == view.at \notin {"off", "root", "persist", "settings", "registry"} /\ Go(Parent)

ensure_minimum_orchestrator(d) ==
    IF DOMAIN d.orchs /= {} THEN d
    ELSE [d EXCEPT !.orchs = Only("main", Entry("own", {})),
                   !.cfgs  = Only("main", initial_orchestrator_config("main", d.template)),
                   !.primary = "main"]

OpenManager ==
    /\ view.at = "root"
    /\ view' = [view EXCEPT !.at = "manager"]
    /\ draft' = ensure_minimum_orchestrator(draft)
    /\ UNCHANGED <<files, todo, cmd, outcome, why, causes, edits, commands, crashes>>

OpenOrchestrator == \E o \in DOMAIN draft.orchs :
    view.at = "manager" /\ Go([view EXCEPT !.at = "detail", !.o = o])

OpenWorkflows == view.at = "detail" /\ Go([view EXCEPT !.at = "workflows"])
OpenAgents    == view.at = "detail" /\ Go([view EXCEPT !.at = "agents"])

OpenWorkflow == /\ view.at = "workflows"
                /\ \E w \in WorkflowIds(Cfg) : Go([view EXCEPT !.at = "workflow", !.w = w])

OpenStep == /\ view.at = "steps"
            /\ \E s \in StepIds(WorkflowNamed(Cfg, view.w)) :
                   Go([view EXCEPT !.at = "step", !.s = s])

OpenAgent == /\ view.at = "agents"
             /\ \E a \in AgentIds(Cfg) : Go([view EXCEPT !.at = "agent", !.a = a])

\* The session ends and the draft is gone.
End(how) == /\ view' = Off
            /\ draft' = NoDraft
            /\ todo' = Nothing
            /\ outcome' = how

\* An error that the screens pass on with `?` ends the whole setup.
Abort == End("aborted") /\ UNCHANGED <<files, cmd, why, causes, edits, commands, crashes>>

\* The steps screen looks its workflow up and fails when the id is stale.
OpenSteps == /\ view.at = "workflow"
             /\ IF view.w \in WorkflowIds(Cfg) THEN Go([view EXCEPT !.at = "steps"]) ELSE Abort

CancelSetup == /\ view.at = "root"
               /\ End("canceled")
               /\ UNCHANGED <<files, cmd, why, causes, edits, commands, crashes>>

-----------------------------------------------------------------------------
(* Edits                                                                   *)

\* The draft becomes d; `marks` records what may make it impossible to save.
EditDraft(d, marks) ==
    /\ edits > 0
    /\ edits' = edits - 1
    /\ d /= draft
    /\ draft' = d
    /\ why' = why \cup marks
    /\ UNCHANGED <<files, todo, cmd, outcome, causes, commands, crashes>>

\* An edit of the shown orchestrator's configuration: the screen reports a refusal
\* and goes on with whatever the edit left behind.
EditConfig(r, marks) ==
    EditDraft([draft EXCEPT !.cfgs[view.o] = r.cfg],
              marks \cup (IF r.ok THEN {} ELSE {"refused"}))

Stay == view' = view

EditWorkspacePath == \E base \in {"abs", "relative"} :
    view.at = "root" /\ EditDraft([draft EXCEPT !.base = base], {"base"}) /\ Stay

set_default_workflow_template == \E t \in Templates :
    view.at = "manager" /\ EditDraft([draft EXCEPT !.template = t], {}) /\ Stay

set_primary_orchestrator == \E o \in DOMAIN draft.orchs :
    /\ view.at = "manager" \/ (view.at = "detail" /\ view.o = o)
    /\ EditDraft([draft EXCEPT !.primary = o], {}) /\ Stay

add_orchestrator == \E o \in Orchs \ DOMAIN draft.orchs :
    /\ view.at = "manager"
    /\ EditDraft([draft EXCEPT
            !.orchs = With(@, o, Entry("own", {})),
            !.cfgs  = With(@, o, initial_orchestrator_config(o, draft.template)),
            !.primary = o], {})
    /\ Stay

remove_orchestrator == \E o \in DOMAIN draft.orchs :
    LET left == DOMAIN draft.orchs \ {o} IN
    /\ view.at = "manager" /\ left /= {}
    /\ EditDraft([draft EXCEPT !.orchs = [x \in left |-> @[x]],
                               !.cfgs  = [x \in left |-> @[x]],
                               !.primary = IF @ = o THEN FirstKey(left) ELSE @], {"removed"})
    /\ Stay

set_orchestrator_private_workspace == \E ws \in Workspaces :
    view.at = "detail" /\ EditDraft([draft EXCEPT !.orchs[view.o].ws = ws], {}) /\ Stay

set_orchestrator_shared_access == \E keys \in AccessInputs :
    /\ view.at = "detail"
    /\ EditDraft([draft EXCEPT !.orchs[view.o].shared = keys], {"access"}) /\ Stay

\* The template's error, unlike the others, is passed on and ends the setup.
AddStarterWorkflows == \E t \in Templates :
    LET r == apply_workflow_template_to_orchestrator(Cfg, t) IN
    /\ view.at = "detail"
    /\ IF r.ok THEN EditConfig(r, {}) /\ Stay ELSE Abort

\* Offered on three screens, the last for the workflow it shows.
SetDefaultWorkflow ==
    /\ view.at \in {"detail", "workflows", "workflow"}
    /\ \E w \in IF view.at = "workflow" THEN {view.w} ELSE WorkflowIds(Cfg) :
          EditConfig(set_orchestrator_default_workflow(Cfg, w), {})
    /\ Stay

WorkflowManagerEdit ==
    /\ view.at = "workflows"
    /\ \E w \in WorkflowIds(Cfg) \cup {Plain(n) : n \in WorkflowNames} :
          \/ EditConfig(add_workflow(Cfg, w), {})
          \/ EditConfig(remove_workflow(Cfg, w), {})
    /\ Stay

\* Only an accepted rename moves the screen to the new id.
RenameWorkflow == \E n \in WorkflowNames :
    LET r == rename_workflow(Cfg, view.w, Plain(n)) IN
    /\ view.at = "workflow"
    /\ EditConfig(r, {})
    /\ view' = IF r.ok THEN [view EXCEPT !.w = Plain(n)] ELSE view

StepManagerEdit ==
    /\ view.at = "steps"
    /\ \E s \in StepNames \cup StepIds(WorkflowNamed(Cfg, view.w)) :
          \/ EditConfig(add_step(Cfg, view.w, s), {})
          \/ EditConfig(remove_step(Cfg, view.w, s), {})
    /\ Stay

RenameStep == \E n \in StepNames :
    LET r == rename_step(Cfg, view.w, view.s, n) IN
    /\ view.at = "step"
    /\ EditConfig(r, {})
    /\ view' = IF r.ok THEN [view EXCEPT !.s = n] ELSE view

StepDetailEdit ==
    /\ view.at = "step"
    /\ \/ EditConfig(toggle_step_type(Cfg, view.w, view.s), {"type"})
       \/ \E a \in AgentNames \cup AgentIds(Cfg) :
              EditConfig(set_step_agent(Cfg, view.w, view.s, a), {})
       \/ \E field \in DOMAIN NoTargets, target \in StepNames \cup {None} :
              EditConfig(set_step_target(Cfg, view.w, view.s, field, target), {})
       \/ \E prompt \in Prompts : EditConfig(set_step_prompt(Cfg, view.w, view.s, prompt), {})
    /\ Stay

StepContractEdit ==
    /\ view.at = "step"
    /\ \E keys \in OutputInputs :
           \/ EditConfig(set_step_outputs(Cfg, view.w, view.s, keys), {"outputs"})
           \/ EditConfig(set_step_output_files(Cfg, view.w, view.s, keys), {})
    /\ Stay

AgentManagerEdit ==
    /\ view.at = "agents"
    /\ \E a \in AgentNames \cup AgentIds(Cfg) :
           \/ EditConfig(add_agent(Cfg, a), {})
           \/ EditConfig(remove_agent(Cfg, a), {})
    /\ Stay

AgentDetailEdit ==
    /\ view.at = "agent"
    /\ \/ EditConfig(toggle_agent_orchestration_capability(Cfg, view.a), {})
       \/ EditConfig(set_selector_agent(Cfg, view.a), {})
    /\ Stay

-----------------------------------------------------------------------------
(* Saving: persist_setup_state                                             *)

SaveSetup == /\ view.at = "root"
             /\ Go([view EXCEPT !.at = "persist"])

\* A profile `<o>-local` has the id o.
WithPrimaryProfile(profiles, primary) ==
    LET p == IF DOMAIN profiles = {} THEN Only("local-default", primary) ELSE profiles
    IN  IF \E x \in DOMAIN p : p[x] = primary THEN p ELSE With(p, primary, primary)

\* The settings written: those on disk now, with the draft's orchestrators.
Normalized(d) ==
    Settings(d.base, d.orchs,
             WithPrimaryProfile(IF d.existed THEN settings.profiles ELSE <<>>, d.primary))

\* All that validation can find wrong in the draft is found before the first write.
normalize_for_save ==
    LET d == ensure_minimum_orchestrator(draft) IN
    /\ view.at = "persist"
    /\ IF /\ d.existed => load_settings(settings)
          /\ SettingsValid(Normalized(d))
          /\ validate_setup_bootstrap(d)
       THEN /\ draft' = d
            /\ todo' = [pc |-> "settings", s |-> Normalized(d), left |-> DOMAIN d.cfgs]
            /\ view' = [view EXCEPT !.at = "settings"]
            /\ UNCHANGED outcome
       ELSE End("refused")
    /\ UNCHANGED <<files, cmd, why, causes, edits, commands, crashes>>

\* One of the accidents there may be.
Accident == crashes > 0 /\ crashes' = crashes - 1

\* The directory of the workspaces cannot be made, or the settings cannot be read.
PersistFails ==
    /\ view.at = "persist"
    /\ Accident
    /\ End("refused")
    /\ why' = why \cup {"io"}
    /\ UNCHANGED <<files, cmd, causes, edits, commands>>

\* save_settings, its mount step included.
PersistSettings ==
    /\ view.at = "settings"
    /\ WriteSettings(todo.s)
    /\ IF MountsReconcile(todo.s)
       THEN view' = [view EXCEPT !.at = "registry"] /\ UNCHANGED <<draft, todo, outcome, why>>
       ELSE End("half saved") /\ why' = why \cup {"relative"}
    /\ UNCHANGED <<yaml, cmd, edits, commands, crashes>>

\* save_orchestrator_registry: one file after the other, in the order of the ids.
PersistConfig ==
    LET o == FirstKey(todo.left) IN
    /\ view.at = "registry"
    /\ IF Savable(todo.s, o, draft.cfgs[o])
       THEN /\ WriteConfig(todo.s, o, draft.cfgs[o])
            /\ IF todo.left = {o} THEN End("saved")
               ELSE todo' = [todo EXCEPT !.left = @ \ {o}] /\ UNCHANGED <<view, draft, outcome>>
       ELSE End("half saved") /\ UNCHANGED yaml
    /\ causes' = causes \cup PromptRefused(draft.cfgs[o])
    /\ why' = why \cup PromptRefused(draft.cfgs[o])
    /\ UNCHANGED <<settings, cmd, edits, commands, crashes>>

\* A process dies ("crash"), or a directory, a file or a mount cannot be made ("io"): a
\* shared workspace is missing, something else is at the place of its mount, or the disk is
\* full.  The file being written is as it was, torn, or complete when a mount fails.
Break(how, writing, s, o, c) ==
    /\ Accident
    /\ causes' = causes \cup {how}
    /\ IF writing = "settings"
       THEN settings' \in {settings, Torn, s} /\ UNCHANGED yaml
       ELSE /\ \/ UNCHANGED yaml
               \/ /\ Savable(s, o, c)
                  /\ \E new \in {TornFile, c} : WriteConfig(s, o, new)
            /\ UNCHANGED settings

Breaks == {"crash", "io"}

BreakSetup == \E how \in Breaks : LET o == FirstKey(todo.left) IN
    /\ view.at \in {"settings", "registry"}
    /\ Break(how, view.at, todo.s, o, draft.cfgs[o])
    /\ End(IF how = "crash" THEN "crashed" ELSE "half saved")
    /\ why' = why \cup {how}
    /\ UNCHANGED <<cmd, edits, commands>>

-----------------------------------------------------------------------------
(* Commands: load and edit in one step, then the writes one by one         *)

\* The command has loaded the files and will write settings s, configuration c of
\* orchestrator o, or both.
Begin(newSettings, s, o, c) ==
    /\ cmd = Nothing
    /\ load_settings(settings)
    /\ commands > 0
    /\ commands' = commands - 1
    /\ SettingsValid(s)
    /\ cmd' = [pc |-> IF newSettings THEN "settings" ELSE "config", s |-> s, o |-> o, c |-> c]
    /\ why' = IF view = Off THEN why ELSE why \cup {"command"}
    /\ UNCHANGED <<files, view, draft, todo, outcome, causes, edits, crashes>>

Orchestrators == IF settings.state = "ok" THEN DOMAIN settings.orchs ELSE {}

\* Commands that change only the settings.
SettingsCommand(s) == Begin(TRUE, s, None, NoFile)

OrchestratorAdd == \E o \in Orchs \ Orchestrators :
    /\ settings.state = "ok"
    /\ Begin(TRUE, [settings EXCEPT !.orchs = With(@, o, Entry("own", {}))], o,
             initial_orchestrator_config(o, "minimal"))

\* Deleting the file afterwards fails: the id is no longer in the settings.
OrchestratorRemove == \E o \in Orchestrators :
    SettingsCommand([settings EXCEPT !.orchs = [x \in DOMAIN @ \ {o} |-> @[x]]])

\* Mutant: the configuration is not written to the new directory.
MoveWithoutConfig == \E o \in Orchestrators :
    /\ load_orchestrator_config(settings, o)
    /\ SettingsCommand([settings EXCEPT !.orchs[o].ws = "abs"])

SetPrivateWorkspace == \E o \in Orchestrators :
    /\ load_orchestrator_config(settings, o)
    /\ Begin(TRUE, [settings EXCEPT !.orchs[o].ws = "abs"], o, yaml[PathOf(settings, o)])

SharedAccess == \E o \in Orchestrators, k \in SharedKeys :
    \/ SettingsCommand([settings EXCEPT !.orchs[o].shared = @ \cup {k}])
    \/ SettingsCommand([settings EXCEPT !.orchs[o].shared = @ \ {k}])

ProfileAdd == \E p \in Orchs, o \in Orchestrators :
    /\ settings.state = "ok" /\ p \notin DOMAIN settings.profiles
    /\ SettingsCommand([settings EXCEPT !.profiles = With(@, p, o)])

ProfileRemove ==
    /\ settings.state = "ok"
    /\ \E p \in DOMAIN settings.profiles :
          SettingsCommand([settings EXCEPT !.profiles = [x \in DOMAIN @ \ {p} |-> @[x]]])

ProfileSetOrchestrator ==
    /\ settings.state = "ok"
    /\ \E p \in DOMAIN settings.profiles, o \in Orchestrators :
          SettingsCommand([settings EXCEPT !.profiles[p] = o])

\* Commands that change one configuration.
set_selector_agent_command(c) == {[c EXCEPT !.selector = a] : a \in AgentIds(c)}
set_default_workflow_command(c) == {[c EXCEPT !.default = w] : w \in WorkflowIds(c)}

cmd_orchestrator_agent(c) ==
    {add_agent(c, a).cfg : a \in AgentNames}
    \cup {[c EXCEPT !.agents = [x \in AgentIds(c) \ {a} |-> @[x]]] : a \in AgentIds(c)}
    \cup {[c EXCEPT !.agents[a] = FALSE] : a \in AgentIds(c)}

cmd_workflow(c) ==
    {add_workflow(c, Plain(n)).cfg : n \in WorkflowNames}
    \cup {remove_workflow(c, w).cfg : w \in WorkflowIds(c) \ {c.default}}

EditCommand == \E o \in Orchestrators :
    /\ load_orchestrator_config(settings, o)
    /\ LET c == yaml[PathOf(settings, o)] IN
       \E new \in (set_selector_agent_command(c) \cup set_default_workflow_command(c)
                   \cup cmd_orchestrator_agent(c) \cup cmd_workflow(c)) \ {c} :
           Begin(FALSE, settings, o, new)

CommandWritesSettings ==
    /\ cmd.pc = "settings"
    /\ WriteSettings(cmd.s)
    /\ cmd' = IF cmd.c /= NoFile /\ MountsReconcile(cmd.s)
              THEN [cmd EXCEPT !.pc = "config"] ELSE Nothing
    /\ UNCHANGED <<yaml, session, edits, commands, crashes>>

CommandWritesConfig ==
    /\ cmd.pc = "config"
    /\ IF Savable(cmd.s, cmd.o, cmd.c) THEN WriteConfig(cmd.s, cmd.o, cmd.c) ELSE UNCHANGED yaml
    /\ cmd' = Nothing
    /\ causes' = causes \cup PromptRefused(cmd.c)
    /\ UNCHANGED <<settings, session, edits, commands, crashes>>

BreakCommand == \E how \in Breaks :
    /\ cmd /= Nothing
    /\ Break(how, cmd.pc, cmd.s, cmd.o, cmd.c)
    /\ cmd' = Nothing
    /\ UNCHANGED <<session, edits, commands>>

-----------------------------------------------------------------------------
Init == \E start \in Starts :
    /\ settings = IF start.configured = {} THEN Absent
                  ELSE Settings("abs", [o \in start.configured |-> Entry("own", {})],
                                Only("local-default", FirstKey(start.configured)))
    /\ yaml = [p \in Paths |-> IF p[2] \in start.configured
                               THEN initial_orchestrator_config(p[2], "minimal") ELSE NoFile]
    /\ view = Off /\ draft = NoDraft /\ todo = Nothing /\ cmd = Nothing
    /\ outcome = "none" /\ why = {} /\ causes = {}
    /\ edits = start.edits /\ commands = start.commands /\ crashes = start.crashes

\* One disjunction per screen: the keys it answers.
RootScreen      == OpenManager \/ EditWorkspacePath \/ SaveSetup \/ CancelSetup
ManagerScreen   == \/ OpenOrchestrator \/ add_orchestrator \/ remove_orchestrator
                   \/ set_primary_orchestrator \/ set_default_workflow_template
DetailScreen    == \/ OpenWorkflows \/ OpenAgents \/ set_orchestrator_private_workspace
                   \/ set_orchestrator_shared_access \/ SetDefaultWorkflow
                   \/ AddStarterWorkflows
WorkflowsScreen == OpenWorkflow \/ WorkflowManagerEdit
WorkflowScreen  == OpenSteps \/ RenameWorkflow
StepsScreen     == OpenStep \/ StepManagerEdit
StepScreen      == RenameStep \/ StepDetailEdit \/ StepContractEdit
AgentsScreen    == OpenAgent \/ AgentManagerEdit

Screen ==
    \/ RootScreen \/ ManagerScreen \/ DetailScreen \/ WorkflowsScreen \/ WorkflowScreen
    \/ StepsScreen \/ StepScreen \/ AgentsScreen \/ AgentDetailEdit \/ Back

Persist == normalize_for_save \/ PersistFails \/ PersistSettings \/ PersistConfig \/ BreakSetup

Command ==
    \/ OrchestratorAdd \/ OrchestratorRemove \/ SetPrivateWorkspace \/ SharedAccess
    \/ ProfileAdd \/ ProfileRemove \/ ProfileSetOrchestrator \/ EditCommand
    \/ CommandWritesSettings \/ CommandWritesConfig \/ BreakCommand

Next == cmd_setup \/ Screen \/ Persist \/ Command

Spec == Init /\ [][Next]_vars

-----------------------------------------------------------------------------
(* Properties                                                              *)

\* Every variable has its type.
TypeOK ==
    /\ settings = Absent \/ settings = Torn
       \/ /\ settings.state = "ok" /\ DOMAIN settings.orchs \subseteq Orchs
          /\ \A o \in DOMAIN settings.orchs : settings.orchs[o].ws \in Workspaces
    /\ DOMAIN yaml = Paths /\ \A p \in Paths : yaml[p].id \in Orchs \cup {None, "torn"}
    /\ draft = NoDraft \/ (DOMAIN draft.cfgs = DOMAIN draft.orchs
                           /\ draft.primary \in DOMAIN draft.orchs \cup {"main"})
    /\ view.o \in Orchs \cup {None}
    /\ view = Off <=> draft = NoDraft
    /\ edits \in Nat /\ commands \in Nat /\ crashes \in Nat

Whole(p) == yaml[p] \notin {NoFile, TornFile}

\* Whatever state the edits leave the draft in, and however setup and a command
\* overlap, a file that was written completely passes its validation
\* (save_settings and save_orchestrator_config).
DiskConfigsValid ==
    /\ settings.state = "ok" => SettingsValid(settings)
    /\ \A p \in Paths : Whole(p) => validate_setup_invariants(yaml[p])

\* An orchestrator in the settings whose orchestrator.yaml does not load is between
\* the two writes of setup or of a command, or a writer died or failed to make a file, a
\* directory or a mount, or the two overlapped, or a configuration was refused for the path
\* of a prompt after the settings were written, or a private workspace is relative or shared
\* with another orchestrator (save_settings, load_orchestrator_config).
UnloadableHasCause ==
    load_settings(settings) =>
        \A o \in DOMAIN settings.orchs :
            \/ load_orchestrator_config(settings, o)
            \/ view.at = "registry" \/ cmd.pc = "config"
            \/ causes \cap {"crash", "io", "relative", "collision", "overlap", "prompt"} /= {}

\* The user's draft is thrown away by an error only when the files it was read from
\* were invalid already or after one of the edits that skip or ignore validation: a
\* screen ends the setup only on a configuration such an edit spoilt, and the final
\* save is refused only for a field the draft does not check, after a command ran or for
\* want of a directory.  A save that has begun ends half way only for a relative workspace,
\* the path of a prompt, or a file, directory or mount that could not be made.
DraftLostHasCause ==
    /\ outcome = "aborted" => why \cap {"type", "outputs", "refused", "files"} /= {}
    /\ outcome = "refused" =>
          why \cap {"type", "outputs", "refused", "removed", "access", "base",
                    "command", "files", "io"} /= {}
    /\ outcome = "half saved" => why \cap {"relative", "prompt", "io"} /= {}

=============================================================================
