------------------------------ MODULE SetupDraft ------------------------------
(***************************************************************************)
(* An orchestrator's configuration and the edits the setup screen applies  *)
(* to its draft of it (config/setup_draft.rs, config/orchestrator_file.rs, *)
(* templates/).  An edit is an operator from a configuration to a result   *)
(* [ok, cfg].  Most edits change the configuration first and validate it   *)
(* afterwards, so that a refused edit may have changed the draft.          *)
(*                                                                         *)
(* Kept of a configuration: its id, agents (id -> may orchestrate),        *)
(* selector agent, workflows and steps in order, the default workflow, and *)
(* of a step its agent, type, prompt, output contract and transition       *)
(* targets.  Numeric fields, models and descriptions are left out: their   *)
(* setters refuse what validation refuses and touch nothing else.          *)
(***************************************************************************)
EXTENDS Naturals, Sequences, FiniteSets, SequencesExt

CONSTANT Rank  \* [name -> Nat]: the alphabetical order of identifiers

None == "none"

\* A workflow id is a name and a number: <<"x", 1>> is `x`, <<"x", 2>> is `x_2`.
Plain(name) == <<name, 1>>

Ok(cfg)      == [ok |-> TRUE,  cfg |-> cfg]
Refused(cfg) == [ok |-> FALSE, cfg |-> cfg]

\* The first key of a BTreeMap.
FirstKey(S) == CHOOSE x \in S : \A y \in S : Rank[x] <= Rank[y]

WorkflowIds(cfg) == {cfg.workflows[i].id : i \in DOMAIN cfg.workflows}
StepIds(wf)      == {wf.steps[i].id : i \in DOMAIN wf.steps}
AgentIds(cfg)    == DOMAIN cfg.agents

\* The entries of seq at some positions, in the order given by pairs of positions.
InOrder(seq, at, order) ==
    LET Place(i) == Cardinality({j \in at : <<j, i>> \in order})
    IN  [k \in 1 .. Cardinality(at) |-> seq[CHOOSE i \in at : Place(i) = k]]

\* Vec::retain of the entries with another id.
Without(seq, id) ==
    LET at == {i \in DOMAIN seq : seq[i].id /= id}
    IN  InOrder(seq, at, {p \in at \X at : p[1] <= p[2]})

-----------------------------------------------------------------------------
(* Defaults and templates                                                  *)

default_step_output_contract(type) ==
    IF type = "agent_review" THEN {"decision", "summary", "feedback"}
                             ELSE {"summary", "artifact"}

default_step_output_priority(type) ==
    IF type = "agent_review" THEN {"summary"} ELSE {"artifact", "summary"}

NoTargets == [next |-> None, on_approve |-> None, on_reject |-> None]

\* A step's prompt: text or a template below the prompts directory, or a template path
\* that is absolute or leads out of it.
Prompts == {"inside", "outside"}

workflow_step(id, type, agent, targets) ==
    [id |-> id, type |-> type, agent |-> agent, targets |-> targets, prompt |-> "inside",
     outputs  |-> default_step_output_contract(type),
     files    |-> default_step_output_contract(type),
     priority |-> default_step_output_priority(type)]

Task(id, agent, next) ==
    workflow_step(id, "agent_task", agent, [NoTargets EXCEPT !.next = next])

Review(id, agent, approve, reject) ==
    workflow_step(id, "agent_review", agent,
                  [NoTargets EXCEPT !.on_approve = approve, !.on_reject = reject])

\* The decomposition step of `feature_delivery` has an output contract of its own.
TaskDecompose ==
    [Task("task_decompose", "planner", "implement") EXCEPT
        !.outputs = {"summary", "task_list"}, !.files = {"summary", "task_list"},
        !.priority = {"task_list", "summary"}]

feature_delivery ==
    [id |-> Plain("feature_delivery"),
     steps |-> << Task("plan", "planner", "plan_review"),
                  Review("plan_review", "reviewer", "task_decompose", "plan"),
                  TaskDecompose,
                  Task("implement", "builder", "review"),
                  Review("review", "reviewer", "task_loop_gate", "implement"),
                  Review("task_loop_gate", "reviewer", "implement", "done"),
                  Task("done", "planner", None) >>]

prd_draft ==
    [id |-> Plain("prd_draft"),
     steps |-> << Task("research", "researcher", "draft"), Task("draft", "writer", None) >>]

OneStep(name, step, agent) == [id |-> Plain(name), steps |-> << Task(step, agent, None) >>]

template_agents(template) ==
    CASE template = "minimal"     -> {}
      [] template = "engineering" -> {"planner", "builder", "reviewer"}
      [] template = "product"     -> {"researcher", "writer"}

template_workflows(template) ==
    CASE template = "minimal"     -> << OneStep("default", "step_1", "default") >>
      [] template = "engineering" -> << feature_delivery,
                                        OneStep("quick_answer", "answer", "planner") >>
      [] template = "product"     -> << prd_draft,
                                        OneStep("release_notes", "compose", "writer") >>

\* The first workflow of a template is its default workflow.
initial_orchestrator_config(id, template) ==
    [id        |-> id,
     selector  |-> "default",
     default   |-> template_workflows(template)[1].id,
     agents    |-> [a \in {"default"} \cup template_agents(template) |-> a = "default"],
     workflows |-> template_workflows(template)]

-----------------------------------------------------------------------------
(* Validation                                                              *)

StepValid(cfg, step) ==
    /\ step.agent \in AgentIds(cfg)
    /\ "summary" \in step.outputs
    /\ step.outputs \subseteq step.files
    /\ step.priority /= {}
    /\ step.priority \subseteq step.outputs

WorkflowValid(cfg, wf) ==
    /\ wf.steps /= <<>>
    /\ IsInjective([i \in DOMAIN wf.steps |-> wf.steps[i].id])
    /\ \A i \in DOMAIN wf.steps : StepValid(cfg, wf.steps[i])

validate_setup_invariants(cfg) ==
    /\ cfg.selector \in AgentIds(cfg)
    /\ cfg.agents[cfg.selector]
    /\ IsInjective([i \in DOMAIN cfg.workflows |-> cfg.workflows[i].id])
    /\ cfg.default \in WorkflowIds(cfg)
    /\ \A i \in DOMAIN cfg.workflows : WorkflowValid(cfg, cfg.workflows[i])

\* OrchestratorConfig::validate against the orchestrators the settings list.
validate(cfg, orchestrators, id) ==
    /\ cfg.id = id
    /\ validate_setup_invariants(cfg)
    /\ id \in orchestrators

\* What most edits end with: the changed configuration stays, only the answer differs.
Validated(cfg) == [ok |-> validate_setup_invariants(cfg), cfg |-> cfg]

-----------------------------------------------------------------------------
(* Agents                                                                  *)

add_agent(cfg, a) ==
    IF a \in AgentIds(cfg) THEN Refused(cfg)
    ELSE Validated([cfg EXCEPT !.agents =
                       [x \in AgentIds(cfg) \cup {a} |-> x /= a /\ cfg.agents[x]]])

\* The next agent in order becomes selector, whether or not it may orchestrate.
remove_agent(cfg, a) ==
    LET left == AgentIds(cfg) \ {a} IN
    IF a \notin AgentIds(cfg) \/ left = {} THEN Refused(cfg)
    ELSE Validated([cfg EXCEPT !.agents = [x \in left |-> cfg.agents[x]],
                               !.selector = IF @ = a THEN FirstKey(left) ELSE @])

\* Mutant: the selector's capability can be taken away.
ToggleAnyCapability(cfg, a) ==
    IF a \notin AgentIds(cfg) THEN Refused(cfg) ELSE Ok([cfg EXCEPT !.agents[a] = ~@])

toggle_agent_orchestration_capability(cfg, a) ==
    IF a \notin AgentIds(cfg) \/ (a = cfg.selector /\ cfg.agents[a]) THEN Refused(cfg)
    ELSE Ok([cfg EXCEPT !.agents[a] = ~@])

set_selector_agent(cfg, a) ==
    IF a \notin AgentIds(cfg) THEN Refused(cfg)
    ELSE Ok([cfg EXCEPT !.selector = a, !.agents[a] = TRUE])

-----------------------------------------------------------------------------
(* Workflows                                                               *)

set_orchestrator_default_workflow(cfg, w) ==
    IF w \notin WorkflowIds(cfg) THEN Refused(cfg)
    ELSE Validated([cfg EXCEPT !.default = w])

NewWorkflow(cfg, w) == [id |-> w, steps |-> << Task("step_1", cfg.selector, None) >>]

add_workflow(cfg, w) ==
    IF w \in WorkflowIds(cfg) THEN Refused(cfg)
    ELSE Validated([cfg EXCEPT !.workflows = Append(@, NewWorkflow(cfg, w))])

remove_workflow(cfg, w) ==
    LET left == Without(cfg.workflows, w) IN
    IF w \notin WorkflowIds(cfg) \/ left = <<>> THEN Refused(cfg)
    ELSE Validated([cfg EXCEPT !.workflows = left,
                               !.default = IF @ = w THEN left[1].id ELSE @])

rename_workflow(cfg, w, next) ==
    IF w \notin WorkflowIds(cfg) \/ next \in WorkflowIds(cfg) \ {w} THEN Refused(cfg)
    ELSE Validated([cfg EXCEPT
             !.workflows = [i \in DOMAIN @ |-> IF @[i].id = w THEN [@[i] EXCEPT !.id = next]
                                                              ELSE @[i]],
             !.default = IF @ = w THEN next ELSE @])

unique_workflow_id(used, id) ==
    LET free == {n \in 1 .. Len(used) + 1 : <<id[1], n>> \notin ToSet(used)}
    IN  <<id[1], CHOOSE n \in free : \A m \in free : n <= m>>

\* The order of workflow ids in a BTreeMap.
IdBefore(x, y) == \/ Rank[x[1]] < Rank[y[1]]
                  \/ Rank[x[1]] = Rank[y[1]] /\ x[2] < y[2]

\* BTreeMap::into_values: the workflows by id.
ById(workflows) ==
    LET at == DOMAIN workflows
        id(i) == workflows[i].id
    IN  InOrder(workflows, at,
                {p \in at \X at : \/ IdBefore(id(p[1]), id(p[2]))
                                  \/ ~IdBefore(id(p[2]), id(p[1])) /\ p[1] <= p[2]})

\* Adds the template's missing agents and all its workflows under free ids; the
\* workflows end up sorted, and the template's default becomes the default.
apply_workflow_template_to_orchestrator(cfg, template) ==
    LET used  == [i \in DOMAIN cfg.workflows |-> cfg.workflows[i].id]
        fresh == template_workflows(template)
        added == [i \in DOMAIN fresh |->
                     [fresh[i] EXCEPT !.id = unique_workflow_id(used, @)]]
        all   == {"default"} \cup template_agents(template) \cup AgentIds(cfg)
    IN  Validated([cfg EXCEPT
            !.agents = [a \in all |-> IF a \in AgentIds(cfg) THEN cfg.agents[a]
                                                             ELSE a = "default"],
            !.workflows = ById(@ \o added),
            !.default = added[1].id])

-----------------------------------------------------------------------------
(* Steps of one workflow                                                   *)

WorkflowNamed(cfg, w) ==
    cfg.workflows[CHOOSE i \in DOMAIN cfg.workflows : cfg.workflows[i].id = w]

\* workflow_mut: the configuration with the steps of workflow w replaced.
WithSteps(cfg, w, steps) ==
    [cfg EXCEPT !.workflows = [i \in DOMAIN @ |->
        IF @[i].id = w THEN [@[i] EXCEPT !.steps = steps] ELSE @[i]]]

StepNamed(cfg, w, s) ==
    LET steps == WorkflowNamed(cfg, w).steps
    IN  steps[CHOOSE i \in DOMAIN steps : steps[i].id = s]

\* step_mut: the configuration with step s of workflow w replaced.
WithStep(cfg, w, s, step) ==
    LET steps == WorkflowNamed(cfg, w).steps
    IN  WithSteps(cfg, w, [i \in DOMAIN steps |-> IF steps[i].id = s THEN step ELSE steps[i]])

add_step(cfg, w, s) ==
    LET wf == WorkflowNamed(cfg, w) IN
    IF s \in StepIds(wf) THEN Refused(cfg)
    ELSE Validated(WithSteps(cfg, w, Append(wf.steps, Task(s, cfg.selector, None))))

\* Transitions to the removed step stay.
remove_step(cfg, w, s) ==
    LET left == Without(WorkflowNamed(cfg, w).steps, s) IN
    IF left = <<>> THEN Refused(cfg) ELSE Validated(WithSteps(cfg, w, left))

\* Transitions to the old id stay, and nothing is validated.
rename_step(cfg, w, s, next) ==
    IF next \in StepIds(WorkflowNamed(cfg, w)) \ {s} THEN Refused(cfg)
    ELSE Ok(WithStep(cfg, w, s, [StepNamed(cfg, w, s) EXCEPT !.id = next]))

\* The prompt and the contract follow the new type, the priority of its keys does not.
toggle_step_type(cfg, w, s) ==
    LET step == StepNamed(cfg, w, s)
        type == IF step.type = "agent_task" THEN "agent_review" ELSE "agent_task"
    IN  Ok(WithStep(cfg, w, s, [step EXCEPT !.type = type,
               !.prompt  = "inside",
               !.outputs = default_step_output_contract(type),
               !.files   = default_step_output_contract(type)]))

set_step_agent(cfg, w, s, a) ==
    IF a \notin AgentIds(cfg) THEN Refused(cfg)
    ELSE Ok(WithStep(cfg, w, s, [StepNamed(cfg, w, s) EXCEPT !.agent = a]))

\* Any text that is not empty, and validation asks for no more.
set_step_prompt(cfg, w, s, prompt) ==
    Ok(WithStep(cfg, w, s, [StepNamed(cfg, w, s) EXCEPT !.prompt = prompt]))

\* ensure_orchestrator_prompt_templates finds a place for every template.
PromptsResolve(cfg) ==
    \A i \in DOMAIN cfg.workflows : LET steps == cfg.workflows[i].steps IN
        \A j \in DOMAIN steps : steps[j].prompt /= "outside"

\* next, on_approve and on_reject take any text.
set_step_target(cfg, w, s, field, target) ==
    Ok(WithStep(cfg, w, s, [StepNamed(cfg, w, s) EXCEPT !.targets[field] = target]))

\* Neither `summary` nor the priority is looked at.
set_step_outputs(cfg, w, s, keys) ==
    LET step == StepNamed(cfg, w, s) IN
    IF keys = {} \/ ~(keys \subseteq step.files) THEN Refused(cfg)
    ELSE Ok(WithStep(cfg, w, s, [step EXCEPT !.outputs = keys]))

set_step_output_files(cfg, w, s, keys) ==
    LET step == StepNamed(cfg, w, s) IN
    IF keys = {} \/ ~(step.outputs \subseteq keys) THEN Refused(cfg)
    ELSE Ok(WithStep(cfg, w, s, [step EXCEPT !.files = keys]))

=============================================================================
