---------------------------- MODULE SetupProofs ----------------------------
(***************************************************************************)
(* Theorems about Setup for any orchestrators, templates and inputs and    *)
(* any number of edits, commands, crashes and failing file operations.     *)
(***************************************************************************)
EXTENDS Setup, FiniteSetTheorems, SequenceTheorems, WellFoundedInduction, TLAPS

(***************************************************************************)
(* Shapes.  Settings and drafts are records of maps over orchestrator ids; *)
(* a save under way writes the draft's orchestrators, all of them valid,   *)
(* and what a command or a save will write has been validated.             *)
(***************************************************************************)
EntriesOK(f) ==
    /\ DOMAIN f \subseteq Orchs
    /\ f = [o \in DOMAIN f |-> Entry(f[o].ws, f[o].shared)]
    /\ \A o \in DOMAIN f : f[o].ws \in Workspaces

SettingsOK(s) == s = Settings(s.base, s.orchs, s.profiles) /\ EntriesOK(s.orchs)

DraftOK(d) ==
    /\ d = [base |-> d.base, primary |-> d.primary, template |-> d.template,
            existed |-> d.existed, orchs |-> d.orchs, cfgs |-> d.cfgs]
    /\ EntriesOK(d.orchs)
    /\ d.cfgs = [o \in DOMAIN d.orchs |-> d.cfgs[o]]

Editing == {"root", "manager", "detail", "workflows", "workflow", "steps", "step", "agents",
            "agent", "persist"}

IsView(v) == "at" \in DOMAIN v

ViewOK == IsView(view) /\ view.at \in Editing \cup {"off", "settings", "registry"}

SaveOK ==
    view.at \in {"settings", "registry"} =>
        /\ todo = [pc |-> todo.pc, s |-> todo.s, left |-> todo.left]
        /\ SettingsOK(todo.s) /\ SettingsValid(todo.s) /\ todo.s.orchs = draft.orchs
        /\ validate_setup_bootstrap(draft)
        /\ todo.left \subseteq DOMAIN draft.orchs /\ todo.left # {}
        /\ view.at = "settings" => todo.left = DOMAIN draft.orchs
        /\ view.at = "registry" => MountsReconcile(todo.s)

CommandOK ==
    cmd = Nothing
    \/ /\ cmd = [pc |-> cmd.pc, s |-> cmd.s, o |-> cmd.o, c |-> cmd.c]
       /\ cmd.pc \in {"settings", "config"}
       /\ SettingsOK(cmd.s) /\ SettingsValid(cmd.s)

Shaped ==
    /\ settings.state = "ok" => SettingsOK(settings)
    /\ yaml = [p \in Paths |-> yaml[p]]
    /\ ViewOK /\ SaveOK /\ CommandOK
    /\ view.at # "off" => DraftOK(draft)

\* A set of naturals has a least member.
LEMMA LeastNat == ASSUME NEW S, S \subseteq Nat, S # {} PROVE \E x \in S : \A y \in S : x <= y
  <1>1. PICK x \in S : \A y \in S : ~(<<y, x>> \in OpToRel(<, Nat))
    BY NatLessThanWellFounded, WFMin, Zenon
  <1>2. \A y \in S : ~(y < x)
    BY <1>1, Zenon DEF OpToRel
  <1> QED BY <1>2

\* A set of orchestrators has a first id.
LEMMA FirstKeyIn == ASSUME NEW S, S \subseteq Orchs, S # {} PROVE FirstKey(S) \in S
  <1> DEFINE R == {Rank[x] : x \in S}
  <1>1. R \subseteq Nat /\ R # {}
    BY ConstantsOK
  <1>2. PICK m \in R : \A y \in R : m <= y
    BY <1>1, LeastNat
  <1>3. PICK x \in S : m = Rank[x]
    OBVIOUS
  <1>4. \A y \in S : Rank[x] <= Rank[y]
    BY <1>2, <1>3
  <1> QED BY <1>4 DEF FirstKey

\* A template's configuration for a new orchestrator is valid: the minimal one.
LEMMA MinimalValid ==
  ASSUME NEW o
  PROVE  /\ validate_setup_invariants(initial_orchestrator_config(o, "minimal"))
         /\ initial_orchestrator_config(o, "minimal").id = o
  <1> DEFINE c == initial_orchestrator_config(o, "minimal")
             t == Task("step_1", "default", None)
             wf == [id |-> <<"default", 1>>, steps |-> <<t>>]
  <1>1. template_workflows("minimal") = << OneStep("default", "step_1", "default") >>
    BY DEF template_workflows
  <1>2. template_agents("minimal") = {}
    BY DEF template_agents
  <1>3. OneStep("default", "step_1", "default") = wf
    BY DEF OneStep, Plain
  <1>4. /\ c.id = o /\ c.selector = "default" /\ c.agents = [a \in {"default"} |-> a = "default"]
        /\ c.workflows = << wf >>
        /\ c.default = <<"default", 1>>
    <2> HIDE DEF wf
    <2>1. wf.id = <<"default", 1>>
      BY DEF wf
    <2> QED BY <1>1, <1>2, <1>3, <2>1 DEF initial_orchestrator_config
  <1>5. /\ t.agent = "default" /\ t.outputs = {"summary", "artifact"}
        /\ t.files = t.outputs /\ t.priority = {"artifact", "summary"}
    BY DEF Task, workflow_step, default_step_output_contract, default_step_output_priority
  <1> HIDE DEF c, t
  <1>6. AgentIds(c) = {"default"}
    BY <1>4 DEF AgentIds
  <1>7. StepValid(c, t)
    BY <1>5, <1>6 DEF StepValid
  <1>8. wf.steps = <<t>> /\ wf.id = <<"default", 1>>
    OBVIOUS
  <1> HIDE DEF wf
  <1>9. WorkflowValid(c, wf)
    <2>1. <<t>> # <<>> /\ DOMAIN <<t>> = {1} /\ <<t>>[1] = t
      OBVIOUS
    <2> QED BY <1>7, <1>8, <2>1 DEF WorkflowValid, IsInjective
  <1>10. DOMAIN c.workflows = {1} /\ c.workflows[1] = wf
    BY <1>4
  <1>11. WorkflowIds(c) = {<<"default", 1>>}
    BY <1>8, <1>10 DEF WorkflowIds
  <1> QED BY <1>4, <1>6, <1>9, <1>10, <1>11 DEF validate_setup_invariants, IsInjective, c

LEMMA OwnOK == ASSUME NEW S, S \subseteq Orchs PROVE EntriesOK([o \in S |-> Entry("own", {})])
  BY DEF EntriesOK, Entry, Workspaces

LEMMA OnlyOwn == Only("main", Entry("own", {})) = [o \in {"main"} |-> Entry("own", {})]
  BY DEF Only

LEMMA WithEntry ==
  ASSUME NEW f, EntriesOK(f), NEW o \in Orchs PROVE EntriesOK(With(f, o, Entry("own", {})))
  <1> DEFINE g == With(f, o, Entry("own", {}))
  <1>1. DOMAIN g = DOMAIN f \cup {o} /\ \A x \in DOMAIN g : g[x] = IF x = o THEN Entry("own", {}) ELSE f[x]
    BY DEF With
  <1>2. Entry("own", {}).ws = "own" /\ Entry("own", {}) = Entry("own", {})
    BY DEF Entry
  <1>3. \A x \in DOMAIN f : f[x] = Entry(f[x].ws, f[x].shared) /\ f[x].ws \in Workspaces
    BY DEF EntriesOK
  <1>4. \A x \in DOMAIN g : g[x] = Entry(g[x].ws, g[x].shared) /\ g[x].ws \in Workspaces
    BY <1>1, <1>3 DEF Entry, Workspaces
  <1>5. g = [x \in DOMAIN g |-> g[x]]
    BY DEF With
  <1> HIDE DEF g
  <1>6. g = [x \in DOMAIN g |-> Entry(g[x].ws, g[x].shared)]
    BY <1>4, <1>5
  <1> QED BY <1>1, <1>4, <1>6 DEF EntriesOK, g

LEMMA RestrictEntries ==
  ASSUME NEW f, EntriesOK(f), NEW S, S \subseteq DOMAIN f PROVE EntriesOK([x \in S |-> f[x]])
  BY DEF EntriesOK

LEMMA ChangeEntry ==
  ASSUME NEW f, EntriesOK(f), NEW o, NEW e, e = Entry(e.ws, e.shared), e.ws \in Workspaces
  PROVE  EntriesOK([f EXCEPT ![o] = e])
  <1> DEFINE g == [f EXCEPT ![o] = e]
  <1>1. DOMAIN g = DOMAIN f /\ g = [x \in DOMAIN g |-> g[x]]
    OBVIOUS
  <1>2. \A x \in DOMAIN f : f[x] = Entry(f[x].ws, f[x].shared) /\ f[x].ws \in Workspaces
    BY DEF EntriesOK
  <1>3. \A x \in DOMAIN f : g[x] = e \/ g[x] = f[x]
    OBVIOUS
  <1> HIDE DEF g
  <1>4. \A x \in DOMAIN g : g[x] = Entry(g[x].ws, g[x].shared) /\ g[x].ws \in Workspaces
    BY <1>1, <1>2, <1>3
  <1>5. g = [x \in DOMAIN g |-> Entry(g[x].ws, g[x].shared)]
    BY <1>1, <1>4
  <1> QED BY <1>1, <1>4, <1>5 DEF EntriesOK, g

LEMMA EntryFields ==
  ASSUME NEW f, EntriesOK(f), NEW o \in DOMAIN f
  PROVE  /\ \A ws : [f[o] EXCEPT !.ws = ws] = Entry(ws, f[o].shared)
         /\ \A keys : [f[o] EXCEPT !.shared = keys] = Entry(f[o].ws, keys)
  <1>1. f[o] = Entry(f[o].ws, f[o].shared)
    BY DEF EntriesOK
  <1> QED BY <1>1 DEF Entry

LEMMA DraftDomain == ASSUME NEW d, DraftOK(d) PROVE DOMAIN d.cfgs = DOMAIN d.orchs
  BY DEF DraftOK

DraftOf(b, p, t, x, f, g) ==
    [base |-> b, primary |-> p, template |-> t, existed |-> x, orchs |-> f, cfgs |-> g]

LEMMA MakeDraft ==
  ASSUME NEW b, NEW p, NEW t, NEW x, NEW f, EntriesOK(f), NEW g, g = [o \in DOMAIN f |-> g[o]]
  PROVE  DraftOK(DraftOf(b, p, t, x, f, g))
  <1> DEFINE d == DraftOf(b, p, t, x, f, g)
  <1>1. /\ d.base = b /\ d.primary = p /\ d.template = t /\ d.existed = x /\ d.orchs = f
        /\ d.cfgs = g
    BY DEF DraftOf
  <1> HIDE DEF d
  <1>2. d = [base |-> d.base, primary |-> d.primary, template |-> d.template,
            existed |-> d.existed, orchs |-> d.orchs, cfgs |-> d.cfgs]
    BY <1>1 DEF d, DraftOf
  <1> QED BY <1>1, <1>2 DEF DraftOK, d

\* Changes of a draft's fields.
LEMMA DraftChanges ==
  ASSUME NEW d, DraftOK(d)
  PROVE  /\ \A v : DraftOK([d EXCEPT !.base = v])
         /\ \A v : DraftOK([d EXCEPT !.primary = v])
         /\ \A v : DraftOK([d EXCEPT !.template = v])
         /\ \A f : EntriesOK(f) /\ DOMAIN f = DOMAIN d.orchs => DraftOK([d EXCEPT !.orchs = f])
         /\ \A g : g = [o \in DOMAIN d.orchs |-> g[o]] => DraftOK([d EXCEPT !.cfgs = g])
         /\ \A f, g, p : EntriesOK(f) /\ g = [o \in DOMAIN f |-> g[o]] =>
               DraftOK([d EXCEPT !.orchs = f, !.cfgs = g, !.primary = p])
  <1>1. d = DraftOf(d.base, d.primary, d.template, d.existed, d.orchs, d.cfgs)
    BY DEF DraftOK, DraftOf
  <1>2. EntriesOK(d.orchs) /\ d.cfgs = [o \in DOMAIN d.orchs |-> d.cfgs[o]]
    BY DEF DraftOK
  <1>3. ASSUME NEW v
        PROVE  /\ DraftOK([d EXCEPT !.base = v]) /\ DraftOK([d EXCEPT !.primary = v])
               /\ DraftOK([d EXCEPT !.template = v])
    <2>1. /\ [d EXCEPT !.base = v] = DraftOf(v, d.primary, d.template, d.existed, d.orchs, d.cfgs)
          /\ [d EXCEPT !.primary = v] = DraftOf(d.base, v, d.template, d.existed, d.orchs, d.cfgs)
          /\ [d EXCEPT !.template = v] = DraftOf(d.base, d.primary, v, d.existed, d.orchs, d.cfgs)
      BY <1>1 DEF DraftOf
    <2> QED BY <1>2, <2>1, MakeDraft
  <1>4. ASSUME NEW f, EntriesOK(f), DOMAIN f = DOMAIN d.orchs PROVE DraftOK([d EXCEPT !.orchs = f])
    <2>1. [d EXCEPT !.orchs = f] = DraftOf(d.base, d.primary, d.template, d.existed, f, d.cfgs)
      BY <1>1 DEF DraftOf
    <2> QED BY <1>2, <1>4, <2>1, MakeDraft
  <1>5. ASSUME NEW g, g = [o \in DOMAIN d.orchs |-> g[o]] PROVE DraftOK([d EXCEPT !.cfgs = g])
    <2>1. [d EXCEPT !.cfgs = g] = DraftOf(d.base, d.primary, d.template, d.existed, d.orchs, g)
      BY <1>1 DEF DraftOf
    <2> QED BY <1>2, <1>5, <2>1, MakeDraft
  <1>6. ASSUME NEW f, NEW g, NEW p, EntriesOK(f), g = [o \in DOMAIN f |-> g[o]]
        PROVE  DraftOK([d EXCEPT !.orchs = f, !.cfgs = g, !.primary = p])
    <2> DEFINE d1 == [d EXCEPT !.orchs = f]
               d2 == [d1 EXCEPT !.cfgs = g]
    <2>1. d1 = DraftOf(d.base, d.primary, d.template, d.existed, f, d.cfgs)
      BY <1>1 DEF DraftOf
    <2>2. d2 = DraftOf(d.base, d.primary, d.template, d.existed, f, g)
      <3> HIDE DEF d1
      <3> QED BY <2>1 DEF DraftOf
    <2>3. [d2 EXCEPT !.primary = p] = DraftOf(d.base, p, d.template, d.existed, f, g)
      <3> HIDE DEF d2
      <3> QED BY <2>2 DEF DraftOf
    <2>4. [d EXCEPT !.orchs = f, !.cfgs = g, !.primary = p] = [d2 EXCEPT !.primary = p]
      OBVIOUS
    <2> HIDE DEF d1, d2
    <2> QED BY <1>6, <2>3, <2>4, MakeDraft
  <1> QED BY <1>3, <1>4, <1>5, <1>6

\* One configuration of a draft replaced.
LEMMA DraftConfig ==
  ASSUME NEW d, DraftOK(d), NEW o, NEW c PROVE DraftOK([d EXCEPT !.cfgs[o] = c])
  <1> DEFINE g == [d.cfgs EXCEPT ![o] = c]
  <1>1. g = [x \in DOMAIN d.orchs |-> g[x]]
    BY DraftDomain
  <1>2. [d EXCEPT !.cfgs[o] = c] = [d EXCEPT !.cfgs = g]
    OBVIOUS
  <1> HIDE DEF g
  <1> QED BY <1>1, <1>2, DraftChanges

LEMMA DraftEntry ==
  ASSUME NEW d, DraftOK(d), NEW o
  PROVE  /\ \A ws \in Workspaces : DraftOK([d EXCEPT !.orchs[o].ws = ws])
         /\ \A keys : DraftOK([d EXCEPT !.orchs[o].shared = keys])
  <1>1. EntriesOK(d.orchs)
    BY DEF DraftOK
  <1>2. ASSUME NEW e, o \in DOMAIN d.orchs => EntriesOK([d.orchs EXCEPT ![o] = e])
        PROVE  DraftOK([d EXCEPT !.orchs = [d.orchs EXCEPT ![o] = e]])
    <2>1. o \notin DOMAIN d.orchs => [d.orchs EXCEPT ![o] = e] = d.orchs
      BY <1>1 DEF EntriesOK
    <2>2. DOMAIN [d.orchs EXCEPT ![o] = e] = DOMAIN d.orchs
      OBVIOUS
    <2> QED BY <1>1, <1>2, <2>1, <2>2, DraftChanges
  <1>3. ASSUME NEW ws \in Workspaces PROVE DraftOK([d EXCEPT !.orchs[o].ws = ws])
    <2> DEFINE e == [d.orchs[o] EXCEPT !.ws = ws]
    <2>1. [d EXCEPT !.orchs[o].ws = ws] = [d EXCEPT !.orchs = [d.orchs EXCEPT ![o] = e]]
      OBVIOUS
    <2>2. o \in DOMAIN d.orchs => e = Entry(ws, d.orchs[o].shared)
      BY <1>1, EntryFields
    <2>3. o \in DOMAIN d.orchs => e = Entry(e.ws, e.shared) /\ e.ws \in Workspaces
      <3> HIDE DEF e
      <3> QED BY <2>2 DEF Entry
    <2> HIDE DEF e
    <2>4. o \in DOMAIN d.orchs => EntriesOK([d.orchs EXCEPT ![o] = e])
      BY <1>1, <2>3, ChangeEntry
    <2> QED BY <1>2, <2>1, <2>4
  <1>4. ASSUME NEW keys PROVE DraftOK([d EXCEPT !.orchs[o].shared = keys])
    <2> DEFINE e == [d.orchs[o] EXCEPT !.shared = keys]
    <2>1. [d EXCEPT !.orchs[o].shared = keys] = [d EXCEPT !.orchs = [d.orchs EXCEPT ![o] = e]]
      OBVIOUS
    <2>2. o \in DOMAIN d.orchs => d.orchs[o].ws \in Workspaces
      BY <1>1 DEF EntriesOK
    <2>3. o \in DOMAIN d.orchs => e = Entry(d.orchs[o].ws, keys)
      BY <1>1, <2>2, EntryFields
    <2>4. o \in DOMAIN d.orchs => e = Entry(e.ws, e.shared) /\ e.ws \in Workspaces
      <3> HIDE DEF e
      <3> QED BY <2>2, <2>3 DEF Entry
    <2> HIDE DEF e
    <2>5. o \in DOMAIN d.orchs => EntriesOK([d.orchs EXCEPT ![o] = e])
      BY <1>1, <2>4, ChangeEntry
    <2> QED BY <1>2, <2>1, <2>5
  <1> QED BY <1>3, <1>4

LEMMA ViewField ==
  ASSUME NEW v, IsView(v), NEW x
  PROVE  /\ IsView([v EXCEPT !.at = x]) /\ [v EXCEPT !.at = x].at = x
         /\ IsView([v EXCEPT !.w = x]) /\ [v EXCEPT !.w = x].at = v.at
         /\ IsView([v EXCEPT !.s = x]) /\ [v EXCEPT !.s = x].at = v.at
         /\ \A y : /\ [v EXCEPT !.at = x, !.o = y].at = x /\ IsView([v EXCEPT !.at = x, !.o = y])
                   /\ [v EXCEPT !.at = x, !.w = y].at = x /\ IsView([v EXCEPT !.at = x, !.w = y])
                   /\ [v EXCEPT !.at = x, !.s = y].at = x /\ IsView([v EXCEPT !.at = x, !.s = y])
                   /\ [v EXCEPT !.at = x, !.a = y].at = x /\ IsView([v EXCEPT !.at = x, !.a = y])
  BY DEF IsView

LEMMA Views == IsView(Off) /\ Off.at = "off" /\ IsView(Root) /\ Root.at = "root"
  <1>1. IsView(Off) /\ Off.at = "off"
    BY DEF IsView, Off
  <1>2. \A x : IsView([Off EXCEPT !.at = x]) /\ [Off EXCEPT !.at = x].at = x
    BY <1>1, ViewField, Zenon
  <1> QED BY <1>1, <1>2, Zenon DEF Root

\* What every key on an editing screen does, whatever it changes in the draft.
Screened ==
    /\ UNCHANGED <<files, cmd, causes>>
    /\ view.at \in Editing
    /\ IsView(view') /\ view'.at \in Editing \cup {"off"}
    /\ view'.at # "off" => DraftOK(draft')

LEMMA ShapedScreened == Shaped /\ Screened => Shaped'
  BY DEF Shaped, Screened, ViewOK, SaveOK, CommandOK, Editing, files

LEMMA ScreenedGo ==
  ASSUME Shaped, NEW to, Go(to), IsView(to), to.at \in Editing, view.at \in Editing
  PROVE  Screened
  BY DEF Go, Screened, Shaped, Editing

LEMMA ScreenedEdit ==
  ASSUME Shaped, NEW d, NEW marks, EditDraft(d, marks), DraftOK(d), view.at \in Editing,
         view' = view \/ (IsView(view') /\ view'.at = view.at)
  PROVE  Screened
  BY DEF EditDraft, Screened, Shaped, ViewOK, Editing

LEMMA ScreenedEnd ==
  ASSUME Shaped, NEW how, End(how), UNCHANGED <<files, cmd, causes>>, view.at \in Editing
  PROVE  Screened
  BY Views DEF End, Screened

LEMMA MinimumOK ==
  ASSUME NEW d, DraftOK(d)
  PROVE  DraftOK(ensure_minimum_orchestrator(d)) /\ DOMAIN ensure_minimum_orchestrator(d).orchs # {}
  <1> DEFINE f == [o \in {"main"} |-> Entry("own", {})]
             g == Only("main", initial_orchestrator_config("main", d.template))
             e == [d EXCEPT !.orchs = f, !.cfgs = g, !.primary = "main"]
  <1>1. EntriesOK(f) /\ DOMAIN f = {"main"}
    BY OwnOK, ConstantsOK
  <1>2. g = [o \in DOMAIN f |-> g[o]]
    BY <1>1 DEF Only
  <1>3. e.orchs = f
    BY DEF DraftOK
  <1>4. DOMAIN d.orchs = {} => ensure_minimum_orchestrator(d) = e
    BY OnlyOwn DEF ensure_minimum_orchestrator
  <1>5. DOMAIN d.orchs # {} => ensure_minimum_orchestrator(d) = d
    BY DEF ensure_minimum_orchestrator
  <1>6. DraftOK(e)
    <2> HIDE DEF f, g
    <2> QED BY <1>1, <1>2, DraftChanges
  <1> HIDE DEF e, f
  <1> QED BY <1>1, <1>3, <1>4, <1>5, <1>6

LEMMA ScreenedConfig ==
  ASSUME Shaped, NEW r, NEW marks, EditConfig(r, marks), view.at \in Editing,
         view' = view \/ (IsView(view') /\ view'.at = view.at)
  PROVE  Screened
  <1> DEFINE d == [draft EXCEPT !.cfgs[view.o] = r.cfg]
  <1>1. DraftOK(draft)
    BY DEF Shaped, Editing
  <1>2. DraftOK(d)
    BY <1>1, DraftConfig, Zenon
  <1>3. \E m : EditDraft(d, m)
    BY Zenon DEF EditConfig
  <1> HIDE DEF d
  <1> QED BY <1>2, <1>3, ScreenedEdit

LEMMA ScreenedMoves ==
  ASSUME Shaped,
         \/ OpenOrchestrator \/ OpenWorkflows \/ OpenAgents \/ OpenWorkflow \/ OpenStep
         \/ OpenAgent \/ OpenSteps \/ SaveSetup \/ Back
  PROVE  Screened
  <1>0. IsView(view)
    BY DEF Shaped, ViewOK
  <1>1. \A x : IsView([view EXCEPT !.at = x]) /\ [view EXCEPT !.at = x].at = x
    BY <1>0 DEF IsView
  <1>2. ASSUME NEW x, NEW y
        PROVE  IsView([view EXCEPT !.at = x, !.o = y]) /\ [view EXCEPT !.at = x, !.o = y].at = x
    BY <1>0 DEF IsView
  <1>3. ASSUME NEW x, NEW y
        PROVE  IsView([view EXCEPT !.at = x, !.w = y]) /\ [view EXCEPT !.at = x, !.w = y].at = x
    BY <1>0 DEF IsView
  <1>4. ASSUME NEW x, NEW y
        PROVE  IsView([view EXCEPT !.at = x, !.s = y]) /\ [view EXCEPT !.at = x, !.s = y].at = x
    BY <1>0 DEF IsView
  <1>5. ASSUME NEW x, NEW y
        PROVE  IsView([view EXCEPT !.at = x, !.a = y]) /\ [view EXCEPT !.at = x, !.a = y].at = x
    BY <1>0 DEF IsView
  <1>6. ASSUME NEW to, Go(to), IsView(to), to.at \in Editing, view.at \in Editing PROVE Screened
    BY <1>6, ScreenedGo
  <1>7. CASE OpenOrchestrator
    <2>1. PICK o : view.at = "manager" /\ Go([view EXCEPT !.at = "detail", !.o = o])
      BY <1>7 DEF OpenOrchestrator
    <2> QED BY <1>2, <1>6, <2>1, Zenon DEF Editing
  <1>8. CASE OpenWorkflows \/ OpenAgents
    BY <1>1, <1>6, <1>8, Zenon DEF OpenWorkflows, OpenAgents, Editing
  <1>9. CASE OpenWorkflow
    <2>1. PICK w : view.at = "workflows" /\ Go([view EXCEPT !.at = "workflow", !.w = w])
      BY <1>9 DEF OpenWorkflow
    <2> QED BY <1>3, <1>6, <2>1, Zenon DEF Editing
  <1>10. CASE OpenStep
    <2>1. PICK x : view.at = "steps" /\ Go([view EXCEPT !.at = "step", !.s = x])
      BY <1>10 DEF OpenStep
    <2> QED BY <1>4, <1>6, <2>1, Zenon DEF Editing
  <1>11. CASE OpenAgent
    <2>1. PICK a : view.at = "agents" /\ Go([view EXCEPT !.at = "agent", !.a = a])
      BY <1>11 DEF OpenAgent
    <2> QED BY <1>5, <1>6, <2>1, Zenon DEF Editing
  <1>12. CASE OpenSteps
    <2>1. view.at = "workflow" /\ (Go([view EXCEPT !.at = "steps"]) \/ Abort)
      BY <1>12 DEF OpenSteps
    <2>2. CASE Go([view EXCEPT !.at = "steps"])
      BY <1>1, <1>6, <2>1, <2>2, Zenon DEF Editing
    <2>3. CASE Abort
      BY <2>1, <2>3, ScreenedEnd DEF Abort, Editing
    <2> QED BY <2>1, <2>2, <2>3
  <1>13. CASE SaveSetup
    BY <1>1, <1>6, <1>13, Zenon DEF SaveSetup, Editing
  <1>14. CASE Back
    <2>1. /\ Go(Parent)
          /\ view.at \in {"manager", "detail", "workflows", "workflow", "steps", "step",
                          "agents", "agent"}
      BY <1>14 DEF Back, Shaped, ViewOK, Editing
    <2>2. view.at \in Editing
      BY <2>1 DEF Editing
    <2>3. IsView([Off EXCEPT !.at = "manager"]) /\ [Off EXCEPT !.at = "manager"].at = "manager"
      BY Views, ViewField, Zenon
    <2>4. IsView(Parent) /\ Parent.at \in Editing
      <3>1. CASE view.at = "manager"
        <4>1. Parent = Root BY <3>1, Zenon DEF Parent
        <4> QED BY <4>1, Views DEF Editing
      <3>2. CASE view.at = "detail"
        <4>1. Parent = [Off EXCEPT !.at = "manager"] BY <3>2, Zenon DEF Parent
        <4> QED BY <2>3, <4>1, Zenon DEF Editing
      <3>3. CASE view.at = "workflows"
        <4>1. Parent = [view EXCEPT !.at = "detail"] BY <3>3, Zenon DEF Parent
        <4> QED BY <1>1, <4>1, Zenon DEF Editing
      <3>4. CASE view.at = "workflow"
        <4>1. Parent = [view EXCEPT !.at = "workflows", !.w = NoWorkflow]
          BY <3>4, Zenon DEF Parent
        <4> QED BY <1>3, <4>1, Zenon DEF Editing
      <3>5. CASE view.at = "steps"
        <4>1. Parent = [view EXCEPT !.at = "workflow"] BY <3>5, Zenon DEF Parent
        <4> QED BY <1>1, <4>1, Zenon DEF Editing
      <3>6. CASE view.at = "step"
        <4>1. Parent = [view EXCEPT !.at = "steps", !.s = None] BY <3>6, Zenon DEF Parent
        <4> QED BY <1>4, <4>1, Zenon DEF Editing
      <3>7. CASE view.at = "agents"
        <4>1. Parent = [view EXCEPT !.at = "detail"] BY <3>7, Zenon DEF Parent
        <4> QED BY <1>1, <4>1, Zenon DEF Editing
      <3>8. CASE view.at = "agent"
        <4>1. Parent = [view EXCEPT !.at = "agents", !.a = None] BY <3>8, Zenon DEF Parent
        <4> QED BY <1>5, <4>1, Zenon DEF Editing
      <3> QED BY <2>1, <3>1, <3>2, <3>3, <3>4, <3>5, <3>6, <3>7, <3>8
    <2> QED BY <1>6, <2>1, <2>2, <2>4
  <1> QED BY <1>7, <1>8, <1>9, <1>10, <1>11, <1>12, <1>13, <1>14

LEMMA ScreenedDraftEdits ==
  ASSUME Shaped,
         \/ OpenManager \/ EditWorkspacePath \/ CancelSetup \/ add_orchestrator
         \/ remove_orchestrator \/ set_primary_orchestrator \/ set_default_workflow_template
         \/ set_orchestrator_private_workspace \/ set_orchestrator_shared_access
  PROVE  Screened
  <1>0. view.at \in Editing => DraftOK(draft)
    BY DEF Shaped, Editing
  <1>1. ASSUME NEW d, NEW marks, EditDraft(d, marks), DraftOK(d), Stay, view.at \in Editing
        PROVE  Screened
    BY <1>1, ScreenedEdit DEF Stay
  <1>2. CASE OpenManager
    <2>1. view.at \in Editing /\ view' = [view EXCEPT !.at = "manager"]
          /\ draft' = ensure_minimum_orchestrator(draft) /\ UNCHANGED <<files, cmd, causes>>
      BY <1>2 DEF OpenManager, Editing
    <2>2. IsView(view') /\ view'.at = "manager"
      BY <2>1 DEF IsView, Shaped, ViewOK
    <2> QED BY <1>0, <2>1, <2>2, MinimumOK DEF Screened, Editing
  <1>3. CASE EditWorkspacePath
    <2>1. PICK b : view.at = "root" /\ EditDraft([draft EXCEPT !.base = b], {"base"}) /\ Stay
      BY <1>3 DEF EditWorkspacePath
    <2>2. DraftOK([draft EXCEPT !.base = b])
      BY <1>0, <2>1, DraftChanges, Zenon DEF Editing
    <2> QED BY <1>1, <2>1, <2>2, Zenon DEF Editing
  <1>4. CASE CancelSetup
    BY <1>4, ScreenedEnd DEF CancelSetup, Editing
  <1>5. CASE add_orchestrator
    <2>1. PICK o \in Orchs \ DOMAIN draft.orchs :
            /\ view.at = "manager" /\ Stay
            /\ EditDraft([draft EXCEPT
                  !.orchs = With(@, o, Entry("own", {})),
                  !.cfgs  = With(@, o, initial_orchestrator_config(o, draft.template)),
                  !.primary = o], {})
      BY <1>5 DEF add_orchestrator
    <2> DEFINE f == With(draft.orchs, o, Entry("own", {}))
               g == With(draft.cfgs, o, initial_orchestrator_config(o, draft.template))
               d == [draft EXCEPT !.orchs = f, !.cfgs = g, !.primary = o]
    <2>2. DraftOK(draft)
      BY <1>0, <2>1 DEF Editing
    <2>3. EntriesOK(f)
      BY <2>2, WithEntry DEF DraftOK
    <2>4. g = [x \in DOMAIN f |-> g[x]]
      BY <2>2, DraftDomain DEF With
    <2>5. EditDraft(d, {})
      BY <2>1
    <2> HIDE DEF f, g
    <2>6. DraftOK(d)
      BY <2>2, <2>3, <2>4, DraftChanges, Zenon
    <2> HIDE DEF d
    <2> QED BY <1>1, <2>1, <2>5, <2>6 DEF Editing
  <1>6. CASE remove_orchestrator
    <2>1. PICK o \in DOMAIN draft.orchs :
            LET left == DOMAIN draft.orchs \ {o} IN
            /\ view.at = "manager" /\ Stay
            /\ EditDraft([draft EXCEPT !.orchs = [x \in left |-> @[x]],
                               !.cfgs  = [x \in left |-> @[x]],
                               !.primary = IF @ = o THEN FirstKey(left) ELSE @], {"removed"})
      BY <1>6 DEF remove_orchestrator
    <2> DEFINE left == DOMAIN draft.orchs \ {o}
               f == [x \in left |-> draft.orchs[x]]
               g == [x \in left |-> draft.cfgs[x]]
               p == IF draft.primary = o THEN FirstKey(left) ELSE draft.primary
               d == [draft EXCEPT !.orchs = f, !.cfgs = g, !.primary = p]
    <2>2. DraftOK(draft)
      BY <1>0, <2>1 DEF Editing
    <2>3. EntriesOK(f)
      BY <2>2, RestrictEntries DEF DraftOK
    <2>4. g = [x \in DOMAIN f |-> g[x]]
      OBVIOUS
    <2>5. EditDraft(d, {"removed"})
      BY <2>1
    <2> HIDE DEF f, g, p
    <2>6. DraftOK(d)
      BY <2>2, <2>3, <2>4, DraftChanges, Zenon
    <2> HIDE DEF d
    <2> QED BY <1>1, <2>1, <2>5, <2>6 DEF Editing
  <1>7. CASE set_primary_orchestrator
    <2>1. PICK o : view.at \in {"manager", "detail"} /\ EditDraft([draft EXCEPT !.primary = o], {}) /\ Stay
      BY <1>7 DEF set_primary_orchestrator
    <2>2. view.at \in Editing
      BY <2>1 DEF Editing
    <2>3. DraftOK([draft EXCEPT !.primary = o])
      BY <1>0, <2>2, DraftChanges, Zenon
    <2> QED BY <1>1, <2>1, <2>2, <2>3, Zenon
  <1>8. CASE set_default_workflow_template
    <2>1. PICK t : view.at = "manager" /\ EditDraft([draft EXCEPT !.template = t], {}) /\ Stay
      BY <1>8 DEF set_default_workflow_template
    <2>2. DraftOK([draft EXCEPT !.template = t])
      BY <1>0, <2>1, DraftChanges, Zenon DEF Editing
    <2> QED BY <1>1, <2>1, <2>2, Zenon DEF Editing
  <1>9. CASE set_orchestrator_private_workspace
    <2>1. PICK ws \in Workspaces :
            view.at = "detail" /\ EditDraft([draft EXCEPT !.orchs[view.o].ws = ws], {}) /\ Stay
      BY <1>9 DEF set_orchestrator_private_workspace
    <2>2. DraftOK([draft EXCEPT !.orchs[view.o].ws = ws])
      BY <1>0, <2>1, DraftEntry, Zenon DEF Editing
    <2> QED BY <1>1, <2>1, <2>2, Zenon DEF Editing
  <1>10. CASE set_orchestrator_shared_access
    <2>1. PICK keys :
            view.at = "detail" /\ EditDraft([draft EXCEPT !.orchs[view.o].shared = keys], {"access"}) /\ Stay
      BY <1>10 DEF set_orchestrator_shared_access
    <2>2. DraftOK([draft EXCEPT !.orchs[view.o].shared = keys])
      BY <1>0, <2>1, DraftEntry, Zenon DEF Editing
    <2> QED BY <1>1, <2>1, <2>2, Zenon DEF Editing
  <1> QED BY <1>2, <1>3, <1>4, <1>5, <1>6, <1>7, <1>8, <1>9, <1>10

\* Edits of the shown configuration, accepted or refused.
LEMMA ScreenedConfigEdits ==
  ASSUME Shaped,
         \/ SetDefaultWorkflow \/ AddStarterWorkflows \/ WorkflowManagerEdit \/ RenameWorkflow
         \/ StepManagerEdit \/ RenameStep \/ StepDetailEdit \/ StepContractEdit
         \/ AgentManagerEdit \/ AgentDetailEdit
  PROVE  Screened
  <1>1. ASSUME NEW r, NEW marks, EditConfig(r, marks), Stay, view.at \in Editing
        PROVE  Screened
    BY <1>1, ScreenedConfig DEF Stay
  <1>2. CASE SetDefaultWorkflow
    <2>1. view.at \in Editing /\ Stay /\ \E r, marks : EditConfig(r, marks)
      BY <1>2, Zenon DEF SetDefaultWorkflow, Editing
    <2> QED BY <1>1, <2>1
  <1>3. CASE AddStarterWorkflows
    <2>1. view.at \in Editing /\ ((Stay /\ \E r, marks : EditConfig(r, marks)) \/ Abort)
      BY <1>3, Zenon DEF AddStarterWorkflows, Editing
    <2> QED BY <1>1, <2>1, ScreenedEnd DEF Abort
  <1>4. CASE WorkflowManagerEdit
    <2>1. view.at \in Editing /\ Stay /\ \E r, marks : EditConfig(r, marks)
      BY <1>4, Zenon DEF WorkflowManagerEdit, Editing
    <2> QED BY <1>1, <2>1
  <1>5. CASE RenameWorkflow
    <2>1. PICK n, r, marks :
            /\ view.at = "workflow" /\ EditConfig(r, marks)
            /\ view' = view \/ view' = [view EXCEPT !.w = Plain(n)]
      BY <1>5, Zenon DEF RenameWorkflow
    <2>2. view' = view \/ (IsView(view') /\ view'.at = view.at)
      BY <2>1 DEF IsView, Shaped, ViewOK
    <2> QED BY <2>1, <2>2, ScreenedConfig DEF Editing
  <1>6. CASE StepManagerEdit
    <2>1. view.at \in Editing /\ Stay /\ \E r, marks : EditConfig(r, marks)
      BY <1>6, Zenon DEF StepManagerEdit, Editing
    <2> QED BY <1>1, <2>1
  <1>7. CASE RenameStep
    <2>1. PICK n, r, marks :
            /\ view.at = "step" /\ EditConfig(r, marks)
            /\ view' = view \/ view' = [view EXCEPT !.s = n]
      BY <1>7, Zenon DEF RenameStep
    <2>2. view' = view \/ (IsView(view') /\ view'.at = view.at)
      BY <2>1 DEF IsView, Shaped, ViewOK
    <2> QED BY <2>1, <2>2, ScreenedConfig DEF Editing
  <1>8. CASE StepDetailEdit
    <2>1. view.at \in Editing /\ Stay /\ \E r, marks : EditConfig(r, marks)
      BY <1>8, Zenon DEF StepDetailEdit, Editing
    <2> QED BY <1>1, <2>1
  <1>9. CASE StepContractEdit
    <2>1. view.at \in Editing /\ Stay /\ \E r, marks : EditConfig(r, marks)
      BY <1>9, Zenon DEF StepContractEdit, Editing
    <2> QED BY <1>1, <2>1
  <1>10. CASE AgentManagerEdit
    <2>1. view.at \in Editing /\ Stay /\ \E r, marks : EditConfig(r, marks)
      BY <1>10, Zenon DEF AgentManagerEdit, Editing
    <2> QED BY <1>1, <2>1
  <1>11. CASE AgentDetailEdit
    <2>1. view.at \in Editing /\ Stay /\ \E r, marks : EditConfig(r, marks)
      BY <1>11, Zenon DEF AgentDetailEdit, Editing
    <2> QED BY <1>1, <2>1
  <1> QED BY <1>2, <1>3, <1>4, <1>5, <1>6, <1>7, <1>8, <1>9, <1>10, <1>11

LEMMA ScreenIsScreened == Shaped /\ Screen => Screened
  BY ScreenedMoves, ScreenedDraftEdits, ScreenedConfigEdits
     DEF Screen, RootScreen, ManagerScreen, DetailScreen, WorkflowsScreen, WorkflowScreen,
         StepsScreen, StepScreen, AgentsScreen

-----------------------------------------------------------------------------
\* What a command makes of the settings leaves each orchestrator where it was or
\* brings its file along.
Continues(s, t, o, c) ==
    \A p \in DOMAIN t.orchs :
        \/ p \in DOMAIN s.orchs /\ t.orchs[p].ws = s.orchs[p].ws
        \/ p = o /\ c # NoFile /\ validate(c, DOMAIN t.orchs, p)

LEMMA SettingsParts ==
  ASSUME NEW s, SettingsOK(s)
  PROVE  /\ \A f : EntriesOK(f) =>
               SettingsOK([s EXCEPT !.orchs = f]) /\ [s EXCEPT !.orchs = f].orchs = f
         /\ \A g : SettingsOK([s EXCEPT !.profiles = g]) /\ [s EXCEPT !.profiles = g].orchs = s.orchs
  <1>1. \A b, f, g : /\ Settings(b, f, g).base = b /\ Settings(b, f, g).orchs = f
                     /\ Settings(b, f, g).profiles = g
    BY DEF Settings
  <1>2. \A b, f, g : EntriesOK(f) => SettingsOK(Settings(b, f, g))
    BY <1>1 DEF SettingsOK
  <1>3. s = Settings(s.base, s.orchs, s.profiles) /\ EntriesOK(s.orchs)
    BY DEF SettingsOK
  <1>4. ASSUME NEW f PROVE [s EXCEPT !.orchs = f] = Settings(s.base, f, s.profiles)
    BY <1>3 DEF Settings
  <1>5. ASSUME NEW g PROVE [s EXCEPT !.profiles = g] = Settings(s.base, s.orchs, g)
    BY <1>3 DEF Settings
  <1> QED BY <1>1, <1>2, <1>3, <1>4, <1>5

LEMMA SettingsEntry ==
  ASSUME NEW s, SettingsOK(s), NEW o \in DOMAIN s.orchs, NEW e, e = Entry(e.ws, e.shared),
         e.ws \in Workspaces, NEW t, t = [s EXCEPT !.orchs = [s.orchs EXCEPT ![o] = e]]
  PROVE  /\ SettingsOK(t) /\ DOMAIN t.orchs = DOMAIN s.orchs
         /\ \A p \in DOMAIN s.orchs : t.orchs[p] = IF p = o THEN e ELSE s.orchs[p]
  <1> DEFINE f == [s.orchs EXCEPT ![o] = e]
  <1>1. EntriesOK(f)
    BY ChangeEntry DEF SettingsOK
  <1>2. DOMAIN f = DOMAIN s.orchs /\ \A p \in DOMAIN s.orchs : f[p] = IF p = o THEN e ELSE s.orchs[p]
    OBVIOUS
  <1> HIDE DEF f
  <1>3. SettingsOK(t) /\ t.orchs = f
    BY <1>1, SettingsParts DEF f
  <1> QED BY <1>2, <1>3

\* What the first step of a command leads to.
Begun(t, o, c) ==
    /\ SettingsOK(t)
    /\ \/ Begin(TRUE, t, o, c) /\ Continues(settings, t, o, c)
       \/ Begin(FALSE, t, o, c) /\ t = settings

LEMMA KnownSettings ==
  ASSUME Shaped
  PROVE  /\ \A new, t, o, c : Begin(new, t, o, c) => settings.state = "ok" /\ SettingsOK(settings)
         /\ \A o \in Orchestrators :
               settings.state = "ok" /\ SettingsOK(settings) /\ o \in DOMAIN settings.orchs
  BY DEF Shaped, Begin, load_settings, Orchestrators

LEMMA SameEntries ==
  ASSUME NEW s, NEW t, t.orchs = s.orchs, NEW o, NEW c PROVE Continues(s, t, o, c)
  BY DEF Continues

LEMMA ConfigIsFile == ASSUME NEW o \in Orchs, NEW c, c.id = o PROVE c # NoFile /\ c # TornFile
  BY ConstantsOK DEF NoFile, TornFile

LEMMA AddBegun == ASSUME Shaped, OrchestratorAdd PROVE \E t, o, c : Begun(t, o, c)
  <1>1. PICK o \in Orchs \ Orchestrators :
          /\ settings.state = "ok"
          /\ Begin(TRUE, [settings EXCEPT !.orchs = With(settings.orchs, o, Entry("own", {}))], o,
                   initial_orchestrator_config(o, "minimal"))
    BY DEF OrchestratorAdd
  <1> DEFINE f == With(settings.orchs, o, Entry("own", {}))
             t == [settings EXCEPT !.orchs = f]
             c == initial_orchestrator_config(o, "minimal")
  <1>2. SettingsOK(settings) /\ EntriesOK(settings.orchs)
    BY <1>1 DEF Shaped, SettingsOK
  <1>3. EntriesOK(f)
    BY <1>2, WithEntry
  <1>4. DOMAIN f = DOMAIN settings.orchs \cup {o} /\ \A p \in DOMAIN f \ {o} : f[p] = settings.orchs[p]
    BY DEF With
  <1>5. c.id = o /\ validate_setup_invariants(c)
    BY MinimalValid, Zenon
  <1>6. Begin(TRUE, t, o, c)
    BY <1>1
  <1> HIDE DEF f, c
  <1>7. SettingsOK(t) /\ t.orchs = f
    BY <1>2, <1>3, SettingsParts, Zenon
  <1>8. c # NoFile
    BY <1>5, ConfigIsFile
  <1> HIDE DEF t
  <1>9. Continues(settings, t, o, c)
    BY <1>4, <1>5, <1>7, <1>8 DEF Continues, validate
  <1> QED BY <1>6, <1>7, <1>9 DEF Begun

LEMMA RemoveBegun == ASSUME Shaped, OrchestratorRemove PROVE \E t, o, c : Begun(t, o, c)
  <1>1. PICK o \in Orchestrators :
          Begin(TRUE, [settings EXCEPT !.orchs = [x \in DOMAIN settings.orchs \ {o} |-> settings.orchs[x]]],
                None, NoFile)
    BY DEF OrchestratorRemove, SettingsCommand
  <1> DEFINE f == [x \in DOMAIN settings.orchs \ {o} |-> settings.orchs[x]]
             t == [settings EXCEPT !.orchs = f]
  <1>2. SettingsOK(settings) /\ EntriesOK(settings.orchs)
    BY KnownSettings DEF SettingsOK
  <1>3. EntriesOK(f)
    BY <1>2, RestrictEntries
  <1>4. \A p \in DOMAIN f : p \in DOMAIN settings.orchs /\ f[p] = settings.orchs[p]
    OBVIOUS
  <1>5. Begin(TRUE, t, None, NoFile)
    BY <1>1
  <1> HIDE DEF f
  <1>6. SettingsOK(t) /\ t.orchs = f
    BY <1>2, <1>3, SettingsParts, Zenon
  <1> HIDE DEF t
  <1>7. Continues(settings, t, None, NoFile)
    BY <1>4, <1>6 DEF Continues
  <1> QED BY <1>5, <1>6, <1>7 DEF Begun

LEMMA MoveBegun == ASSUME Shaped, SetPrivateWorkspace PROVE \E t, o, c : Begun(t, o, c)
  <1>1. PICK o \in Orchestrators :
          /\ load_orchestrator_config(settings, o)
          /\ Begin(TRUE, [settings EXCEPT !.orchs[o].ws = "abs"], o, yaml[PathOf(settings, o)])
    BY DEF SetPrivateWorkspace
  <1> DEFINE e == [settings.orchs[o] EXCEPT !.ws = "abs"]
             t == [settings EXCEPT !.orchs = [settings.orchs EXCEPT ![o] = e]]
             c == yaml[PathOf(settings, o)]
  <1>2. SettingsOK(settings) /\ EntriesOK(settings.orchs) /\ o \in DOMAIN settings.orchs
    BY KnownSettings DEF SettingsOK
  <1>3. e = Entry("abs", settings.orchs[o].shared)
    BY <1>2, EntryFields
  <1>4. Begin(TRUE, t, o, c)
    BY <1>1
  <1>5. c # NoFile /\ validate(c, DOMAIN settings.orchs, o)
    BY <1>1 DEF load_orchestrator_config
  <1> HIDE DEF e, c
  <1>6. e = Entry(e.ws, e.shared) /\ e.ws \in Workspaces
    BY <1>3 DEF Entry, Workspaces
  <1>7. /\ SettingsOK(t) /\ DOMAIN t.orchs = DOMAIN settings.orchs
        /\ \A p \in DOMAIN settings.orchs : t.orchs[p] = IF p = o THEN e ELSE settings.orchs[p]
    BY <1>2, <1>6, SettingsEntry
  <1> HIDE DEF t
  <1>8. Continues(settings, t, o, c)
    BY <1>5, <1>7 DEF Continues
  <1> QED BY <1>4, <1>7, <1>8 DEF Begun

LEMMA AccessBegun == ASSUME Shaped, SharedAccess PROVE \E t, o, c : Begun(t, o, c)
  <1>1. PICK o \in Orchestrators, k \in SharedKeys :
          \/ Begin(TRUE, [settings EXCEPT !.orchs[o].shared = @ \cup {k}], None, NoFile)
          \/ Begin(TRUE, [settings EXCEPT !.orchs[o].shared = @ \ {k}], None, NoFile)
    BY DEF SharedAccess, SettingsCommand
  <1>2. SettingsOK(settings) /\ EntriesOK(settings.orchs) /\ o \in DOMAIN settings.orchs
    BY KnownSettings DEF SettingsOK
  <1>3. ASSUME NEW keys, Begin(TRUE, [settings EXCEPT !.orchs[o].shared = keys], None, NoFile)
        PROVE  \E t, x, c : Begun(t, x, c)
    <2> DEFINE e == [settings.orchs[o] EXCEPT !.shared = keys]
               t == [settings EXCEPT !.orchs = [settings.orchs EXCEPT ![o] = e]]
    <2>0. settings.orchs[o].ws \in Workspaces
      BY <1>2 DEF EntriesOK
    <2>1. e = Entry(settings.orchs[o].ws, keys)
      BY <1>2, EntryFields
    <2>2. Begin(TRUE, t, None, NoFile)
      BY <1>3
    <2> HIDE DEF e
    <2>3. e = Entry(e.ws, e.shared) /\ e.ws \in Workspaces /\ e.ws = settings.orchs[o].ws
      BY <2>0, <2>1 DEF Entry
    <2>4. /\ SettingsOK(t) /\ DOMAIN t.orchs = DOMAIN settings.orchs
          /\ \A p \in DOMAIN settings.orchs : t.orchs[p] = IF p = o THEN e ELSE settings.orchs[p]
      BY <1>2, <2>3, SettingsEntry
    <2> HIDE DEF t
    <2>5. Continues(settings, t, None, NoFile)
      BY <2>3, <2>4 DEF Continues
    <2> QED BY <2>2, <2>4, <2>5 DEF Begun
  <1> QED BY <1>1, <1>3

LEMMA ProfileBegun ==
  ASSUME Shaped, ProfileAdd \/ ProfileRemove \/ ProfileSetOrchestrator
  PROVE  \E t, o, c : Begun(t, o, c)
  <1>1. ASSUME NEW g, Begin(TRUE, [settings EXCEPT !.profiles = g], None, NoFile)
        PROVE  \E t, o, c : Begun(t, o, c)
    <2> DEFINE t == [settings EXCEPT !.profiles = g]
    <2>1. SettingsOK(settings)
      BY <1>1, KnownSettings
    <2>2. SettingsOK(t) /\ t.orchs = settings.orchs
      BY <2>1, SettingsParts, Zenon
    <2>3. Begin(TRUE, t, None, NoFile)
      BY <1>1
    <2> HIDE DEF t
    <2> QED BY <2>2, <2>3, SameEntries DEF Begun
  <1>2. CASE ProfileAdd
    <2>1. PICK g : Begin(TRUE, [settings EXCEPT !.profiles = g], None, NoFile)
      BY <1>2, Zenon DEF ProfileAdd, SettingsCommand
    <2> QED BY <1>1, <2>1
  <1>3. CASE ProfileRemove
    <2>1. PICK g : Begin(TRUE, [settings EXCEPT !.profiles = g], None, NoFile)
      BY <1>3, Zenon DEF ProfileRemove, SettingsCommand
    <2> QED BY <1>1, <2>1
  <1>4. CASE ProfileSetOrchestrator
    <2>1. PICK g : Begin(TRUE, [settings EXCEPT !.profiles = g], None, NoFile)
      BY <1>4, Zenon DEF ProfileSetOrchestrator, SettingsCommand
    <2> QED BY <1>1, <2>1
  <1> QED BY <1>2, <1>3, <1>4

LEMMA EditBegun == ASSUME Shaped, EditCommand PROVE \E t, o, c : Begun(t, o, c)
  <1>1. PICK o, c : Begin(FALSE, settings, o, c)
    BY Zenon DEF EditCommand
  <1>2. SettingsOK(settings)
    BY <1>1, KnownSettings
  <1> QED BY <1>1, <1>2 DEF Begun

LEMMA CommandSteps ==
  ASSUME Shaped, Command
  PROVE  \/ \E t, o, c : Begun(t, o, c)
         \/ CommandWritesSettings \/ CommandWritesConfig \/ BreakCommand
  BY AddBegun, RemoveBegun, MoveBegun, AccessBegun, ProfileBegun, EditBegun DEF Command

-----------------------------------------------------------------------------
(***************************************************************************)
(* What is on disk is valid.  Nothing more is needed than the shapes, and  *)
(* that saves and commands under way hold validated settings.              *)
(***************************************************************************)
ValidInv == Shaped /\ DiskConfigsValid

LEMMA SettingsMade ==
  ASSUME NEW b, NEW f, NEW g
  PROVE  /\ Settings(b, f, g).base = b /\ Settings(b, f, g).orchs = f
         /\ Settings(b, f, g).profiles = g /\ Settings(b, f, g).state = "ok"
         /\ EntriesOK(f) => SettingsOK(Settings(b, f, g))
  <1>1. /\ Settings(b, f, g).base = b /\ Settings(b, f, g).orchs = f
        /\ Settings(b, f, g).profiles = g /\ Settings(b, f, g).state = "ok"
    BY DEF Settings
  <1> QED BY <1>1 DEF SettingsOK

LEMMA LoadedOK == ASSUME NEW s, SettingsOK(s) PROVE DraftOK(LoadedDraft(s))
  <1> DEFINE g == [o \in DOMAIN s.orchs |->
                    IF yaml[PathOf(s, o)] /= NoFile THEN yaml[PathOf(s, o)]
                    ELSE initial_orchestrator_config(o, "minimal")]
             p == IF DOMAIN s.orchs = {} THEN "main" ELSE FirstKey(DOMAIN s.orchs)
             t == IF DOMAIN s.orchs = {} THEN "minimal"
                  ELSE infer_workflow_template(g[FirstKey(DOMAIN s.orchs)])
  <1>1. LoadedDraft(s) = DraftOf(s.base, p, t, TRUE, s.orchs, g)
    BY Zenon DEF LoadedDraft, DraftOf
  <1>2. g = [o \in DOMAIN s.orchs |-> g[o]]
    OBVIOUS
  <1>3. EntriesOK(s.orchs)
    BY DEF SettingsOK
  <1> HIDE DEF g, p, t
  <1> QED BY <1>1, <1>2, <1>3, MakeDraft

LEMMA DefaultOK == DraftOK(DefaultDraft)
  <1> DEFINE f == Only("main", Entry("own", {}))
             g == Only("main", initial_orchestrator_config("main", "minimal"))
  <1>1. DefaultDraft = DraftOf("abs", "main", "minimal", FALSE, f, g)
    BY Zenon DEF DefaultDraft, DraftOf
  <1>2. EntriesOK(f) /\ DOMAIN f = {"main"}
    BY OwnOK, OnlyOwn, ConstantsOK
  <1>3. g = [o \in {"main"} |-> g[o]]
    BY DEF Only
  <1> HIDE DEF f, g
  <1> QED BY <1>1, <1>2, <1>3, MakeDraft

LEMMA FilesValid ==
  ASSUME DiskConfigsValid, UNCHANGED files PROVE DiskConfigsValid'
  BY DEF DiskConfigsValid, Whole, files

LEMMA ValidOpen == ASSUME ValidInv, cmd_setup PROVE ValidInv'
  <1>1. DraftOK(draft')
    BY LoadedOK, DefaultOK DEF cmd_setup, ValidInv, Shaped, SetupLoads, load_settings
  <1>2. Shaped'
    BY <1>1, Views DEF cmd_setup, ValidInv, Shaped, ViewOK, SaveOK, CommandOK, Editing, files
  <1> QED BY <1>2, FilesValid DEF ValidInv, cmd_setup

LEMMA ValidScreen == ASSUME ValidInv, Screen PROVE ValidInv'
  <1>1. Screened /\ Shaped'
    BY ScreenIsScreened, ShapedScreened DEF ValidInv
  <1> QED BY <1>1, FilesValid DEF ValidInv, Screened

LEMMA EndShaped ==
  ASSUME NEW how, End(how)
  PROVE  ViewOK' /\ SaveOK' /\ view'.at = "off"
  BY Views DEF End, ViewOK, SaveOK

LEMMA ValidNormalize == ASSUME ValidInv, normalize_for_save PROVE ValidInv'
  <1> DEFINE d == ensure_minimum_orchestrator(draft)
  <1>1. UNCHANGED <<files, cmd, causes>> /\ view.at = "persist"
    BY DEF normalize_for_save
  <1>2. DraftOK(draft)
    BY <1>1 DEF ValidInv, Shaped
  <1>3. DraftOK(d) /\ DOMAIN d.orchs # {}
    BY <1>2, MinimumOK
  <1> DEFINE s == Normalized(d)
  <1>4. SettingsOK(s) /\ s.orchs = d.orchs
    BY <1>3, SettingsMade DEF Normalized, DraftOK
  <1>5. CASE \E how : End(how)
    <2>1. Shaped'
      BY <1>1, <1>5, EndShaped DEF ValidInv, Shaped, CommandOK, files
    <2> QED BY <1>1, <2>1, FilesValid DEF ValidInv
  <1>6. CASE /\ SettingsValid(s) /\ validate_setup_bootstrap(d) /\ draft' = d
             /\ todo' = [pc |-> "settings", s |-> s, left |-> DOMAIN d.cfgs]
             /\ view' = [view EXCEPT !.at = "settings"]
    <2>1. DOMAIN d.cfgs = DOMAIN d.orchs
      BY <1>3, DraftDomain
    <2>2. IsView(view') /\ view'.at = "settings"
      BY <1>6 DEF ValidInv, Shaped, ViewOK, IsView
    <2>3. ViewOK'
      BY <2>2 DEF ViewOK
    <2> HIDE DEF d, s
    <2>4. todo'.pc = "settings" /\ todo'.s = s /\ todo'.left = DOMAIN d.orchs
      BY <1>6, <2>1
    <2>5. todo' = [pc |-> todo'.pc, s |-> todo'.s, left |-> todo'.left]
      BY <1>6, <2>1, <2>4
    <2>6. SaveOK'
      BY <1>3, <1>4, <1>6, <2>2, <2>4, <2>5 DEF SaveOK, validate_setup_bootstrap
    <2>7. Shaped'
      BY <1>1, <1>3, <1>6, <2>3, <2>6 DEF ValidInv, Shaped, CommandOK, files
    <2> QED BY <1>1, <2>7, FilesValid DEF ValidInv
  <1> QED BY <1>5, <1>6, Zenon DEF normalize_for_save

LEMMA ValidPersistSettings == ASSUME ValidInv, PersistSettings PROVE ValidInv'
  <1>1. /\ view.at = "settings" /\ settings' = todo.s /\ UNCHANGED <<yaml, cmd>>
        /\ \/ /\ MountsReconcile(todo.s) /\ view' = [view EXCEPT !.at = "registry"]
              /\ UNCHANGED <<draft, todo>>
           \/ End("half saved")
    BY DEF PersistSettings, WriteSettings
  <1>2. SettingsOK(todo.s) /\ SettingsValid(todo.s)
    BY <1>1 DEF ValidInv, Shaped, SaveOK
  <1>3. DiskConfigsValid'
    BY <1>1, <1>2 DEF ValidInv, DiskConfigsValid, Whole
  <1>4. CASE End("half saved")
    BY <1>1, <1>2, <1>3, <1>4, EndShaped DEF ValidInv, Shaped, CommandOK
  <1>5. CASE /\ MountsReconcile(todo.s) /\ view' = [view EXCEPT !.at = "registry"]
             /\ UNCHANGED <<draft, todo>>
    <2>1. IsView(view') /\ view'.at = "registry"
      BY <1>5 DEF ValidInv, Shaped, ViewOK, IsView
    <2>2. SaveOK'
      BY <1>1, <1>5, <2>1 DEF ValidInv, Shaped, SaveOK, validate_setup_bootstrap
    <2> QED BY <1>1, <1>2, <1>3, <1>5, <2>1, <2>2 DEF ValidInv, Shaped, CommandOK, ViewOK
  <1> QED BY <1>1, <1>4, <1>5

LEMMA PathIn ==
  ASSUME NEW s, NEW o \in DOMAIN s.orchs, DOMAIN s.orchs \subseteq Orchs
  PROVE  PathOf(s, o) \in Paths
  BY DEF PathOf, Paths

LEMMA ValidWrite ==
  ASSUME ValidInv, UNCHANGED settings, NEW p, NEW c,
         c = TornFile \/ validate_setup_invariants(c), yaml' = [yaml EXCEPT ![p] = c]
  PROVE  DiskConfigsValid' /\ yaml' = [q \in Paths |-> yaml'[q]]
  <1>1. DOMAIN yaml = Paths
    BY DEF ValidInv, Shaped
  <1>2. \A q \in Paths : yaml'[q] = yaml[q] \/ yaml'[q] = c
    BY <1>1
  <1> QED BY <1>1, <1>2 DEF ValidInv, DiskConfigsValid, Whole

LEMMA ValidPersistConfig == ASSUME ValidInv, PersistConfig PROVE ValidInv'
  <1> DEFINE o == FirstKey(todo.left)
  <1>1. view.at = "registry" /\ UNCHANGED <<settings, cmd>>
    BY DEF PersistConfig
  <1>2. /\ todo = [pc |-> todo.pc, s |-> todo.s, left |-> todo.left] /\ SettingsOK(todo.s)
        /\ todo.left \subseteq DOMAIN draft.orchs /\ todo.left # {} /\ DraftOK(draft)
    BY <1>1 DEF ValidInv, Shaped, SaveOK
  <1>3. CASE Savable(todo.s, o, draft.cfgs[o])
    <2>1. yaml' = [yaml EXCEPT ![PathOf(todo.s, o)] = draft.cfgs[o]]
      BY <1>3 DEF PersistConfig, WriteConfig
    <2>2. validate_setup_invariants(draft.cfgs[o])
      BY <1>3 DEF Savable, validate
    <2>3. DiskConfigsValid' /\ yaml' = [q \in Paths |-> yaml'[q]]
      BY <1>1, <2>1, <2>2, ValidWrite
    <2>4. CASE End("saved")
      BY <1>1, <2>3, <2>4, EndShaped DEF ValidInv, Shaped, CommandOK
    <2>5. CASE todo.left # {o} /\ todo' = [todo EXCEPT !.left = @ \ {o}] /\ UNCHANGED <<view, draft>>
      <3> HIDE DEF o
      <3>1. todo' = [pc |-> todo.pc, s |-> todo.s, left |-> todo.left \ {o}]
        BY <1>2, <2>5
      <3>2. todo'.pc = todo.pc /\ todo'.s = todo.s /\ todo'.left = todo.left \ {o}
        BY <3>1
      <3>3. todo' = [pc |-> todo'.pc, s |-> todo'.s, left |-> todo'.left]
        BY <3>1, <3>2
      <3>4. SaveOK'
        BY <1>1, <1>2, <2>5, <3>2, <3>3 DEF ValidInv, Shaped, SaveOK, validate_setup_bootstrap
      <3> QED BY <1>1, <2>3, <2>5, <3>4 DEF ValidInv, Shaped, CommandOK, ViewOK
    <2> QED BY <1>3, <2>4, <2>5 DEF PersistConfig
  <1>4. CASE End("half saved") /\ UNCHANGED yaml
    BY <1>1, <1>4, EndShaped, FilesValid DEF ValidInv, Shaped, CommandOK, files
  <1> QED BY <1>3, <1>4 DEF PersistConfig

LEMMA ValidPersistFails == ASSUME ValidInv, PersistFails PROVE ValidInv'
  <1>1. End("refused") /\ UNCHANGED <<files, cmd>>
    BY DEF PersistFails
  <1> QED BY <1>1, EndShaped, FilesValid DEF ValidInv, Shaped, CommandOK, files

LEMMA BreakValid ==
  ASSUME ValidInv, NEW how, NEW writing, NEW s, NEW o, NEW c, Break(how, writing, s, o, c),
         SettingsOK(s), SettingsValid(s)
  PROVE  /\ DiskConfigsValid' /\ yaml' = [q \in Paths |-> yaml'[q]]
         /\ settings'.state = "ok" => SettingsOK(settings')
         /\ how \in causes'
  <1>0. how \in causes'
    BY DEF Break
  <1>1. CASE settings' \in {settings, Torn, s} /\ UNCHANGED yaml
    <2>1. Torn.state # "ok"
      BY DEF Torn
    <2> QED BY <1>0, <1>1, <2>1 DEF ValidInv, Shaped, DiskConfigsValid, Whole
  <1>2. CASE UNCHANGED <<yaml, settings>>
    BY <1>0, <1>2, FilesValid DEF ValidInv, Shaped, files
  <1>3. CASE /\ UNCHANGED settings /\ Savable(s, o, c)
             /\ \E new \in {TornFile, c} : WriteConfig(s, o, new)
    <2>1. PICK new \in {TornFile, c} : yaml' = [yaml EXCEPT ![PathOf(s, o)] = new]
      BY <1>3 DEF WriteConfig
    <2>2. validate_setup_invariants(c)
      BY <1>3 DEF Savable, validate
    <2> QED BY <1>0, <1>3, <2>1, <2>2, ValidWrite DEF ValidInv, Shaped
  <1> QED BY <1>1, <1>2, <1>3 DEF Break

LEMMA ValidBreakSetup == ASSUME ValidInv, BreakSetup PROVE ValidInv'
  <1> DEFINE o == FirstKey(todo.left)
  <1>1. PICK how \in Breaks : /\ view.at \in {"settings", "registry"}
                              /\ Break(how, view.at, todo.s, o, draft.cfgs[o])
    BY DEF BreakSetup
  <1>2. UNCHANGED cmd /\ \E how1 : End(how1)
    BY DEF BreakSetup
  <1>3. SettingsOK(todo.s) /\ SettingsValid(todo.s)
    BY <1>1 DEF ValidInv, Shaped, SaveOK
  <1>4. /\ DiskConfigsValid' /\ yaml' = [q \in Paths |-> yaml'[q]]
        /\ settings'.state = "ok" => SettingsOK(settings')
    BY <1>1, <1>3, BreakValid
  <1> QED BY <1>2, <1>4, EndShaped DEF ValidInv, Shaped, CommandOK

LEMMA ValidBegun == ASSUME ValidInv, NEW t, NEW o, NEW c, Begun(t, o, c) PROVE ValidInv'
  <1>1. PICK pc \in {"settings", "config"} : cmd' = [pc |-> pc, s |-> t, o |-> o, c |-> c]
    BY DEF Begun, Begin
  <1>2. SettingsValid(t) /\ SettingsOK(t) /\ UNCHANGED <<files, view, draft, todo>>
    BY DEF Begun, Begin
  <1>3. cmd'.pc = pc /\ cmd'.s = t /\ cmd'.o = o /\ cmd'.c = c
    BY <1>1
  <1>4. CommandOK'
    BY <1>1, <1>2, <1>3 DEF CommandOK
  <1> QED BY <1>2, <1>4, FilesValid
          DEF ValidInv, Shaped, ViewOK, SaveOK, files, validate_setup_bootstrap

LEMMA ValidCommandSettings == ASSUME ValidInv, CommandWritesSettings PROVE ValidInv'
  <1>0. cmd # Nothing
    BY DEF CommandWritesSettings, Nothing
  <1>1. /\ cmd = [pc |-> cmd.pc, s |-> cmd.s, o |-> cmd.o, c |-> cmd.c]
        /\ SettingsOK(cmd.s) /\ SettingsValid(cmd.s)
    BY <1>0 DEF ValidInv, Shaped, CommandOK
  <1>2. settings' = cmd.s /\ UNCHANGED <<yaml, view, draft, todo>>
    BY DEF CommandWritesSettings, WriteSettings, session
  <1>3. CommandOK'
    <2>1. cmd' = Nothing \/ cmd' = [cmd EXCEPT !.pc = "config"]
      BY DEF CommandWritesSettings
    <2>2. CASE cmd' = [cmd EXCEPT !.pc = "config"]
      <3>1. cmd' = [pc |-> "config", s |-> cmd.s, o |-> cmd.o, c |-> cmd.c]
        BY <1>1, <2>2
      <3>2. cmd'.pc = "config" /\ cmd'.s = cmd.s /\ cmd'.o = cmd.o /\ cmd'.c = cmd.c
        BY <3>1
      <3> QED BY <1>1, <3>1, <3>2 DEF CommandOK
    <2> QED BY <2>1, <2>2 DEF CommandOK
  <1>4. DiskConfigsValid'
    BY <1>1, <1>2 DEF ValidInv, DiskConfigsValid, Whole
  <1> QED BY <1>1, <1>2, <1>3, <1>4 DEF ValidInv, Shaped, ViewOK, SaveOK, validate_setup_bootstrap

LEMMA ValidCommandConfig == ASSUME ValidInv, CommandWritesConfig PROVE ValidInv'
  <1>1. cmd' = Nothing /\ UNCHANGED <<settings, view, draft, todo>>
    BY DEF CommandWritesConfig, session
  <1>2. CASE Savable(cmd.s, cmd.o, cmd.c)
    <2>1. yaml' = [yaml EXCEPT ![PathOf(cmd.s, cmd.o)] = cmd.c] /\ validate_setup_invariants(cmd.c)
      BY <1>2 DEF CommandWritesConfig, WriteConfig, Savable, validate
    <2>2. DiskConfigsValid' /\ yaml' = [q \in Paths |-> yaml'[q]]
      BY <1>1, <2>1, ValidWrite
    <2> QED BY <1>1, <2>2 DEF ValidInv, Shaped, ViewOK, SaveOK, CommandOK, validate_setup_bootstrap
  <1>3. CASE UNCHANGED yaml
    BY <1>1, <1>3, FilesValid
       DEF ValidInv, Shaped, ViewOK, SaveOK, CommandOK, validate_setup_bootstrap, files
  <1> QED BY <1>2, <1>3 DEF CommandWritesConfig

LEMMA ValidBreakCommand == ASSUME ValidInv, BreakCommand PROVE ValidInv'
  <1>1. PICK how : Break(how, cmd.pc, cmd.s, cmd.o, cmd.c)
    BY DEF BreakCommand
  <1>2. cmd # Nothing /\ cmd' = Nothing /\ UNCHANGED <<view, draft, todo>>
    BY DEF BreakCommand, session
  <1>3. SettingsOK(cmd.s) /\ SettingsValid(cmd.s)
    BY <1>2 DEF ValidInv, Shaped, CommandOK
  <1>4. /\ DiskConfigsValid' /\ yaml' = [q \in Paths |-> yaml'[q]]
        /\ settings'.state = "ok" => SettingsOK(settings')
    BY <1>1, <1>3, BreakValid
  <1> QED BY <1>2, <1>4
          DEF ValidInv, Shaped, ViewOK, SaveOK, CommandOK, validate_setup_bootstrap

LEMMA ValidInit == Init => ValidInv
  <1> SUFFICES ASSUME Init PROVE ValidInv
    OBVIOUS
  <1>1. PICK start \in Starts :
          /\ settings = IF start.configured = {} THEN Absent
                  ELSE Settings("abs", [o \in start.configured |-> Entry("own", {})],
                                Only("local-default", FirstKey(start.configured)))
          /\ yaml = [p \in Paths |-> IF p[2] \in start.configured
                               THEN initial_orchestrator_config(p[2], "minimal") ELSE NoFile]
          /\ view = Off /\ cmd = Nothing
    BY DEF Init
  <1> DEFINE S == start.configured
             f == [o \in S |-> Entry("own", {})]
             g == Only("local-default", FirstKey(S))
  <1>2. S \subseteq Orchs
    BY ConstantsOK
  <1>3. EntriesOK(f) /\ DOMAIN f = S /\ \A o \in S : f[o].shared = {}
    BY <1>2, OwnOK DEF Entry
  <1>4. \A x \in DOMAIN g : g[x] = FirstKey(S)
    BY DEF Only
  <1> HIDE DEF f, g
  <1>5. S # {} => SettingsOK(Settings("abs", f, g)) /\ SettingsValid(Settings("abs", f, g))
    BY <1>2, <1>3, <1>4, SettingsMade, FirstKeyIn DEF SettingsValid
  <1>6. settings.state = "ok" => SettingsOK(settings) /\ SettingsValid(settings)
    <2>1. settings = Absent \/ (S # {} /\ settings = Settings("abs", f, g))
      BY <1>1 DEF f, g
    <2> QED BY <1>5, <2>1 DEF Absent
  <1>7. \A p \in Paths : yaml[p] = NoFile \/ validate_setup_invariants(yaml[p])
    <2>1. \A p \in Paths : yaml[p] = NoFile \/ yaml[p] = initial_orchestrator_config(p[2], "minimal")
      BY <1>1
    <2> QED BY <2>1, MinimalValid
  <1>8. yaml = [p \in Paths |-> yaml[p]]
    BY <1>1
  <1> QED BY <1>1, <1>6, <1>7, <1>8, Views
          DEF ValidInv, Shaped, ViewOK, SaveOK, CommandOK, DiskConfigsValid, Whole

LEMMA ValidNext == ValidInv /\ [Next]_vars => ValidInv'
  <1> SUFFICES ASSUME ValidInv, [Next]_vars PROVE ValidInv'
    OBVIOUS
  <1>1. CASE UNCHANGED vars
    BY <1>1, FilesValid
       DEF ValidInv, Shaped, ViewOK, SaveOK, CommandOK, validate_setup_bootstrap, vars, files
  <1>2. CASE Persist
    BY <1>2, ValidNormalize, ValidPersistFails, ValidPersistSettings, ValidPersistConfig,
       ValidBreakSetup DEF Persist
  <1>3. CASE Command
    BY <1>3, CommandSteps, ValidBegun, ValidCommandSettings, ValidCommandConfig, ValidBreakCommand
       DEF ValidInv
  <1> QED BY <1>1, <1>2, <1>3, ValidOpen, ValidScreen DEF Next

LEMMA ValidAlways == Spec => []ValidInv
  BY ValidInit, ValidNext, PTL DEF Spec

\* Whatever state the edits leave the draft in, and however setup and commands overlap
\* and die, settings and configurations that were written completely pass their
\* validation (save_settings, save_orchestrator_config).
THEOREM FilesAreValid == Spec => []DiskConfigsValid
  <1>1. ValidInv => DiskConfigsValid
    BY DEF ValidInv
  <1> QED BY <1>1, ValidAlways, PTL

-----------------------------------------------------------------------------
(***************************************************************************)
(* Every orchestrator loads.  Until something happened that the code has   *)
(* no defence against, the settings name workspaces that resolve and are   *)
(* apart; each orchestrator's file loads or is about to be written; a save *)
(* or a command that is past its first write has written the settings that *)
(* are on disk; and what a command is about to make of the settings leaves *)
(* each orchestrator where it was or brings its file along.                *)
(***************************************************************************)
Blameless ==
    causes \cap {"crash", "io", "relative", "collision", "overlap", "prompt"} = {}

Loads(y, s, o) ==
    /\ Resolves(s, o)
    /\ y[PathOf(s, o)] # NoFile
    /\ validate(y[PathOf(s, o)], DOMAIN s.orchs, o)

Awaited(o) ==
    \/ view.at = "registry" /\ o \in todo.left
    \/ /\ cmd.pc = "config" /\ o = cmd.o
       /\ Resolves(cmd.s, o) /\ validate(cmd.c, DOMAIN cmd.s.orchs, o)

Apart(s) == MountsReconcile(s) /\ ~Collides(s)

AllLoad ==
    settings.state = "ok" =>
        /\ Apart(settings)
        /\ \A o \in DOMAIN settings.orchs : Loads(yaml, settings, o) \/ Awaited(o)

Abreast ==
    /\ view.at = "registry" => settings = todo.s
    /\ cmd.pc = "config" => settings = cmd.s
    /\ cmd.pc = "settings" => settings.state = "ok" /\ Continues(settings, cmd.s, cmd.o, cmd.c)

LoadInv == Blameless => AllLoad /\ Abreast

LEMMA LoadFrame ==
  ASSUME LoadInv, UNCHANGED <<files, causes, cmd>>, view.at # "registry", view'.at # "registry"
  PROVE  LoadInv'
  BY DEF LoadInv, Blameless, AllLoad, Abreast, Awaited, files

\* Orchestrators that are apart have files of their own.
LEMMA PathsApart ==
  ASSUME NEW s, SettingsOK(s), Apart(s), NEW o \in DOMAIN s.orchs, NEW p \in DOMAIN s.orchs,
         PathOf(s, o) = PathOf(s, p)
  PROVE  o = p
  <1>1. s.orchs[o].ws \in {"own", "abs"} /\ s.orchs[p].ws \in {"own", "abs"}
    BY DEF SettingsOK, EntriesOK, Apart, MountsReconcile, Resolves, Workspaces
  <1>2. s.orchs[o].ws = "abs" /\ s.orchs[p].ws = "abs" => o = p
    BY DEF Apart, Collides
  <1> QED BY <1>1, <1>2 DEF PathOf

LEMMA WriteLoads ==
  ASSUME NEW s, SettingsOK(s), Apart(s), NEW o, NEW c, Savable(s, o, c),
         NEW y, NEW z, z[PathOf(s, o)] = c, \A q \in Paths \ {PathOf(s, o)} : z[q] = y[q]
  PROVE  Loads(z, s, o) /\ \A p : Loads(y, s, p) => Loads(z, s, p)
  <1>1. o \in DOMAIN s.orchs /\ o \in Orchs /\ DOMAIN s.orchs \subseteq Orchs
    BY DEF Savable, Resolves, SettingsOK, EntriesOK
  <1>3. c # NoFile
    BY <1>1, ConfigIsFile DEF Savable, validate
  <1>4. Loads(z, s, o)
    BY <1>3 DEF Loads, Savable
  <1>5. ASSUME NEW p, Loads(y, s, p), p # o PROVE Loads(z, s, p)
    <2>1. p \in DOMAIN s.orchs
      BY <1>5 DEF Loads, Resolves
    <2>2. PathOf(s, p) # PathOf(s, o) /\ PathOf(s, p) \in Paths
      BY <1>1, <1>5, <2>1, PathsApart, PathIn
    <2>3. z[PathOf(s, p)] = y[PathOf(s, p)]
      BY <2>2
    <2> QED BY <1>5, <2>3 DEF Loads
  <1> QED BY <1>4, <1>5

LEMMA LoadInit == Init => LoadInv
  <1> SUFFICES ASSUME Init PROVE LoadInv
    OBVIOUS
  <1>1. PICK start \in Starts :
          /\ settings = IF start.configured = {} THEN Absent
                  ELSE Settings("abs", [o \in start.configured |-> Entry("own", {})],
                                Only("local-default", FirstKey(start.configured)))
          /\ yaml = [p \in Paths |-> IF p[2] \in start.configured
                               THEN initial_orchestrator_config(p[2], "minimal") ELSE NoFile]
          /\ view = Off /\ cmd = Nothing
    BY DEF Init
  <1> DEFINE S == start.configured
             f == [o \in S |-> Entry("own", {})]
             g == Only("local-default", FirstKey(S))
  <1>2. S \subseteq Orchs
    BY ConstantsOK
  <1>3. EntriesOK(f) /\ DOMAIN f = S /\ \A o \in S : f[o].ws = "own"
    BY <1>2, OwnOK DEF Entry
  <1>4. settings = Absent \/ settings = Settings("abs", f, g)
    BY <1>1
  <1> HIDE DEF f, g
  <1>5. ASSUME settings.state = "ok" PROVE settings.orchs = f
    BY <1>4, <1>5, SettingsMade DEF Absent
  <1>6. ASSUME settings.state = "ok" PROVE Apart(settings)
    BY <1>3, <1>5, <1>6 DEF Apart, MountsReconcile, Collides, Resolves
  <1>7. ASSUME settings.state = "ok", NEW o \in DOMAIN settings.orchs PROVE Loads(yaml, settings, o)
    <2>1. o \in S /\ PathOf(settings, o) = <<"own", o>> /\ <<"own", o>> \in Paths
      BY <1>2, <1>3, <1>5, <1>7 DEF PathOf, Paths
    <2>2. <<"own", o>>[2] = o
      OBVIOUS
    <2>3. yaml[<<"own", o>>] = initial_orchestrator_config(o, "minimal")
      BY <1>1, <2>1, <2>2
    <2>4. validate_setup_invariants(yaml[<<"own", o>>]) /\ yaml[<<"own", o>>].id = o
      BY <2>3, MinimalValid
    <2>5. yaml[<<"own", o>>] # NoFile
      BY <1>2, <2>1, <2>4, ConfigIsFile
    <2> QED BY <1>6, <1>7, <2>1, <2>4, <2>5 DEF Loads, validate, Apart, MountsReconcile
  <1>8. view.at = "off" /\ cmd.pc = "idle"
    BY <1>1, Views DEF Nothing
  <1> QED BY <1>6, <1>7, <1>8 DEF LoadInv, AllLoad, Abreast

LEMMA LoadBegun == ASSUME LoadInv, NEW t, NEW o, NEW c, Begun(t, o, c) PROVE LoadInv'
  <1>1. /\ UNCHANGED <<files, view, todo, causes>> /\ cmd = Nothing
        /\ settings.state = "ok"
    BY DEF Begun, Begin, load_settings
  <1>2. PICK pc \in {"settings", "config"} :
          /\ cmd' = [pc |-> pc, s |-> t, o |-> o, c |-> c]
          /\ pc = "settings" => Continues(settings, t, o, c)
          /\ pc = "config" => t = settings
    BY DEF Begun, Begin
  <1>3. cmd'.pc = pc /\ cmd'.s = t /\ cmd'.o = o /\ cmd'.c = c
    BY <1>2
  <1>4. cmd.pc = "idle"
    BY <1>1 DEF Nothing
  <1> QED BY <1>1, <1>2, <1>3, <1>4 DEF LoadInv, Blameless, AllLoad, Abreast, Awaited, files

LEMMA WrittenApart ==
  ASSUME NEW s, WriteSettings(s), Blameless'
  PROVE  Blameless /\ Apart(s) /\ (cmd = Nothing \/ view.at \notin {"settings", "registry"})
  BY DEF WriteSettings, Blameless, Apart

LEMMA PromptBlameless ==
  ASSUME NEW c, causes' = causes \cup PromptRefused(c), Blameless'
  PROVE  Blameless /\ PromptsResolve(c)
  BY DEF PromptRefused, Blameless

LEMMA LoadPersistSettings == ASSUME ValidInv, LoadInv, PersistSettings PROVE LoadInv'
  <1> SUFFICES ASSUME Blameless' PROVE (AllLoad /\ Abreast)'
    BY DEF LoadInv
  <1>1. view.at = "settings" /\ WriteSettings(todo.s) /\ UNCHANGED cmd
    BY DEF PersistSettings
  <1>2. Apart(todo.s) /\ cmd = Nothing
    BY <1>1, WrittenApart
  <1>3. settings' = todo.s /\ view' = [view EXCEPT !.at = "registry"] /\ UNCHANGED todo
    BY <1>2 DEF PersistSettings, WriteSettings, Apart
  <1>4. view'.at = "registry"
    BY <1>3 DEF ValidInv, Shaped, ViewOK, IsView
  <1>5. DOMAIN todo.s.orchs = todo.left
    BY <1>1 DEF ValidInv, Shaped, SaveOK
  <1>6. cmd'.pc = "idle"
    BY <1>1, <1>2 DEF Nothing
  <1> QED BY <1>2, <1>3, <1>4, <1>5, <1>6 DEF AllLoad, Abreast, Awaited

LEMMA LoadPersistConfig == ASSUME ValidInv, LoadInv, PersistConfig PROVE LoadInv'
  <1> SUFFICES ASSUME Blameless' PROVE (AllLoad /\ Abreast)'
    BY DEF LoadInv
  <1> DEFINE o == FirstKey(todo.left)
  <1>1. /\ view.at = "registry" /\ UNCHANGED <<settings, cmd>>
        /\ causes' = causes \cup PromptRefused(draft.cfgs[o])
    BY DEF PersistConfig
  <1>0. Blameless /\ PromptsResolve(draft.cfgs[o])
    BY <1>1, PromptBlameless
  <1>2. /\ todo = [pc |-> todo.pc, s |-> todo.s, left |-> todo.left]
        /\ SettingsOK(todo.s) /\ todo.s.orchs = draft.orchs /\ validate_setup_bootstrap(draft)
        /\ todo.left \subseteq DOMAIN draft.orchs /\ todo.left # {}
    BY <1>1 DEF ValidInv, Shaped, SaveOK
  <1>3. todo.s.state = "ok"
    BY <1>2, SettingsMade DEF SettingsOK
  <1>4. AllLoad /\ Abreast /\ settings = todo.s /\ Apart(settings)
    BY <1>0, <1>1, <1>3 DEF LoadInv, Abreast, AllLoad
  <1>5. o \in todo.left
    BY <1>2, FirstKeyIn DEF SettingsOK, EntriesOK
  <1>6. Savable(todo.s, o, draft.cfgs[o])
    BY <1>0, <1>2, <1>4, <1>5 DEF Savable, validate_setup_bootstrap, Apart, MountsReconcile
  <1>7. yaml' = [yaml EXCEPT ![PathOf(todo.s, o)] = draft.cfgs[o]]
    BY <1>6 DEF PersistConfig, WriteConfig
  <1> HIDE DEF o
  <1>8. Loads(yaml', settings, o) /\ \A p : Loads(yaml, settings, p) => Loads(yaml', settings, p)
    <2>1. DOMAIN yaml = Paths
      BY DEF ValidInv, Shaped
    <2>2. /\ SettingsOK(settings) /\ Apart(settings) /\ Savable(settings, o, draft.cfgs[o])
          /\ yaml' = [yaml EXCEPT ![PathOf(settings, o)] = draft.cfgs[o]]
      BY <1>2, <1>4, <1>6, <1>7
    <2>3. PathOf(settings, o) \in Paths
      BY <2>2, PathIn DEF SettingsOK, EntriesOK, Savable, Resolves
    <2>4. /\ yaml'[PathOf(settings, o)] = draft.cfgs[o]
          /\ \A q \in Paths \ {PathOf(settings, o)} : yaml'[q] = yaml[q]
      BY <2>1, <2>2, <2>3
    <2>5. PICK c : c = draft.cfgs[o]
      OBVIOUS
    <2>6. /\ SettingsOK(settings) /\ Apart(settings) /\ Savable(settings, o, c)
          /\ yaml'[PathOf(settings, o)] = c
      BY <2>2, <2>4, <2>5
    <2>7. \A q \in Paths \ {PathOf(settings, o)} : yaml'[q] = yaml[q]
      BY <2>4
    <2> QED BY <2>6, <2>7, WriteLoads
  <1>9. CASE todo.left = {o} /\ view' = Off
    BY <1>1, <1>3, <1>4, <1>8, <1>9, Views DEF AllLoad, Abreast, Awaited
  <1>10. CASE todo' = [todo EXCEPT !.left = @ \ {o}] /\ UNCHANGED view
    <2>1. todo' = [pc |-> todo.pc, s |-> todo.s, left |-> todo.left \ {o}]
      BY <1>2, <1>10
    <2>2. todo'.s = todo.s /\ todo'.left = todo.left \ {o}
      BY <2>1
    <2> QED BY <1>1, <1>3, <1>4, <1>8, <1>10, <2>2 DEF AllLoad, Abreast, Awaited
  <1> QED BY <1>6, <1>9, <1>10 DEF PersistConfig, End, o

LEMMA LoadCommandSettings == ASSUME ValidInv, LoadInv, CommandWritesSettings PROVE LoadInv'
  <1> SUFFICES ASSUME Blameless' PROVE (AllLoad /\ Abreast)'
    BY DEF LoadInv
  <1>0. cmd # Nothing
    BY DEF CommandWritesSettings, Nothing
  <1>1. /\ cmd.pc = "settings" /\ WriteSettings(cmd.s) /\ settings' = cmd.s
        /\ UNCHANGED <<yaml, view, todo>>
    BY DEF CommandWritesSettings, WriteSettings, session
  <1>2. /\ Blameless /\ Apart(cmd.s) /\ view.at # "registry"
    BY <1>0, <1>1, WrittenApart
  <1>3. /\ cmd = [pc |-> cmd.pc, s |-> cmd.s, o |-> cmd.o, c |-> cmd.c] /\ SettingsOK(cmd.s)
    BY <1>0 DEF ValidInv, Shaped, CommandOK
  <1>4. settings.state = "ok" /\ Continues(settings, cmd.s, cmd.o, cmd.c)
    BY <1>1, <1>2 DEF LoadInv, Abreast
  <1>5. \A p \in DOMAIN settings.orchs : Loads(yaml, settings, p)
    BY <1>1, <1>2, <1>4 DEF LoadInv, AllLoad, Awaited
  <1>6. /\ cmd.c # NoFile => cmd' = [cmd EXCEPT !.pc = "config"]
        /\ cmd.c = NoFile => cmd' = Nothing
    BY <1>2 DEF CommandWritesSettings, Apart
  <1>7. /\ cmd.c # NoFile => cmd'.pc = "config" /\ cmd'.s = cmd.s /\ cmd'.o = cmd.o /\ cmd'.c = cmd.c
        /\ cmd.c = NoFile => cmd'.pc = "idle"
    <2>1. CASE cmd.c # NoFile
      <3>1. cmd' = [pc |-> "config", s |-> cmd.s, o |-> cmd.o, c |-> cmd.c]
        BY <1>3, <1>6, <2>1
      <3> QED BY <2>1, <3>1
    <2> QED BY <1>6, <2>1 DEF Nothing
  <1>8. ASSUME NEW p \in DOMAIN cmd.s.orchs PROVE Loads(yaml, cmd.s, p) \/ Awaited(p)'
    <2>1. Resolves(cmd.s, p)
      BY <1>2 DEF Apart, MountsReconcile
    <2>2. CASE p \in DOMAIN settings.orchs /\ cmd.s.orchs[p].ws = settings.orchs[p].ws
      <3>1. PathOf(cmd.s, p) = PathOf(settings, p)
        BY <2>2 DEF PathOf
      <3> QED BY <1>5, <2>1, <2>2, <3>1 DEF Loads, validate
    <2>3. CASE p = cmd.o /\ cmd.c # NoFile /\ validate(cmd.c, DOMAIN cmd.s.orchs, p)
      BY <1>7, <2>1, <2>3 DEF Awaited
    <2> QED BY <1>4, <2>2, <2>3 DEF Continues
  <1>9. AllLoad'
    BY <1>1, <1>2, <1>8 DEF AllLoad
  <1>10. Abreast'
    BY <1>1, <1>2, <1>7 DEF Abreast
  <1> QED BY <1>9, <1>10

LEMMA LoadCommandConfig == ASSUME ValidInv, LoadInv, CommandWritesConfig PROVE LoadInv'
  <1> SUFFICES ASSUME Blameless' PROVE (AllLoad /\ Abreast)'
    BY DEF LoadInv
  <1>0. cmd # Nothing
    BY DEF CommandWritesConfig, Nothing
  <1>1. /\ cmd.pc = "config" /\ cmd' = Nothing /\ UNCHANGED <<settings, view, todo>>
        /\ causes' = causes \cup PromptRefused(cmd.c)
    BY DEF CommandWritesConfig, session
  <1>a. Blameless /\ PromptsResolve(cmd.c)
    BY <1>1, PromptBlameless
  <1>2. AllLoad /\ Abreast /\ settings = cmd.s /\ SettingsOK(cmd.s)
    BY <1>0, <1>1, <1>a DEF LoadInv, Abreast, ValidInv, Shaped, CommandOK
  <1>3. settings.state = "ok" /\ Apart(settings)
    <2>1. settings.state = "ok"
      BY <1>2, SettingsMade DEF SettingsOK
    <2> QED BY <1>2, <2>1 DEF AllLoad
  <1>4. cmd'.pc = "idle"
    BY <1>1 DEF Nothing
  <1>5. CASE Savable(cmd.s, cmd.o, cmd.c)
    <2>1. yaml' = [yaml EXCEPT ![PathOf(settings, cmd.o)] = cmd.c]
      BY <1>2, <1>5 DEF CommandWritesConfig, WriteConfig
    <2>2. DOMAIN yaml = Paths
      BY DEF ValidInv, Shaped
    <2>3. /\ Loads(yaml', settings, cmd.o)
          /\ \A p : Loads(yaml, settings, p) => Loads(yaml', settings, p)
      <3>1. SettingsOK(settings) /\ Apart(settings) /\ Savable(settings, cmd.o, cmd.c)
        BY <1>2, <1>3, <1>5
      <3>2. PathOf(settings, cmd.o) \in Paths
        BY <3>1, PathIn DEF SettingsOK, EntriesOK, Savable, Resolves
      <3>3. /\ yaml'[PathOf(settings, cmd.o)] = cmd.c
            /\ \A q \in Paths \ {PathOf(settings, cmd.o)} : yaml'[q] = yaml[q]
        BY <2>1, <2>2, <3>2
      <3> QED BY <3>1, <3>3, WriteLoads
    <2> QED BY <1>1, <1>2, <1>3, <1>4, <2>3 DEF AllLoad, Abreast, Awaited
  <1>6. CASE ~Savable(cmd.s, cmd.o, cmd.c)
    <2>1. UNCHANGED yaml
      BY <1>6 DEF CommandWritesConfig
    <2>2. \A o : ~(o = cmd.o /\ Resolves(cmd.s, o) /\ validate(cmd.c, DOMAIN cmd.s.orchs, o))
      BY <1>6, <1>a DEF Savable
    <2> QED BY <1>1, <1>2, <1>3, <1>4, <2>1, <2>2 DEF AllLoad, Abreast, Awaited
  <1> QED BY <1>5, <1>6

LEMMA LoadNext == ValidInv /\ LoadInv /\ [Next]_vars => LoadInv'
  <1> SUFFICES ASSUME ValidInv, LoadInv, [Next]_vars PROVE LoadInv'
    OBVIOUS
  <1>1. CASE UNCHANGED vars
    BY <1>1 DEF LoadInv, Blameless, AllLoad, Abreast, Awaited, vars
  <1>2. CASE cmd_setup
    BY <1>2, Views, LoadFrame DEF cmd_setup
  <1>3. CASE Screen
    <2>1. Screened
      BY <1>3, ScreenIsScreened DEF ValidInv
    <2> QED BY <2>1, LoadFrame DEF Screened, Editing
  <1>4. CASE normalize_for_save
    <2>1. /\ UNCHANGED <<files, causes, cmd>> /\ view.at = "persist"
          /\ view' = Off \/ view' = [view EXCEPT !.at = "settings"]
      BY <1>4, Zenon DEF normalize_for_save, End
    <2>2. view'.at \in {"off", "settings"}
      BY <2>1, Views DEF ValidInv, Shaped, ViewOK, IsView
    <2> QED BY <2>1, <2>2, LoadFrame
  <1>a. CASE PersistFails
    <2>1. UNCHANGED <<files, causes, cmd>> /\ view.at = "persist" /\ view' = Off
      BY <1>a DEF PersistFails, End
    <2> QED BY <2>1, Views, LoadFrame
  <1>5. CASE BreakSetup \/ BreakCommand
    <2>1. "crash" \in causes' \/ "io" \in causes'
      BY <1>5 DEF BreakSetup, BreakCommand, Break, Breaks
    <2> QED BY <2>1 DEF LoadInv, Blameless
  <1>6. CASE Command
    BY <1>5, <1>6, CommandSteps, LoadBegun, LoadCommandSettings, LoadCommandConfig DEF ValidInv
  <1> QED BY <1>1, <1>2, <1>3, <1>4, <1>a, <1>5, <1>6, LoadPersistSettings, LoadPersistConfig
          DEF Next, Persist

\* However setup and commands interleave, an orchestrator named by settings that load has
\* a configuration that loads, unless a save or a command is between its two writes, a
\* writer died or could not make a file, a directory or a mount, the two wrote at once, a
\* configuration was refused for the path of a prompt, or a private workspace is relative
\* or shared (persist_setup_state, save_settings, load_orchestrator_config).
THEOREM OrchestratorsLoad == Spec => []UnloadableHasCause
  <1>1. LoadInv => UnloadableHasCause
    BY DEF LoadInv, Blameless, AllLoad, Awaited, Loads, UnloadableHasCause, load_settings,
           load_orchestrator_config
  <1>2. Spec => []LoadInv
    BY LoadInit, LoadNext, ValidAlways, PTL DEF Spec
  <1> QED BY <1>1, <1>2, PTL

-----------------------------------------------------------------------------
(* Lists in order                                                          *)

\* R puts the members of `at` in one line.
Ordered(at, R) ==
    /\ \A i, j \in at : <<i, j>> \in R \/ <<j, i>> \in R
    /\ \A i, j \in at : <<i, j>> \in R /\ <<j, i>> \in R => i = j
    /\ \A i, j, k \in at : <<i, j>> \in R /\ <<j, k>> \in R => <<i, k>> \in R

\* The number of members up to one of them is its place, and every place is taken.
LEMMA Places ==
  ASSUME NEW at, IsFiniteSet(at), NEW R, Ordered(at, R)
  PROVE  /\ Cardinality(at) \in Nat
         /\ \A i \in at : Cardinality({j \in at : <<j, i>> \in R}) \in 1 .. Cardinality(at)
         /\ \A i, l \in at : Cardinality({j \in at : <<j, i>> \in R}) =
                             Cardinality({j \in at : <<j, l>> \in R}) => i = l
         /\ \A k \in 1 .. Cardinality(at) :
               \E i \in at : Cardinality({j \in at : <<j, i>> \in R}) = k
  <1> DEFINE upto(i) == {x \in at : <<x, i>> \in R}
             place == [i \in at |-> Cardinality(upto(i))]
             C == Cardinality(at)
  <1>1. C \in Nat
    BY FS_CardinalityType
  <1>2. ASSUME NEW i \in at PROVE IsFiniteSet(upto(i)) /\ Cardinality(upto(i)) \in 1 .. C
    <2>1. upto(i) \in SUBSET at /\ upto(i) # {}
      BY DEF Ordered
    <2> HIDE DEF upto
    <2>2. IsFiniteSet(upto(i)) /\ Cardinality(upto(i)) <= C
      BY <2>1, FS_Subset
    <2>3. Cardinality(upto(i)) \in Nat /\ Cardinality(upto(i)) # 0
      BY <2>1, <2>2, FS_CardinalityType, FS_EmptySet
    <2> QED BY <1>1, <2>2, <2>3
  <1>3. ASSUME NEW i \in at, NEW l \in at, <<i, l>> \in R, Cardinality(upto(i)) = Cardinality(upto(l))
        PROVE  i = l
    <2>1. upto(i) \in SUBSET upto(l) /\ l \in upto(l)
      BY <1>3 DEF Ordered
    <2>2. l \in upto(i) => i = l
      BY <1>3 DEF Ordered
    <2>3. IsFiniteSet(upto(l))
      BY <1>2
    <2> HIDE DEF upto
    <2>4. upto(i) = upto(l)
      BY <1>3, <2>1, <2>3, FS_Subset
    <2> QED BY <2>1, <2>2, <2>4
  <1>4. \A i, l \in at : Cardinality(upto(i)) = Cardinality(upto(l)) => i = l
    <2> SUFFICES ASSUME NEW i \in at, NEW l \in at, Cardinality(upto(i)) = Cardinality(upto(l))
                 PROVE  i = l
      OBVIOUS
    <2>1. <<i, l>> \in R \/ <<l, i>> \in R
      BY DEF Ordered
    <2>2. CASE <<i, l>> \in R
      <3> HIDE DEF upto
      <3> QED BY <1>3, <2>2
    <2>3. CASE <<l, i>> \in R
      <3> HIDE DEF upto
      <3> QED BY <1>3, <2>3
    <2> QED BY <2>1, <2>2, <2>3
  <1>5. place \in Injection(at, 1 .. C)
    <2>1. place \in [at -> 1 .. C]
      BY <1>2
    <2>2. \A i, l \in at : place[i] = place[l] => i = l
      BY <1>4
    <2> HIDE DEF place, C
    <2> QED BY <2>1, <2>2 DEF Injection, IsInjective
  <1>6. Cardinality(1 .. C) = C /\ IsFiniteSet(1 .. C)
    BY <1>1, FS_Interval
  <1>7. place \in Surjection(at, 1 .. C)
    <2> HIDE DEF place
    <2> QED BY <1>5, <1>6, FS_Injection
  <1>8. ASSUME NEW k \in 1 .. C PROVE \E i \in at : Cardinality(upto(i)) = k
    <2>1. \E i \in at : place[i] = k
      <3> HIDE DEF place, C
      <3> QED BY <1>7, <1>8 DEF Surjection
    <2> QED BY <2>1
  <1> QED BY <1>1, <1>2, <1>4, <1>8

\* s lists the entries of seq at the positions `at`, each once.
Lists(s, seq, at) ==
    \E C \in Nat : \E pick \in [1 .. C -> at] :
        /\ s = [k \in 1 .. C |-> seq[pick[k]]]
        /\ \A k, l \in 1 .. C : pick[k] = pick[l] => k = l
        /\ \A i \in at : \E k \in 1 .. C : pick[k] = i

LEMMA InOrderFact ==
  ASSUME NEW seq, NEW at, IsFiniteSet(at), NEW R, Ordered(at, R)
  PROVE  Lists(InOrder(seq, at, R), seq, at)
  <1> DEFINE place(i) == Cardinality({j \in at : <<j, i>> \in R})
             C == Cardinality(at)
             pick == [k \in 1 .. C |-> CHOOSE i \in at : place(i) = k]
  <1>1. /\ C \in Nat
        /\ \A i \in at : place(i) \in 1 .. C
        /\ \A i, l \in at : place(i) = place(l) => i = l
        /\ \A k \in 1 .. C : \E i \in at : place(i) = k
    BY Places
  <1>2. InOrder(seq, at, R) = [k \in 1 .. C |-> seq[pick[k]]]
    BY DEF InOrder
  <1> HIDE DEF place, C
  <1>3. \A k \in 1 .. C : pick[k] \in at /\ place(pick[k]) = k
    BY <1>1
  <1>4. pick \in [1 .. C -> at]
    BY <1>3
  <1>5. \A i \in at : pick[place(i)] = i
    BY <1>1, <1>3
  <1>6. /\ \A k, l \in 1 .. C : pick[k] = pick[l] => k = l
        /\ \A i \in at : \E k \in 1 .. C : pick[k] = i
    <2> HIDE DEF pick
    <2> QED BY <1>1, <1>3, <1>5
  <1> HIDE DEF pick
  <1> QED BY <1>1, <1>2, <1>4, <1>6 DEF Lists

-----------------------------------------------------------------------------
(* Shapes of configurations.  Every edit keeps them, also one that is      *)
(* refused and one that is given an id that is gone.                       *)

\* A list.
Listed(s) == (\E n \in Nat : DOMAIN s = 1 .. n) /\ s = [i \in DOMAIN s |-> s[i]]

\* A workflow id: a name with a place in the alphabet, and a number.
IdOK(x) == Rank[x[1]] \in Nat /\ x[2] \in Nat

StepShape(step) ==
    {"id", "type", "agent", "targets", "outputs", "files", "priority"} \subseteq DOMAIN step

StepsShape(steps) == Listed(steps) /\ \A i \in DOMAIN steps : StepShape(steps[i])

WorkflowShape(wf) == {"id", "steps"} \subseteq DOMAIN wf /\ IdOK(wf.id) /\ StepsShape(wf.steps)

WorkflowsShape(wfs) == Listed(wfs) /\ \A i \in DOMAIN wfs : WorkflowShape(wfs[i])

ConfigShape(c) ==
    /\ {"id", "selector", "default", "agents", "workflows"} \subseteq DOMAIN c
    /\ WorkflowsShape(c.workflows)

LEMMA ListedSeq == ASSUME NEW s, Listed(s) PROVE \E S : s \in Seq(S)
  <1>1. PICK n \in Nat : DOMAIN s = 1 .. n /\ s = [i \in 1 .. n |-> s[i]]
    BY DEF Listed
  <1> DEFINE S == {s[i] : i \in 1 .. n}
  <1>2. s \in Seq(S)
    BY <1>1
  <1> QED BY <1>2

LEMMA IntsOrdered ==
  ASSUME NEW at, at \subseteq Int, NEW R, \A i, j \in at : <<i, j>> \in R <=> i <= j
  PROVE  Ordered(at, R)
  BY DEF Ordered

LEMMA WithoutFact ==
  ASSUME NEW seq, NEW n \in Nat, DOMAIN seq = 1 .. n, NEW id
  PROVE  /\ Listed(Without(seq, id))
         /\ \A k \in DOMAIN Without(seq, id) : \E i \in DOMAIN seq : Without(seq, id)[k] = seq[i]
  <1>1. PICK at : at = {i \in DOMAIN seq : seq[i].id /= id}
    OBVIOUS
  <1>2. PICK R : R = {p \in at \X at : p[1] <= p[2]}
    OBVIOUS
  <1>3. Without(seq, id) = InOrder(seq, at, R)
    BY <1>1, <1>2 DEF Without
  <1>4. at \subseteq 1 .. n /\ at \subseteq Int /\ \A i, j \in at : <<i, j>> \in R <=> i <= j
    BY <1>1, <1>2
  <1>5. IsFiniteSet(1 .. n)
    BY FS_Interval
  <1>6. IsFiniteSet(at)
    BY <1>4, <1>5, FS_Subset
  <1>7. Ordered(at, R)
    BY <1>4, IntsOrdered
  <1>8. Lists(InOrder(seq, at, R), seq, at)
    BY <1>6, <1>7, InOrderFact
  <1>9. PICK C \in Nat : \E pick \in [1 .. C -> at] :
          InOrder(seq, at, R) = [k \in 1 .. C |-> seq[pick[k]]]
    BY <1>8 DEF Lists
  <1>9a. PICK pick \in [1 .. C -> at] : InOrder(seq, at, R) = [k \in 1 .. C |-> seq[pick[k]]]
    BY <1>9
  <1>10. \A k \in 1 .. C : pick[k] \in DOMAIN seq
    BY <1>4, <1>9a
  <1>11. PICK s : s = Without(seq, id) /\ s = [k \in 1 .. C |-> seq[pick[k]]]
    BY <1>3, <1>9a
  <1>12. Listed(s) /\ \A k \in DOMAIN s : \E i \in DOMAIN seq : s[k] = seq[i]
    BY <1>10, <1>11 DEF Listed
  <1> QED BY <1>11, <1>12

LEMMA ByIdFact ==
  ASSUME NEW seq, NEW n \in Nat, DOMAIN seq = 1 .. n, \A i \in 1 .. n : IdOK(seq[i].id)
  PROVE  /\ Listed(ById(seq))
         /\ \A k \in DOMAIN ById(seq) : \E i \in 1 .. n : ById(seq)[k] = seq[i]
         /\ \A i \in 1 .. n : \E k \in DOMAIN ById(seq) : ById(seq)[k] = seq[i]
         /\ (\A i, j \in 1 .. n : seq[i].id = seq[j].id => i = j)
              => \A k, l \in DOMAIN ById(seq) : ById(seq)[k].id = ById(seq)[l].id => k = l
  <1>0. PICK at : at = 1 .. n
    OBVIOUS
  <1> DEFINE B(x, y) == IdBefore(seq[x].id, seq[y].id)
             R == {p \in at \X at : B(p[1], p[2]) \/ (~B(p[2], p[1]) /\ p[1] <= p[2])}
  <1>1. IsFiniteSet(at)
    BY <1>0, FS_Interval
  <1>2. \A i, j \in at : <<i, j>> \in R <=> B(i, j) \/ (~B(j, i) /\ i <= j)
    <2> HIDE DEF B
    <2> QED OBVIOUS
  <1>3. PICK r \in [at -> Nat], m \in [at -> Nat] :
          \A i \in at : r[i] = Rank[seq[i].id[1]] /\ m[i] = seq[i].id[2]
    <2>1. [i \in at |-> Rank[seq[i].id[1]]] \in [at -> Nat] /\ [i \in at |-> seq[i].id[2]] \in [at -> Nat]
      BY <1>0 DEF IdOK
    <2> QED BY <2>1
  <1>4. \A i, j \in at : B(i, j) <=> r[i] < r[j] \/ (r[i] = r[j] /\ m[i] < m[j])
    BY <1>3 DEF IdBefore
  <1>5. ById(seq) = InOrder(seq, at, R)
    BY <1>0 DEF ById
  <1> HIDE DEF R, B
  <1>6. \A i \in at : i \in Int /\ r[i] \in Int /\ m[i] \in Int
    BY <1>0, <1>3
  <1>7. Ordered(at, R)
    <2>1. ASSUME NEW i \in at, NEW j \in at
          PROVE  /\ <<i, j>> \in R \/ <<j, i>> \in R
                 /\ <<i, j>> \in R /\ <<j, i>> \in R => i = j
      BY <1>2, <1>4, <1>6
    <2>2. ASSUME NEW i \in at, NEW j \in at, NEW k \in at, <<i, j>> \in R, <<j, k>> \in R
          PROVE  <<i, k>> \in R
      BY <1>2, <1>4, <1>6, <2>2
    <2>3. \A i, j \in at : <<i, j>> \in R \/ <<j, i>> \in R
      BY <2>1
    <2>4. \A i, j \in at : <<i, j>> \in R /\ <<j, i>> \in R => i = j
      BY <2>1
    <2>5. \A i, j, k \in at : <<i, j>> \in R /\ <<j, k>> \in R => <<i, k>> \in R
      BY <2>2
    <2> QED BY <2>3, <2>4, <2>5, Zenon DEF Ordered
  <1>8. Lists(ById(seq), seq, at)
    BY <1>1, <1>5, <1>7, InOrderFact
  <1>8a. PICK C \in Nat : \E pick \in [1 .. C -> at] :
          /\ ById(seq) = [k \in 1 .. C |-> seq[pick[k]]]
          /\ \A k, l \in 1 .. C : pick[k] = pick[l] => k = l
          /\ \A i \in at : \E k \in 1 .. C : pick[k] = i
    BY <1>8 DEF Lists
  <1>9. PICK pick \in [1 .. C -> at] :
          /\ ById(seq) = [k \in 1 .. C |-> seq[pick[k]]]
          /\ \A k, l \in 1 .. C : pick[k] = pick[l] => k = l
          /\ \A i \in at : \E k \in 1 .. C : pick[k] = i
    BY <1>8a
  <1>10. PICK s : s = ById(seq)
    OBVIOUS
  <1>11. DOMAIN s = 1 .. C /\ s = [k \in 1 .. C |-> seq[pick[k]]]
    BY <1>9, <1>10
  <1>12. Listed(s)
    BY <1>11 DEF Listed
  <1>13. \A k \in 1 .. C : pick[k] \in at /\ s[k] = seq[pick[k]]
    BY <1>9, <1>11
  <1>14. \A i \in at : \E k \in 1 .. C : s[k] = seq[i]
    BY <1>9, <1>13
  <1>15. ASSUME \A i, j \in at : seq[i].id = seq[j].id => i = j
         PROVE  \A k, l \in 1 .. C : s[k].id = s[l].id => k = l
    BY <1>9, <1>13, <1>15
  <1>16. \A k \in DOMAIN s : \E i \in 1 .. n : s[k] = seq[i]
    BY <1>0, <1>11, <1>13
  <1>17. \A i \in 1 .. n : \E k \in DOMAIN s : s[k] = seq[i]
    BY <1>0, <1>11, <1>14
  <1>18. (\A i, j \in 1 .. n : seq[i].id = seq[j].id => i = j)
              => \A k, l \in DOMAIN s : s[k].id = s[l].id => k = l
    BY <1>0, <1>11, <1>15
  <1> QED BY <1>10, <1>12, <1>16, <1>17, <1>18

LEMMA SeqOver ==
  ASSUME NEW n \in Nat, NEW s, s = [i \in 1 .. n |-> s[i]], NEW S, \A i \in 1 .. n : s[i] \in S
  PROVE  s \in Seq(S) /\ Len(s) = n
  OBVIOUS

\* The entries of s are entries of f, or e.
Longer(s, f, e) == Listed(s) /\ \A k \in DOMAIN s : s[k] = e \/ (k \in DOMAIN f /\ s[k] = f[k])

LEMMA AppendFact == ASSUME NEW s, Listed(s), NEW e PROVE Longer(Append(s, e), s, e)
  <1>0. PICK t : t = Append(s, e)
    OBVIOUS
  <1>1. PICK n \in Nat : DOMAIN s = 1 .. n /\ s = [i \in 1 .. n |-> s[i]]
    BY DEF Listed
  <1>2. PICK S : S = {s[i] : i \in 1 .. n} \cup {e}
    OBVIOUS
  <1>3. s \in Seq(S) /\ e \in S /\ Len(s) = n
    BY <1>1, <1>2
  <1>4. /\ t \in Seq(S) /\ Len(t) = n + 1 /\ DOMAIN t = 1 .. n + 1
        /\ \A k \in 1 .. n : t[k] = s[k]
        /\ t[n + 1] = e
    BY <1>0, <1>3
  <1>5. t = [i \in DOMAIN t |-> t[i]]
    <2>1. t \in [1 .. Len(t) -> S]
      BY <1>4, LenProperties
    <2> QED BY <2>1
  <1>6. n + 1 \in Nat /\ \A k \in 1 .. n + 1 : k \in 1 .. n \/ k = n + 1
    BY <1>1
  <1>7. Longer(t, s, e)
    <2>1. Listed(t)
      BY <1>4, <1>5, <1>6 DEF Listed
    <2>2. \A k \in DOMAIN t : t[k] = e \/ (k \in DOMAIN s /\ t[k] = s[k])
      BY <1>1, <1>4, <1>6
    <2> QED BY <2>1, <2>2 DEF Longer
  <1> QED BY <1>0, <1>7

\* t is s followed by u.
Joined(t, s, n, u, m) ==
    /\ DOMAIN t = 1 .. n + m
    /\ \A k \in 1 .. n : t[k] = s[k]
    /\ \A k \in 1 .. m : t[n + k] = u[k]

LEMMA ConcatFact ==
  ASSUME NEW n \in Nat, NEW s, DOMAIN s = 1 .. n, Listed(s),
         NEW m \in Nat, NEW u, DOMAIN u = 1 .. m, Listed(u), NEW t, t = s \o u
  PROVE  Joined(t, s, n, u, m)
  <1>1. PICK S : S = {s[i] : i \in 1 .. n} \cup {u[i] : i \in 1 .. m}
    OBVIOUS
  <1>2. s = [i \in 1 .. n |-> s[i]] /\ u = [i \in 1 .. m |-> u[i]]
    BY DEF Listed
  <1>2a. (\A i \in 1 .. n : s[i] \in S) /\ \A i \in 1 .. m : u[i] \in S
    BY <1>1
  <1>3. s \in Seq(S) /\ Len(s) = n
    BY <1>2, <1>2a, SeqOver
  <1>4. u \in Seq(S) /\ Len(u) = m
    BY <1>2, <1>2a, SeqOver
  <1>5. /\ t \in Seq(S) /\ Len(t) = n + m
        /\ \A i \in 1 .. n + m : t[i] = IF i <= n THEN s[i] ELSE u[i - n]
    BY <1>3, <1>4, ConcatProperties
  <1>6. DOMAIN t = 1 .. n + m
    BY <1>5, LenProperties
  <1>7. ASSUME NEW k \in 1 .. n PROVE t[k] = s[k]
    <2>1. k \in 1 .. n + m /\ k <= n
      OBVIOUS
    <2> QED BY <1>5, <2>1
  <1>8. ASSUME NEW k \in 1 .. m PROVE t[n + k] = u[k]
    <2>1. n + k \in 1 .. n + m /\ ~(n + k <= n) /\ (n + k) - n = k
      OBVIOUS
    <2> QED BY <1>5, <2>1
  <1> QED BY <1>6, <1>7, <1>8 DEF Joined

\* Fields of a configuration replaced.
LEMMA SetAgents ==
  ASSUME NEW c, ConfigShape(c), NEW x, NEW d, d = [c EXCEPT !.agents = x]
  PROVE  /\ ConfigShape(d) /\ d.id = c.id /\ d.selector = c.selector /\ d.default = c.default
         /\ d.agents = x /\ d.workflows = c.workflows
  BY DEF ConfigShape

LEMMA SetSelector ==
  ASSUME NEW c, ConfigShape(c), NEW x, NEW d, d = [c EXCEPT !.selector = x]
  PROVE  /\ ConfigShape(d) /\ d.id = c.id /\ d.selector = x /\ d.default = c.default
         /\ d.agents = c.agents /\ d.workflows = c.workflows
  BY DEF ConfigShape

LEMMA SetDefault ==
  ASSUME NEW c, ConfigShape(c), NEW x, NEW d, d = [c EXCEPT !.default = x]
  PROVE  /\ ConfigShape(d) /\ d.id = c.id /\ d.selector = c.selector /\ d.default = x
         /\ d.agents = c.agents /\ d.workflows = c.workflows
  BY DEF ConfigShape

LEMMA SetWorkflows ==
  ASSUME NEW c, ConfigShape(c), NEW x, WorkflowsShape(x), NEW d, d = [c EXCEPT !.workflows = x]
  PROVE  /\ ConfigShape(d) /\ d.id = c.id /\ d.selector = c.selector /\ d.default = c.default
         /\ d.agents = c.agents /\ d.workflows = x
  BY DEF ConfigShape

\* The steps of a workflow.
LEMMA NamedFact ==
  ASSUME NEW c, ConfigShape(c), NEW w \in WorkflowIds(c), NEW wf, wf = WorkflowNamed(c, w)
  PROVE  /\ WorkflowShape(wf) /\ wf.id = w
         /\ \E i \in DOMAIN c.workflows : wf = c.workflows[i]
  <1>1. \E i \in DOMAIN c.workflows : c.workflows[i].id = w
    BY DEF WorkflowIds
  <1>2. PICK i \in DOMAIN c.workflows : wf = c.workflows[i] /\ c.workflows[i].id = w
    BY <1>1 DEF WorkflowNamed
  <1> QED BY <1>2 DEF ConfigShape, WorkflowsShape

LEMMA StepNamedFact ==
  ASSUME NEW c, ConfigShape(c), NEW w \in WorkflowIds(c), NEW s \in StepIds(WorkflowNamed(c, w)),
         NEW step, step = StepNamed(c, w, s)
  PROVE  /\ StepShape(step) /\ step.id = s
         /\ \E i \in DOMAIN WorkflowNamed(c, w).steps : step = WorkflowNamed(c, w).steps[i]
  <1>1. PICK wf : wf = WorkflowNamed(c, w)
    OBVIOUS
  <1>2. WorkflowShape(wf)
    BY <1>1, NamedFact
  <1>3. \E i \in DOMAIN wf.steps : wf.steps[i].id = s
    BY <1>1 DEF StepIds
  <1>4. PICK i \in DOMAIN wf.steps : step = wf.steps[i] /\ wf.steps[i].id = s
    BY <1>1, <1>3 DEF StepNamed
  <1> QED BY <1>1, <1>2, <1>4 DEF WorkflowShape, StepsShape

LEMMA WithStepsFact ==
  ASSUME NEW c, ConfigShape(c), NEW w, NEW steps, w \in WorkflowIds(c) => StepsShape(steps),
         NEW d, d = WithSteps(c, w, steps)
  PROVE  /\ ConfigShape(d) /\ d.id = c.id /\ d.selector = c.selector /\ d.default = c.default
         /\ d.agents = c.agents
         /\ DOMAIN d.workflows = DOMAIN c.workflows
         /\ \A i \in DOMAIN c.workflows :
               /\ d.workflows[i].id = c.workflows[i].id
               /\ c.workflows[i].id # w => d.workflows[i] = c.workflows[i]
               /\ c.workflows[i].id = w => d.workflows[i].steps = steps
         /\ WorkflowIds(d) = WorkflowIds(c)
  <1>1. PICK f : f = c.workflows
    OBVIOUS
  <1>2. PICK g : g = [i \in DOMAIN f |-> IF f[i].id = w THEN [f[i] EXCEPT !.steps = steps] ELSE f[i]]
    OBVIOUS
  <1>3. d = [c EXCEPT !.workflows = g]
    BY <1>1, <1>2 DEF WithSteps
  <1>4. Listed(f) /\ \A i \in DOMAIN f : WorkflowShape(f[i])
    BY <1>1 DEF ConfigShape, WorkflowsShape
  <1>5. DOMAIN g = DOMAIN f
    BY <1>2
  <1>6. ASSUME NEW i \in DOMAIN f
        PROVE  /\ WorkflowShape(g[i]) /\ g[i].id = f[i].id
               /\ f[i].id # w => g[i] = f[i]
               /\ f[i].id = w => g[i].steps = steps
    <2>1. CASE f[i].id = w
      <3>1. StepsShape(steps)
        BY <1>1, <2>1 DEF WorkflowIds
      <3>2. PICK x : x = f[i]
        OBVIOUS
      <3>3. WorkflowShape(x) /\ g[i] = [x EXCEPT !.steps = steps]
        BY <1>2, <1>4, <2>1, <3>2
      <3> QED BY <2>1, <3>1, <3>2, <3>3 DEF WorkflowShape
    <2>2. CASE f[i].id # w
      BY <1>2, <1>4, <2>2
    <2> QED BY <2>1, <2>2
  <1>7. WorkflowsShape(g)
    <2>1. g = [i \in DOMAIN g |-> g[i]]
      BY <1>2
    <2>2. Listed(g)
      BY <1>4, <1>5, <2>1 DEF Listed
    <2>3. \A i \in DOMAIN g : WorkflowShape(g[i])
      BY <1>5, <1>6
    <2> QED BY <2>2, <2>3 DEF WorkflowsShape
  <1>8. /\ ConfigShape(d) /\ d.id = c.id /\ d.selector = c.selector /\ d.default = c.default
        /\ d.agents = c.agents /\ d.workflows = g
    BY <1>3, <1>7, SetWorkflows
  <1>9. \A i \in DOMAIN f : g[i].id = f[i].id
    BY <1>6
  <1>10. WorkflowIds(d) = WorkflowIds(c)
    <2>1. WorkflowIds(d) = {g[i].id : i \in DOMAIN f} /\ WorkflowIds(c) = {f[i].id : i \in DOMAIN f}
      BY <1>1, <1>5, <1>8, Zenon DEF WorkflowIds
    <2> QED BY <1>9, <2>1
  <1>11. \A i \in DOMAIN c.workflows :
               /\ d.workflows[i].id = c.workflows[i].id
               /\ c.workflows[i].id # w => d.workflows[i] = c.workflows[i]
               /\ c.workflows[i].id = w => d.workflows[i].steps = steps
    BY <1>1, <1>6, <1>8
  <1> QED BY <1>1, <1>5, <1>8, <1>10, <1>11

-----------------------------------------------------------------------------
(* Edits of a configuration                                                *)

\* What an edit leaves of configuration c: its shape and id, and its validity unless the
\* edit was refused.
Edited(c, r) ==
    /\ ConfigShape(r.cfg) /\ r.cfg.id = c.id
    /\ r.ok /\ validate_setup_invariants(c) => validate_setup_invariants(r.cfg)

SameWorkflows(c, r) == WorkflowIds(r.cfg) = WorkflowIds(c)

LEMMA Results ==
  ASSUME NEW c
  PROVE  /\ Ok(c).ok = TRUE /\ Ok(c).cfg = c /\ Refused(c).ok = FALSE /\ Refused(c).cfg = c
         /\ Validated(c).ok = validate_setup_invariants(c) /\ Validated(c).cfg = c
  BY DEF Ok, Refused, Validated

LEMMA RefusedEdit == ASSUME NEW c, ConfigShape(c) PROVE Edited(c, Refused(c)) /\ SameWorkflows(c, Refused(c))
  BY Results DEF Edited, SameWorkflows

LEMMA ValidatedEdit ==
  ASSUME NEW c, NEW d, ConfigShape(d), d.id = c.id PROVE Edited(c, Validated(d))
  <1>1. Validated(d).ok = validate_setup_invariants(d) /\ Validated(d).cfg = d
    BY Results
  <1>2. Validated(d).ok => validate_setup_invariants(d)
    BY <1>1
  <1> QED BY <1>1, <1>2 DEF Edited

LEMMA WithStepFact ==
  ASSUME NEW c, ConfigShape(c), NEW w, NEW s, NEW step,
         w \in WorkflowIds(c) /\ s \in StepIds(WorkflowNamed(c, w)) => StepShape(step),
         NEW d, d = WithStep(c, w, s, step)
  PROVE  ConfigShape(d) /\ d.id = c.id /\ WorkflowIds(d) = WorkflowIds(c)
  <1>1. PICK old : old = WorkflowNamed(c, w).steps
    OBVIOUS
  <1>2. PICK new : new = [i \in DOMAIN old |-> IF old[i].id = s THEN step ELSE old[i]]
    OBVIOUS
  <1>3. d = WithSteps(c, w, new)
    BY <1>1, <1>2 DEF WithStep
  <1>4. ASSUME w \in WorkflowIds(c) PROVE StepsShape(new)
    <2>1. StepsShape(old)
      BY <1>1, <1>4, NamedFact DEF WorkflowShape
    <2>2. DOMAIN new = DOMAIN old /\ new = [i \in DOMAIN new |-> new[i]]
      BY <1>2
    <2>3. Listed(new)
      BY <2>1, <2>2 DEF StepsShape, Listed
    <2>4. ASSUME NEW i \in DOMAIN old PROVE StepShape(new[i])
      <3>1. CASE old[i].id = s
        <4>1. s \in StepIds(WorkflowNamed(c, w))
          BY <1>1, <3>1 DEF StepIds
        <4> QED BY <1>2, <1>4, <3>1, <4>1
      <3>2. CASE old[i].id # s
        BY <1>2, <2>1, <3>2 DEF StepsShape
      <3> QED BY <3>1, <3>2
    <2> QED BY <2>2, <2>3, <2>4 DEF StepsShape
  <1> QED BY <1>3, <1>4, WithStepsFact

LEMMA WithStepValid ==
  ASSUME NEW c, ConfigShape(c), validate_setup_invariants(c), NEW w, NEW s, NEW step,
         w \in WorkflowIds(c) /\ s \in StepIds(WorkflowNamed(c, w)) =>
             /\ StepShape(step) /\ StepValid(c, step)
             /\ step.id \notin StepIds(WorkflowNamed(c, w)) \ {s},
         NEW d, d = WithStep(c, w, s, step)
  PROVE  validate_setup_invariants(d)
  <1>1. PICK old : old = WorkflowNamed(c, w).steps
    OBVIOUS
  <1>2. PICK new : new = [i \in DOMAIN old |-> IF old[i].id = s THEN step ELSE old[i]]
    OBVIOUS
  <1>3. d = WithSteps(c, w, new)
    BY <1>1, <1>2 DEF WithStep
  <1>4. DOMAIN new = DOMAIN old
    BY <1>2
  <1>5. ASSUME w \in WorkflowIds(c), NEW i \in DOMAIN old, old[i].id = s
        PROVE  /\ StepShape(step) /\ StepValid(c, step)
               /\ step.id \notin StepIds(WorkflowNamed(c, w)) \ {s}
    <2>1. s \in StepIds(WorkflowNamed(c, w))
      BY <1>1, <1>5 DEF StepIds
    <2> QED BY <1>5, <2>1
  <1>6. ASSUME w \in WorkflowIds(c) PROVE StepsShape(new)
    <2>1. StepsShape(old)
      BY <1>1, <1>6, NamedFact DEF WorkflowShape
    <2>2. new = [i \in DOMAIN new |-> new[i]]
      BY <1>2
    <2>3. Listed(new)
      BY <1>4, <2>1, <2>2 DEF StepsShape, Listed
    <2>4. ASSUME NEW i \in DOMAIN old PROVE StepShape(new[i])
      BY <1>2, <1>5, <1>6, <2>1 DEF StepsShape
    <2> QED BY <1>4, <2>3, <2>4 DEF StepsShape
  <1>7. /\ d.selector = c.selector /\ d.default = c.default /\ d.agents = c.agents
        /\ DOMAIN d.workflows = DOMAIN c.workflows
        /\ \A i \in DOMAIN c.workflows :
               /\ d.workflows[i].id = c.workflows[i].id
               /\ c.workflows[i].id # w => d.workflows[i] = c.workflows[i]
               /\ c.workflows[i].id = w => d.workflows[i].steps = new
        /\ WorkflowIds(d) = WorkflowIds(c)
    BY <1>3, <1>6, WithStepsFact
  <1>8. AgentIds(d) = AgentIds(c)
    BY <1>7 DEF AgentIds
  <1>9. \A x : StepValid(c, x) <=> StepValid(d, x)
    BY <1>8 DEF StepValid
  <1>10. ASSUME NEW i \in DOMAIN c.workflows PROVE WorkflowValid(d, d.workflows[i])
    <2>1. WorkflowValid(c, c.workflows[i])
      BY DEF validate_setup_invariants
    <2>2. CASE c.workflows[i].id # w
      BY <1>7, <1>9, <2>1, <2>2 DEF WorkflowValid
    <2>3. CASE c.workflows[i].id = w
      <3>1. w \in WorkflowIds(c)
        BY <2>3 DEF WorkflowIds
      <3>2. WorkflowNamed(c, w) = c.workflows[i]
        <4>1. \A j \in DOMAIN c.workflows : c.workflows[j].id = w => j = i
          BY <2>3 DEF validate_setup_invariants, IsInjective
        <4> QED BY <2>3, <4>1 DEF WorkflowNamed
      <3>3. /\ old # <<>>
            /\ \A j, k \in DOMAIN old : old[j].id = old[k].id => j = k
            /\ \A j \in DOMAIN old : StepValid(c, old[j])
        BY <1>1, <2>1, <3>2 DEF WorkflowValid, IsInjective
      <3>4. new # <<>>
        <4>1. Listed(old)
          BY <1>1, <3>1, NamedFact DEF WorkflowShape, StepsShape
        <4>2. DOMAIN old # {}
          BY <3>3, <4>1 DEF Listed
        <4> QED BY <1>4, <4>2
      <3>5. \A j \in DOMAIN old : StepValid(d, new[j])
        BY <1>2, <1>5, <1>9, <3>1, <3>3
      <3>6. ASSUME NEW j \in DOMAIN old, NEW k \in DOMAIN old, new[j].id = new[k].id PROVE j = k
        <4>1. \A x \in DOMAIN old : old[x].id \in StepIds(WorkflowNamed(c, w))
          BY <1>1 DEF StepIds
        <4>2. CASE old[j].id = s /\ old[k].id # s
          <5>1. new[j] = step /\ new[k] = old[k]
            BY <1>2, <4>2
          <5> QED BY <1>5, <3>1, <3>6, <4>1, <4>2, <5>1
        <4>3. CASE old[j].id # s /\ old[k].id = s
          <5>1. new[k] = step /\ new[j] = old[j]
            BY <1>2, <4>3
          <5> QED BY <1>5, <3>1, <3>6, <4>1, <4>3, <5>1
        <4>4. CASE (old[j].id = s) <=> (old[k].id = s)
          <5>1. old[j].id = old[k].id
            BY <1>2, <3>6, <4>4
          <5> QED BY <3>3, <5>1
        <4> QED BY <4>2, <4>3, <4>4
      <3>7. d.workflows[i].steps = new
        BY <1>7, <2>3
      <3>8. IsInjective([j \in DOMAIN new |-> new[j].id])
        BY <1>4, <3>6 DEF IsInjective
      <3> QED BY <1>4, <3>4, <3>5, <3>7, <3>8 DEF WorkflowValid
    <2> QED BY <2>2, <2>3
  <1>11. IsInjective([i \in DOMAIN d.workflows |-> d.workflows[i].id])
    <2>1. \A i, j \in DOMAIN c.workflows : c.workflows[i].id = c.workflows[j].id => i = j
      BY DEF validate_setup_invariants, IsInjective
    <2>2. \A i, j \in DOMAIN d.workflows : d.workflows[i].id = d.workflows[j].id => i = j
      BY <1>7, <2>1
    <2> QED BY <2>2 DEF IsInjective
  <1> QED BY <1>7, <1>8, <1>10, <1>11 DEF validate_setup_invariants

\* An edit that nothing validates keeps at least the shape.
Kept(c, r) == ConfigShape(r.cfg) /\ r.cfg.id = c.id /\ SameWorkflows(c, r)

LEMMA TaskFact ==
  ASSUME NEW s, NEW a, NEW next, NEW t, t = Task(s, a, next)
  PROVE  /\ StepShape(t) /\ t.id = s /\ t.agent = a /\ t.outputs = {"summary", "artifact"}
         /\ t.files = t.outputs /\ t.priority = {"artifact", "summary"}
  BY DEF Task, workflow_step, default_step_output_contract, default_step_output_priority, StepShape

LEMMA StepKept ==
  ASSUME NEW c, ConfigShape(c), NEW w, NEW s, NEW step,
         w \in WorkflowIds(c) /\ s \in StepIds(WorkflowNamed(c, w)) => StepShape(step)
  PROVE  Kept(c, Ok(WithStep(c, w, s, step)))
  <1>1. PICK d : d = WithStep(c, w, s, step)
    OBVIOUS
  <1>2. ConfigShape(d) /\ d.id = c.id /\ WorkflowIds(d) = WorkflowIds(c)
    BY <1>1, WithStepFact
  <1> QED BY <1>1, <1>2, Results DEF Kept, SameWorkflows

LEMMA StepEdited ==
  ASSUME NEW c, ConfigShape(c), NEW w, NEW s, NEW step,
         w \in WorkflowIds(c) /\ s \in StepIds(WorkflowNamed(c, w)) => StepShape(step),
         validate_setup_invariants(c) /\ w \in WorkflowIds(c) /\ s \in StepIds(WorkflowNamed(c, w)) =>
             StepValid(c, step) /\ step.id \notin StepIds(WorkflowNamed(c, w)) \ {s}
  PROVE  Edited(c, Ok(WithStep(c, w, s, step))) /\ SameWorkflows(c, Ok(WithStep(c, w, s, step)))
  <1>1. PICK d : d = WithStep(c, w, s, step)
    OBVIOUS
  <1>2. ConfigShape(d) /\ d.id = c.id /\ WorkflowIds(d) = WorkflowIds(c)
    BY <1>1, WithStepFact
  <1>3. validate_setup_invariants(c) => validate_setup_invariants(d)
    BY <1>1, WithStepValid
  <1> QED BY <1>1, <1>2, <1>3, Results DEF Edited, SameWorkflows

\* The step an edit starts from is valid when its configuration is.
LEMMA StepNamedValid ==
  ASSUME NEW c, ConfigShape(c), validate_setup_invariants(c), NEW w \in WorkflowIds(c),
         NEW s \in StepIds(WorkflowNamed(c, w)), NEW step, step = StepNamed(c, w, s)
  PROVE  StepValid(c, step)
  <1>1. PICK wf : wf = WorkflowNamed(c, w)
    OBVIOUS
  <1>2. PICK i \in DOMAIN c.workflows : wf = c.workflows[i]
    BY <1>1, NamedFact
  <1>3. PICK j \in DOMAIN wf.steps : step = wf.steps[j]
    BY <1>1, StepNamedFact
  <1>4. WorkflowValid(c, wf)
    BY <1>2 DEF validate_setup_invariants
  <1> QED BY <1>3, <1>4 DEF WorkflowValid

LEMMA RenameStepEdit ==
  ASSUME NEW c, ConfigShape(c), NEW w, NEW s, NEW next, NEW r, r = rename_step(c, w, s, next)
  PROVE  Edited(c, r) /\ SameWorkflows(c, r)
  <1>1. CASE next \in StepIds(WorkflowNamed(c, w)) \ {s}
    BY <1>1, RefusedEdit DEF rename_step
  <1>2. CASE next \notin StepIds(WorkflowNamed(c, w)) \ {s}
    <2>1. PICK step : step = StepNamed(c, w, s)
      OBVIOUS
    <2>2. PICK new : new = [step EXCEPT !.id = next]
      OBVIOUS
    <2>3. r = Ok(WithStep(c, w, s, new))
      BY <1>2, <2>1, <2>2 DEF rename_step
    <2>4. ASSUME w \in WorkflowIds(c) /\ s \in StepIds(WorkflowNamed(c, w))
          PROVE  /\ StepShape(new) /\ new.id = next
                 /\ validate_setup_invariants(c) => StepValid(c, new)
      <3>1. StepShape(step) /\ (validate_setup_invariants(c) => StepValid(c, step))
        BY <2>1, <2>4, StepNamedFact, StepNamedValid
      <3>2. /\ StepShape(new) /\ new.id = next /\ new.agent = step.agent
            /\ new.outputs = step.outputs /\ new.files = step.files /\ new.priority = step.priority
        BY <2>2, <3>1 DEF StepShape
      <3> QED BY <3>1, <3>2 DEF StepValid
    <2> QED BY <1>2, <2>3, <2>4, StepEdited
  <1> QED BY <1>1, <1>2

LEMMA StepAgentEdit ==
  ASSUME NEW c, ConfigShape(c), NEW w, NEW s, NEW a, NEW r, r = set_step_agent(c, w, s, a)
  PROVE  Edited(c, r) /\ SameWorkflows(c, r)
  <1>1. CASE a \notin AgentIds(c)
    BY <1>1, RefusedEdit DEF set_step_agent
  <1>2. CASE a \in AgentIds(c)
    <2>1. PICK step : step = StepNamed(c, w, s)
      OBVIOUS
    <2>2. PICK new : new = [step EXCEPT !.agent = a]
      OBVIOUS
    <2>3. r = Ok(WithStep(c, w, s, new))
      BY <1>2, <2>1, <2>2 DEF set_step_agent
    <2>4. ASSUME w \in WorkflowIds(c) /\ s \in StepIds(WorkflowNamed(c, w))
          PROVE  /\ StepShape(new) /\ new.id = s
                 /\ validate_setup_invariants(c) => StepValid(c, new)
      <3>1. StepShape(step) /\ step.id = s /\ (validate_setup_invariants(c) => StepValid(c, step))
        BY <2>1, <2>4, StepNamedFact, StepNamedValid
      <3>2. /\ StepShape(new) /\ new.id = s /\ new.agent = a
            /\ new.outputs = step.outputs /\ new.files = step.files /\ new.priority = step.priority
        BY <2>2, <3>1 DEF StepShape
      <3> QED BY <1>2, <3>1, <3>2 DEF StepValid
    <2> QED BY <2>3, <2>4, StepEdited
  <1> QED BY <1>1, <1>2

LEMMA StepTargetEdit ==
  ASSUME NEW c, ConfigShape(c), NEW w, NEW s, NEW field, NEW target,
         NEW r, r = set_step_target(c, w, s, field, target)
  PROVE  Edited(c, r) /\ SameWorkflows(c, r)
  <1>1. PICK step : step = StepNamed(c, w, s)
    OBVIOUS
  <1>2. PICK new : new = [step EXCEPT !.targets[field] = target]
    OBVIOUS
  <1>3. r = Ok(WithStep(c, w, s, new))
    BY <1>1, <1>2 DEF set_step_target
  <1>4. ASSUME w \in WorkflowIds(c) /\ s \in StepIds(WorkflowNamed(c, w))
        PROVE  /\ StepShape(new) /\ new.id = s
               /\ validate_setup_invariants(c) => StepValid(c, new)
    <2>1. StepShape(step) /\ step.id = s /\ (validate_setup_invariants(c) => StepValid(c, step))
      BY <1>1, <1>4, StepNamedFact, StepNamedValid
    <2>2. /\ StepShape(new) /\ new.id = s /\ new.agent = step.agent
          /\ new.outputs = step.outputs /\ new.files = step.files /\ new.priority = step.priority
      BY <1>2, <2>1 DEF StepShape
    <2> QED BY <2>1, <2>2 DEF StepValid
  <1> QED BY <1>3, <1>4, StepEdited

LEMMA StepPromptEdit ==
  ASSUME NEW c, ConfigShape(c), NEW w, NEW s, NEW prompt,
         NEW r, r = set_step_prompt(c, w, s, prompt)
  PROVE  Edited(c, r) /\ SameWorkflows(c, r)
  <1>1. PICK step : step = StepNamed(c, w, s)
    OBVIOUS
  <1>2. PICK new : new = [step EXCEPT !.prompt = prompt]
    OBVIOUS
  <1>3. r = Ok(WithStep(c, w, s, new))
    BY <1>1, <1>2 DEF set_step_prompt
  <1>4. ASSUME w \in WorkflowIds(c) /\ s \in StepIds(WorkflowNamed(c, w))
        PROVE  /\ StepShape(new) /\ new.id = s
               /\ validate_setup_invariants(c) => StepValid(c, new)
    <2>1. StepShape(step) /\ step.id = s /\ (validate_setup_invariants(c) => StepValid(c, step))
      BY <1>1, <1>4, StepNamedFact, StepNamedValid
    <2>2. /\ StepShape(new) /\ new.id = s /\ new.agent = step.agent
          /\ new.outputs = step.outputs /\ new.files = step.files /\ new.priority = step.priority
      BY <1>2, <2>1 DEF StepShape
    <2> QED BY <2>1, <2>2 DEF StepValid
  <1> QED BY <1>3, <1>4, StepEdited

LEMMA StepFilesEdit ==
  ASSUME NEW c, ConfigShape(c), NEW w, NEW s, NEW keys, NEW r, r = set_step_output_files(c, w, s, keys)
  PROVE  Edited(c, r) /\ SameWorkflows(c, r)
  <1>1. PICK step : step = StepNamed(c, w, s)
    OBVIOUS
  <1>2. CASE keys = {} \/ ~(step.outputs \subseteq keys)
    BY <1>1, <1>2, RefusedEdit DEF set_step_output_files
  <1>3. CASE keys # {} /\ step.outputs \subseteq keys
    <2>2. PICK new : new = [step EXCEPT !.files = keys]
      OBVIOUS
    <2>3. r = Ok(WithStep(c, w, s, new))
      BY <1>1, <1>3, <2>2 DEF set_step_output_files
    <2>4. ASSUME w \in WorkflowIds(c) /\ s \in StepIds(WorkflowNamed(c, w))
          PROVE  /\ StepShape(new) /\ new.id = s
                 /\ validate_setup_invariants(c) => StepValid(c, new)
      <3>1. StepShape(step) /\ step.id = s /\ (validate_setup_invariants(c) => StepValid(c, step))
        BY <1>1, <2>4, StepNamedFact, StepNamedValid
      <3>2. /\ StepShape(new) /\ new.id = s /\ new.agent = step.agent
            /\ new.outputs = step.outputs /\ new.files = keys /\ new.priority = step.priority
        BY <2>2, <3>1 DEF StepShape
      <3> QED BY <1>3, <3>1, <3>2 DEF StepValid
    <2> QED BY <2>3, <2>4, StepEdited
  <1> QED BY <1>2, <1>3

LEMMA StepOutputsKept ==
  ASSUME NEW c, ConfigShape(c), NEW w, NEW s, NEW keys, NEW r, r = set_step_outputs(c, w, s, keys)
  PROVE  Kept(c, r)
  <1>1. PICK step : step = StepNamed(c, w, s)
    OBVIOUS
  <1>2. CASE keys = {} \/ ~(keys \subseteq step.files)
    BY <1>1, <1>2, RefusedEdit DEF set_step_outputs, Kept, Edited
  <1>3. CASE keys # {} /\ keys \subseteq step.files
    <2>2. PICK new : new = [step EXCEPT !.outputs = keys]
      OBVIOUS
    <2>3. r = Ok(WithStep(c, w, s, new))
      BY <1>1, <1>3, <2>2 DEF set_step_outputs
    <2>4. ASSUME w \in WorkflowIds(c) /\ s \in StepIds(WorkflowNamed(c, w)) PROVE StepShape(new)
      BY <1>1, <2>2, <2>4, StepNamedFact DEF StepShape
    <2> QED BY <2>3, <2>4, StepKept
  <1> QED BY <1>2, <1>3

LEMMA StepTypeKept ==
  ASSUME NEW c, ConfigShape(c), NEW w, NEW s, NEW r, r = toggle_step_type(c, w, s)
  PROVE  Kept(c, r)
  <1>1. PICK step : step = StepNamed(c, w, s)
    OBVIOUS
  <1>2. PICK type : type = IF step.type = "agent_task" THEN "agent_review" ELSE "agent_task"
    OBVIOUS
  <1>3. PICK new : new = [step EXCEPT !.type = type,
               !.prompt  = "inside",
               !.outputs = default_step_output_contract(type),
               !.files   = default_step_output_contract(type)]
    OBVIOUS
  <1>4. r = Ok(WithStep(c, w, s, new))
    BY <1>1, <1>2, <1>3 DEF toggle_step_type
  <1>5. DOMAIN new = DOMAIN step
    BY <1>3
  <1>6. ASSUME w \in WorkflowIds(c) /\ s \in StepIds(WorkflowNamed(c, w)) PROVE StepShape(new)
    BY <1>1, <1>5, <1>6, StepNamedFact DEF StepShape
  <1> QED BY <1>4, <1>6, StepKept

LEMMA AddStepEdit ==
  ASSUME NEW c, ConfigShape(c), NEW w, NEW s, NEW r, r = add_step(c, w, s)
  PROVE  Edited(c, r) /\ SameWorkflows(c, r)
  <1>1. PICK wf : wf = WorkflowNamed(c, w)
    OBVIOUS
  <1>2. PICK t : t = Task(s, c.selector, None)
    OBVIOUS
  <1>3. PICK steps : steps = Append(wf.steps, t)
    OBVIOUS
  <1>4. CASE s \in StepIds(wf)
    BY <1>1, <1>4, RefusedEdit DEF add_step
  <1>5. CASE s \notin StepIds(wf)
    <2>1. PICK d : d = WithSteps(c, w, steps)
      OBVIOUS
    <2>2. r = Validated(d)
      BY <1>1, <1>2, <1>3, <1>5, <2>1 DEF add_step
    <2>3. ASSUME w \in WorkflowIds(c) PROVE StepsShape(steps)
      <3>1. StepsShape(wf.steps)
        BY <1>1, <2>3, NamedFact DEF WorkflowShape
      <3>2. PICK old : old = wf.steps
        OBVIOUS
      <3>3. Listed(steps) /\ \A k \in DOMAIN steps : steps[k] = t \/ (k \in DOMAIN old /\ steps[k] = old[k])
        <4>1. Listed(old) /\ steps = Append(old, t)
          BY <1>3, <3>1, <3>2 DEF StepsShape
        <4> QED BY <4>1, AppendFact DEF Longer
      <3>4. StepShape(t)
        BY <1>2, TaskFact
      <3> QED BY <3>1, <3>2, <3>3, <3>4 DEF StepsShape
    <2>4. ConfigShape(d) /\ d.id = c.id /\ WorkflowIds(d) = WorkflowIds(c)
      BY <2>1, <2>3, WithStepsFact
    <2>5. Edited(c, r)
      BY <2>2, <2>4, ValidatedEdit
    <2>6. r.cfg = d
      BY <2>2, Results
    <2> QED BY <2>4, <2>5, <2>6 DEF SameWorkflows
  <1> QED BY <1>4, <1>5

LEMMA RemoveStepEdit ==
  ASSUME NEW c, ConfigShape(c), NEW w, NEW s, NEW r, r = remove_step(c, w, s)
  PROVE  Edited(c, r) /\ SameWorkflows(c, r)
  <1>1. PICK old : old = WorkflowNamed(c, w).steps
    OBVIOUS
  <1>2. PICK left : left = Without(old, s)
    OBVIOUS
  <1>3. CASE left = <<>>
    BY <1>1, <1>2, <1>3, RefusedEdit DEF remove_step
  <1>4. CASE left # <<>>
    <2>1. PICK d : d = WithSteps(c, w, left)
      OBVIOUS
    <2>2. r = Validated(d)
      BY <1>1, <1>2, <1>4, <2>1 DEF remove_step
    <2>3. ASSUME w \in WorkflowIds(c) PROVE StepsShape(left)
      <3>1. StepsShape(old)
        BY <1>1, <2>3, NamedFact DEF WorkflowShape
      <3>2. PICK n \in Nat : DOMAIN old = 1 .. n
        BY <3>1 DEF StepsShape, Listed
      <3>3. Listed(left) /\ \A k \in DOMAIN left : \E i \in DOMAIN old : left[k] = old[i]
        BY <1>2, <3>2, WithoutFact
      <3> QED BY <3>1, <3>3 DEF StepsShape
    <2>4. ConfigShape(d) /\ d.id = c.id /\ WorkflowIds(d) = WorkflowIds(c)
      BY <2>1, <2>3, WithStepsFact
    <2>5. Edited(c, r)
      BY <2>2, <2>4, ValidatedEdit
    <2>6. r.cfg = d
      BY <2>2, Results
    <2> QED BY <2>4, <2>5, <2>6 DEF SameWorkflows
  <1> QED BY <1>3, <1>4

LEMMA OkEdit ==
  ASSUME NEW c, NEW d, ConfigShape(d), d.id = c.id,
         validate_setup_invariants(c) => validate_setup_invariants(d)
  PROVE  Edited(c, Ok(d))
  <1>1. Ok(d).cfg = d
    BY Results
  <1> QED BY <1>1 DEF Edited

LEMMA AddAgentEdit ==
  ASSUME NEW c, ConfigShape(c), NEW a, NEW r, r = add_agent(c, a) PROVE Edited(c, r)
  <1>1. CASE a \in AgentIds(c)
    BY <1>1, RefusedEdit DEF add_agent
  <1>2. CASE a \notin AgentIds(c)
    <2>1. PICK x : x = [y \in AgentIds(c) \cup {a} |-> y /= a /\ c.agents[y]]
      OBVIOUS
    <2>2. PICK d : d = [c EXCEPT !.agents = x]
      OBVIOUS
    <2>3. r = Validated(d)
      BY <1>2, <2>1, <2>2 DEF add_agent
    <2> QED BY <2>2, <2>3, SetAgents, ValidatedEdit
  <1> QED BY <1>1, <1>2

LEMMA RemoveAgentEdit ==
  ASSUME NEW c, ConfigShape(c), NEW a, NEW r, r = remove_agent(c, a) PROVE Edited(c, r)
  <1>0. PICK left : left = AgentIds(c) \ {a}
    OBVIOUS
  <1>1. CASE a \notin AgentIds(c) \/ left = {}
    BY <1>0, <1>1, RefusedEdit DEF remove_agent
  <1>2. CASE ~(a \notin AgentIds(c) \/ left = {})
    <2>1. PICK x, y : /\ x = [z \in left |-> c.agents[z]]
                      /\ y = IF c.selector = a THEN FirstKey(left) ELSE c.selector
      OBVIOUS
    <2>2. PICK e : e = [c EXCEPT !.agents = x]
      OBVIOUS
    <2>3. PICK d : d = [e EXCEPT !.selector = y]
      OBVIOUS
    <2>4. ConfigShape(e) /\ e.id = c.id
      BY <2>2, SetAgents
    <2>5. ConfigShape(d) /\ d.id = c.id
      BY <2>3, <2>4, SetSelector
    <2>6. d = [c EXCEPT !.agents = x, !.selector = y]
      BY <2>2, <2>3
    <2>7. r = Validated(d)
      BY <1>0, <1>2, <2>1, <2>6 DEF remove_agent
    <2> QED BY <2>5, <2>7, ValidatedEdit
  <1> QED BY <1>1, <1>2

\* Validity looks at the agents' ids and at the selector only.
LEMMA AgentsValid ==
  ASSUME NEW c, ConfigShape(c), validate_setup_invariants(c), NEW d, d.workflows = c.workflows,
         d.default = c.default, AgentIds(c) \subseteq AgentIds(d), d.selector \in AgentIds(d),
         d.agents[d.selector]
  PROVE  validate_setup_invariants(d)
  <1>1. \A x : StepValid(c, x) => StepValid(d, x)
    BY DEF StepValid
  <1>2. \A wf : WorkflowValid(c, wf) => WorkflowValid(d, wf)
    BY <1>1 DEF WorkflowValid
  <1> QED BY <1>2 DEF validate_setup_invariants, WorkflowIds

LEMMA ToggleEdit ==
  ASSUME NEW c, ConfigShape(c), NEW a, NEW r, r = toggle_agent_orchestration_capability(c, a)
  PROVE  Edited(c, r)
  <1>1. CASE a \notin AgentIds(c) \/ (a = c.selector /\ c.agents[a])
    BY <1>1, RefusedEdit DEF toggle_agent_orchestration_capability
  <1>2. CASE ~(a \notin AgentIds(c) \/ (a = c.selector /\ c.agents[a]))
    <2>1. PICK x : x = [c.agents EXCEPT ![a] = ~c.agents[a]]
      OBVIOUS
    <2>2. PICK d : d = [c EXCEPT !.agents = x]
      OBVIOUS
    <2>3. r = Ok(d)
      BY <1>2, <2>1, <2>2 DEF toggle_agent_orchestration_capability
    <2>4. /\ ConfigShape(d) /\ d.id = c.id /\ d.selector = c.selector /\ d.default = c.default
          /\ d.agents = x /\ d.workflows = c.workflows
      BY <2>2, SetAgents
    <2>5. AgentIds(d) = AgentIds(c)
      BY <2>1, <2>4 DEF AgentIds
    <2>6. ASSUME validate_setup_invariants(c) PROVE validate_setup_invariants(d)
      <3>1. c.selector \in AgentIds(c) /\ c.agents[c.selector]
        BY <2>6 DEF validate_setup_invariants
      <3>2. a # c.selector
        BY <1>2, <3>1
      <3>3. x[c.selector] = c.agents[c.selector]
        BY <2>1, <3>1, <3>2 DEF AgentIds
      <3> QED BY <2>4, <2>5, <2>6, <3>1, <3>3, AgentsValid
    <2> QED BY <2>3, <2>4, <2>6, OkEdit
  <1> QED BY <1>1, <1>2

LEMMA SelectorEdit ==
  ASSUME NEW c, ConfigShape(c), NEW a, NEW r, r = set_selector_agent(c, a) PROVE Edited(c, r)
  <1>1. CASE a \notin AgentIds(c)
    BY <1>1, RefusedEdit DEF set_selector_agent
  <1>2. CASE a \in AgentIds(c)
    <2>1. PICK e : e = [c EXCEPT !.selector = a]
      OBVIOUS
    <2>2. /\ ConfigShape(e) /\ e.id = c.id /\ e.selector = a /\ e.default = c.default
          /\ e.agents = c.agents /\ e.workflows = c.workflows
      BY <2>1, SetSelector
    <2>3. PICK x : x = [c.agents EXCEPT ![a] = TRUE]
      OBVIOUS
    <2>4. PICK d : d = [e EXCEPT !.agents = x]
      OBVIOUS
    <2>5. /\ ConfigShape(d) /\ d.id = c.id /\ d.selector = a /\ d.default = c.default
          /\ d.agents = x /\ d.workflows = c.workflows
      BY <2>2, <2>4, SetAgents
    <2>6. r = Ok(d)
      <3>1. d = [c EXCEPT !.selector = a, !.agents[a] = TRUE]
        BY <2>1, <2>2, <2>3, <2>4
      <3> QED BY <1>2, <3>1 DEF set_selector_agent
    <2>7. AgentIds(d) = AgentIds(c) /\ x[a]
      BY <1>2, <2>3, <2>5 DEF AgentIds
    <2>8. ASSUME validate_setup_invariants(c) PROVE validate_setup_invariants(d)
      BY <1>2, <2>5, <2>7, <2>8, AgentsValid
    <2> QED BY <2>5, <2>6, <2>8, OkEdit
  <1> QED BY <1>1, <1>2

LEMMA DefaultEdit ==
  ASSUME NEW c, ConfigShape(c), NEW w, NEW r, r = set_orchestrator_default_workflow(c, w)
  PROVE  Edited(c, r) /\ SameWorkflows(c, r)
  <1>1. CASE w \notin WorkflowIds(c)
    BY <1>1, RefusedEdit DEF set_orchestrator_default_workflow
  <1>2. CASE w \in WorkflowIds(c)
    <2>1. PICK d : d = [c EXCEPT !.default = w]
      OBVIOUS
    <2>2. r = Validated(d)
      BY <1>2, <2>1 DEF set_orchestrator_default_workflow
    <2>3. ConfigShape(d) /\ d.id = c.id /\ d.workflows = c.workflows
      BY <2>1, SetDefault
    <2>4. SameWorkflows(c, r)
      <3>1. r.cfg = d
        BY <2>2, Results
      <3> QED BY <2>3, <3>1 DEF SameWorkflows, WorkflowIds
    <2> QED BY <2>2, <2>3, <2>4, ValidatedEdit
  <1> QED BY <1>1, <1>2

LEMMA OneTask ==
  ASSUME NEW t, StepShape(t), NEW w, IdOK(w), NEW wf, wf = [id |-> w, steps |-> <<t>>]
  PROVE  WorkflowShape(wf)
  <1>1. wf.id = w /\ wf.steps = <<t>> /\ DOMAIN wf = {"id", "steps"}
    OBVIOUS
  <1>2. DOMAIN <<t>> = 1 .. 1 /\ <<t>>[1] = t /\ <<t>> = [i \in 1 .. 1 |-> <<t>>[i]]
    OBVIOUS
  <1>3. PICK x : x = <<t>>
    OBVIOUS
  <1>4. DOMAIN x = 1 .. 1 /\ x[1] = t /\ x = [i \in DOMAIN x |-> x[i]]
    BY <1>2, <1>3
  <1>5. StepsShape(x)
    <2>1. Listed(x)
      BY <1>4 DEF Listed
    <2> QED BY <1>4, <2>1 DEF StepsShape
  <1> QED BY <1>1, <1>3, <1>5 DEF WorkflowShape

LEMMA AddWorkflowEdit ==
  ASSUME NEW c, ConfigShape(c), NEW w, w \in WorkflowIds(c) \/ IdOK(w), NEW r, r = add_workflow(c, w)
  PROVE  Edited(c, r)
  <1>1. CASE w \in WorkflowIds(c)
    BY <1>1, RefusedEdit DEF add_workflow
  <1>2. CASE w \notin WorkflowIds(c)
    <2>1. PICK t : t = Task("step_1", c.selector, None)
      OBVIOUS
    <2>2. PICK wf : wf = [id |-> w, steps |-> <<t>>]
      OBVIOUS
    <2>3. WorkflowShape(wf)
      BY <1>2, <2>1, <2>2, OneTask, TaskFact
    <2>4. PICK f, g : f = c.workflows /\ g = Append(f, wf)
      OBVIOUS
    <2>5. Listed(f) /\ \A i \in DOMAIN f : WorkflowShape(f[i])
      BY <2>4 DEF ConfigShape, WorkflowsShape
    <2>6. Listed(g) /\ \A k \in DOMAIN g : g[k] = wf \/ (k \in DOMAIN f /\ g[k] = f[k])
      BY <2>4, <2>5, AppendFact DEF Longer
    <2>7. WorkflowsShape(g)
      BY <2>3, <2>5, <2>6 DEF WorkflowsShape
    <2>8. PICK d : d = [c EXCEPT !.workflows = g]
      OBVIOUS
    <2>9. r = Validated(d)
      BY <1>2, <2>1, <2>2, <2>4, <2>8 DEF add_workflow, NewWorkflow
    <2> QED BY <2>7, <2>8, <2>9, SetWorkflows, ValidatedEdit
  <1> QED BY <1>1, <1>2

LEMMA RemoveWorkflowEdit ==
  ASSUME NEW c, ConfigShape(c), NEW w, NEW r, r = remove_workflow(c, w) PROVE Edited(c, r)
  <1>1. PICK f, left : f = c.workflows /\ left = Without(f, w)
    OBVIOUS
  <1>2. CASE w \notin WorkflowIds(c) \/ left = <<>>
    BY <1>1, <1>2, RefusedEdit DEF remove_workflow
  <1>3. CASE ~(w \notin WorkflowIds(c) \/ left = <<>>)
    <2>1. Listed(f) /\ \A i \in DOMAIN f : WorkflowShape(f[i])
      BY <1>1 DEF ConfigShape, WorkflowsShape
    <2>2. PICK n \in Nat : DOMAIN f = 1 .. n
      BY <2>1 DEF Listed
    <2>3. Listed(left) /\ \A k \in DOMAIN left : \E i \in DOMAIN f : left[k] = f[i]
      BY <1>1, <2>2, WithoutFact
    <2>4. WorkflowsShape(left)
      BY <2>1, <2>3 DEF WorkflowsShape
    <2>5. PICK x : x = IF c.default = w THEN left[1].id ELSE c.default
      OBVIOUS
    <2>6. PICK e : e = [c EXCEPT !.workflows = left]
      OBVIOUS
    <2>7. ConfigShape(e) /\ e.id = c.id
      BY <2>4, <2>6, SetWorkflows
    <2>8. PICK d : d = [e EXCEPT !.default = x]
      OBVIOUS
    <2>9. ConfigShape(d) /\ d.id = c.id
      BY <2>7, <2>8, SetDefault
    <2>10. d = [c EXCEPT !.workflows = left, !.default = x]
      BY <2>6, <2>8
    <2>11. r = Validated(d)
      BY <1>1, <1>3, <2>5, <2>10 DEF remove_workflow
    <2> QED BY <2>9, <2>11, ValidatedEdit
  <1> QED BY <1>2, <1>3

\* An accepted rename leaves the new id in place of the old one.
LEMMA RenameWorkflowEdit ==
  ASSUME NEW c, ConfigShape(c), NEW w, NEW next, IdOK(next), NEW r, r = rename_workflow(c, w, next)
  PROVE  Edited(c, r) /\ (r.ok => next \in WorkflowIds(r.cfg))
  <1>1. CASE w \notin WorkflowIds(c) \/ next \in WorkflowIds(c) \ {w}
    BY <1>1, RefusedEdit, Results DEF rename_workflow
  <1>2. CASE ~(w \notin WorkflowIds(c) \/ next \in WorkflowIds(c) \ {w})
    <2>1. PICK f : f = c.workflows
      OBVIOUS
    <2>2. PICK g : g = [i \in DOMAIN f |-> IF f[i].id = w THEN [f[i] EXCEPT !.id = next] ELSE f[i]]
      OBVIOUS
    <2>3. Listed(f) /\ \A i \in DOMAIN f : WorkflowShape(f[i])
      BY <2>1 DEF ConfigShape, WorkflowsShape
    <2>4. DOMAIN g = DOMAIN f /\ g = [i \in DOMAIN g |-> g[i]]
      BY <2>2
    <2>5. ASSUME NEW i \in DOMAIN f
          PROVE  WorkflowShape(g[i]) /\ (f[i].id = w => g[i].id = next)
      <3>1. CASE f[i].id = w
        <4>1. PICK x : x = f[i]
          OBVIOUS
        <4>2. WorkflowShape(x) /\ g[i] = [x EXCEPT !.id = next]
          BY <2>2, <2>3, <3>1, <4>1
        <4> QED BY <4>2 DEF WorkflowShape
      <3>2. CASE f[i].id # w
        BY <2>2, <2>3, <3>2
      <3> QED BY <3>1, <3>2
    <2>6. WorkflowsShape(g)
      <3>1. Listed(g)
        BY <2>3, <2>4 DEF Listed
      <3> QED BY <2>4, <2>5, <3>1 DEF WorkflowsShape
    <2>7. PICK x : x = IF c.default = w THEN next ELSE c.default
      OBVIOUS
    <2>8. PICK e : e = [c EXCEPT !.workflows = g]
      OBVIOUS
    <2>9. ConfigShape(e) /\ e.id = c.id /\ e.workflows = g
      BY <2>6, <2>8, SetWorkflows
    <2>10. PICK d : d = [e EXCEPT !.default = x]
      OBVIOUS
    <2>11. ConfigShape(d) /\ d.id = c.id /\ d.workflows = g
      BY <2>9, <2>10, SetDefault
    <2>12. d = [c EXCEPT !.workflows = g, !.default = x]
      BY <2>8, <2>10
    <2>13. r = Validated(d)
      BY <1>2, <2>1, <2>2, <2>7, <2>12 DEF rename_workflow
    <2>14. next \in WorkflowIds(d)
      <3>1. PICK i \in DOMAIN f : f[i].id = w
        BY <1>2, <2>1 DEF WorkflowIds
      <3> QED BY <2>4, <2>5, <2>11, <3>1 DEF WorkflowIds
    <2>15. Edited(c, r)
      BY <2>11, <2>13, ValidatedEdit
    <2>16. r.cfg = d
      BY <2>13, Results
    <2> QED BY <2>14, <2>15, <2>16
  <1> QED BY <1>1, <1>2

-----------------------------------------------------------------------------
(* The templates                                                           *)

\* A step and a workflow that are valid wherever the agents A are.
StepGood(A, step) ==
    /\ StepShape(step) /\ step.agent \in A
    /\ "summary" \in step.outputs /\ step.outputs \subseteq step.files
    /\ step.priority # {} /\ step.priority \subseteq step.outputs

WorkflowGood(A, wf) ==
    /\ WorkflowShape(wf) /\ wf.steps # <<>>
    /\ \A i, j \in DOMAIN wf.steps : wf.steps[i].id = wf.steps[j].id => i = j
    /\ \A i \in DOMAIN wf.steps : StepGood(A, wf.steps[i])

LEMMA GoodIsValid ==
  ASSUME NEW c, NEW A, A \subseteq AgentIds(c), NEW wf, WorkflowGood(A, wf)
  PROVE  WorkflowValid(c, wf)
  BY DEF WorkflowValid, WorkflowGood, StepGood, StepValid, IsInjective

LEMMA TaskGood ==
  ASSUME NEW A, NEW a \in A, NEW s, NEW next
  PROVE  StepGood(A, Task(s, a, next)) /\ Task(s, a, next).id = s
  <1>1. PICK t : t = Task(s, a, next)
    OBVIOUS
  <1>2. /\ StepShape(t) /\ t.id = s /\ t.agent = a /\ t.outputs = {"summary", "artifact"}
        /\ t.files = t.outputs /\ t.priority = {"artifact", "summary"}
    BY <1>1, TaskFact
  <1> QED BY <1>1, <1>2 DEF StepGood

LEMMA ReviewGood ==
  ASSUME NEW A, NEW a \in A, NEW s, NEW approve, NEW reject
  PROVE  StepGood(A, Review(s, a, approve, reject)) /\ Review(s, a, approve, reject).id = s
  <1>1. PICK t : t = Review(s, a, approve, reject)
    OBVIOUS
  <1>2. /\ StepShape(t) /\ t.id = s /\ t.agent = a /\ t.outputs = {"decision", "summary", "feedback"}
        /\ t.files = t.outputs /\ t.priority = {"summary"}
    BY <1>1 DEF Review, workflow_step, default_step_output_contract,
                default_step_output_priority, StepShape
  <1> QED BY <1>1, <1>2 DEF StepGood

LEMMA DecomposeGood ==
  ASSUME NEW A, "planner" \in A
  PROVE  StepGood(A, TaskDecompose) /\ TaskDecompose.id = "task_decompose"
  <1>1. PICK t, k, p : /\ t = Task("task_decompose", "planner", "implement")
                       /\ k = {"summary", "task_list"} /\ p = {"task_list", "summary"}
    OBVIOUS
  <1>2. StepShape(t) /\ t.id = "task_decompose" /\ t.agent = "planner"
    BY <1>1, TaskFact
  <1>3. PICK u : u = [t EXCEPT !.outputs = k]
    OBVIOUS
  <1>4. PICK v : v = [u EXCEPT !.files = k]
    OBVIOUS
  <1>5. PICK x : x = [v EXCEPT !.priority = p]
    OBVIOUS
  <1>6. StepShape(u) /\ u.id = t.id /\ u.agent = t.agent /\ u.outputs = k
    BY <1>2, <1>3 DEF StepShape
  <1>7. StepShape(v) /\ v.id = t.id /\ v.agent = t.agent /\ v.outputs = k /\ v.files = k
    BY <1>4, <1>6 DEF StepShape
  <1>8. /\ StepShape(x) /\ x.id = t.id /\ x.agent = t.agent /\ x.outputs = k /\ x.files = k
        /\ x.priority = p
    BY <1>5, <1>7 DEF StepShape
  <1>9. x = TaskDecompose
    BY <1>1, <1>3, <1>4, <1>5 DEF TaskDecompose
  <1> QED BY <1>1, <1>2, <1>8, <1>9 DEF StepGood

\* A list of good steps with ids of their own makes a good workflow.
LEMMA MakeGood ==
  ASSUME NEW A, NEW n \in Nat, n # 0, NEW steps, DOMAIN steps = 1 .. n, Listed(steps),
         \A i \in 1 .. n : StepGood(A, steps[i]),
         \A i, j \in 1 .. n : steps[i].id = steps[j].id => i = j,
         NEW id, IdOK(id), NEW wf, wf = [id |-> id, steps |-> steps]
  PROVE  WorkflowGood(A, wf) /\ wf.id = id
  <1>1. wf.id = id /\ wf.steps = steps /\ DOMAIN wf = {"id", "steps"}
    OBVIOUS
  <1>2. steps # <<>>
    OBVIOUS
  <1>3. StepsShape(steps)
    BY DEF StepsShape, StepGood
  <1>4. WorkflowShape(wf)
    BY <1>1, <1>3 DEF WorkflowShape
  <1> QED BY <1>1, <1>2, <1>4 DEF WorkflowGood

LEMMA PlainOK ==
  ASSUME NEW name \in {"default", "feature_delivery", "quick_answer", "prd_draft", "release_notes"}
                       \cup WorkflowNames
  PROVE  IdOK(Plain(name)) /\ Plain(name)[1] = name /\ Plain(name)[2] = 1
  <1>1. Plain(name)[1] = name /\ Plain(name)[2] = 1
    BY DEF Plain
  <1>2. Rank[name] \in Nat
    BY ConstantsOK
  <1> QED BY <1>1, <1>2 DEF IdOK

LEMMA OneStepGood ==
  ASSUME NEW name \in {"default", "feature_delivery", "quick_answer", "prd_draft", "release_notes"},
         NEW s, NEW A, NEW a \in A
  PROVE  WorkflowGood(A, OneStep(name, s, a)) /\ OneStep(name, s, a).id = Plain(name)
  <1>1. PICK t : t = Task(s, a, None)
    OBVIOUS
  <1>2. StepGood(A, t)
    BY <1>1, TaskGood
  <1>3. PICK steps : steps = <<t>>
    OBVIOUS
  <1>4. DOMAIN steps = 1 .. 1 /\ steps[1] = t /\ steps = [i \in DOMAIN steps |-> steps[i]]
    BY <1>3
  <1>5. Listed(steps)
    BY <1>4 DEF Listed
  <1>6. \A i \in 1 .. 1 : StepGood(A, steps[i])
    BY <1>2, <1>4
  <1>7. \A i, j \in 1 .. 1 : steps[i].id = steps[j].id => i = j
    OBVIOUS
  <1>8. PICK id : id = Plain(name) /\ IdOK(id)
    BY PlainOK
  <1>9. PICK wf : wf = [id |-> id, steps |-> steps]
    OBVIOUS
  <1>10. WorkflowGood(A, wf) /\ wf.id = id
    BY <1>4, <1>5, <1>6, <1>7, <1>8, <1>9, MakeGood
  <1>11. wf = OneStep(name, s, a)
    BY <1>1, <1>3, <1>8, <1>9 DEF OneStep
  <1> QED BY <1>8, <1>10, <1>11

LEMMA DraftGood ==
  ASSUME NEW A, "researcher" \in A, "writer" \in A
  PROVE  WorkflowGood(A, prd_draft) /\ prd_draft.id = Plain("prd_draft")
  <1>1. PICK t, u : t = Task("research", "researcher", "draft") /\ u = Task("draft", "writer", None)
    OBVIOUS
  <1>2. StepGood(A, t) /\ t.id = "research" /\ StepGood(A, u) /\ u.id = "draft"
    BY <1>1, TaskGood
  <1>3. PICK steps : steps = <<t, u>>
    OBVIOUS
  <1>4. /\ DOMAIN steps = 1 .. 2 /\ steps[1] = t /\ steps[2] = u
        /\ steps = [i \in DOMAIN steps |-> steps[i]]
    BY <1>3
  <1>5. Listed(steps)
    BY <1>4 DEF Listed
  <1>6. \A i \in 1 .. 2 : i = 1 \/ i = 2
    OBVIOUS
  <1>7. \A i \in 1 .. 2 : StepGood(A, steps[i])
    BY <1>2, <1>4, <1>6
  <1>8. \A i, j \in 1 .. 2 : steps[i].id = steps[j].id => i = j
    BY <1>2, <1>4, <1>6
  <1>9. PICK id : id = Plain("prd_draft") /\ IdOK(id)
    BY PlainOK
  <1>10. PICK wf : wf = [id |-> id, steps |-> steps]
    OBVIOUS
  <1>11. WorkflowGood(A, wf) /\ wf.id = id
    <2>1. PICK n \in Nat : n = 2
      OBVIOUS
    <2>2. n # 0 /\ DOMAIN steps = 1 .. n
      BY <1>4, <2>1
    <2>3. /\ \A i \in 1 .. n : StepGood(A, steps[i])
          /\ \A i, j \in 1 .. n : steps[i].id = steps[j].id => i = j
      BY <1>7, <1>8, <2>1
    <2> QED BY <1>5, <1>9, <1>10, <2>2, <2>3, MakeGood
  <1>12. wf = prd_draft
    BY <1>1, <1>3, <1>9, <1>10, Zenon DEF prd_draft
  <1> QED BY <1>9, <1>11, <1>12

LEMMA DeliveryGood ==
  ASSUME NEW A, "planner" \in A, "builder" \in A, "reviewer" \in A
  PROVE  WorkflowGood(A, feature_delivery) /\ feature_delivery.id = Plain("feature_delivery")
  <1>1. PICK s1, s2, s3, s4, s5, s6, s7 :
          /\ s1 = Task("plan", "planner", "plan_review")
          /\ s2 = Review("plan_review", "reviewer", "task_decompose", "plan")
          /\ s3 = TaskDecompose
          /\ s4 = Task("implement", "builder", "review")
          /\ s5 = Review("review", "reviewer", "task_loop_gate", "implement")
          /\ s6 = Review("task_loop_gate", "reviewer", "implement", "done")
          /\ s7 = Task("done", "planner", None)
    OBVIOUS
  <1>2. /\ StepGood(A, s1) /\ s1.id = "plan" /\ StepGood(A, s4) /\ s4.id = "implement"
        /\ StepGood(A, s7) /\ s7.id = "done"
    BY <1>1, TaskGood
  <1>3. /\ StepGood(A, s2) /\ s2.id = "plan_review" /\ StepGood(A, s5) /\ s5.id = "review"
        /\ StepGood(A, s6) /\ s6.id = "task_loop_gate"
    BY <1>1, ReviewGood
  <1>4. StepGood(A, s3) /\ s3.id = "task_decompose"
    BY <1>1, DecomposeGood
  <1>5. PICK steps : steps = <<s1, s2, s3, s4, s5, s6, s7>>
    OBVIOUS
  <1>6. /\ DOMAIN steps = 1 .. 7 /\ steps[1] = s1 /\ steps[2] = s2 /\ steps[3] = s3
        /\ steps[4] = s4 /\ steps[5] = s5 /\ steps[6] = s6 /\ steps[7] = s7
        /\ steps = [i \in DOMAIN steps |-> steps[i]]
    BY <1>5
  <1>7. Listed(steps)
    BY <1>6 DEF Listed
  <1>8. \A i \in 1 .. 7 : i = 1 \/ i = 2 \/ i = 3 \/ i = 4 \/ i = 5 \/ i = 6 \/ i = 7
    OBVIOUS
  <1>9. \A i \in 1 .. 7 : StepGood(A, steps[i])
    BY <1>2, <1>3, <1>4, <1>6, <1>8
  <1>10. \A i, j \in 1 .. 7 : steps[i].id = steps[j].id => i = j
    BY <1>2, <1>3, <1>4, <1>6, <1>8
  <1>11. PICK id : id = Plain("feature_delivery") /\ IdOK(id)
    BY PlainOK
  <1>12. PICK wf : wf = [id |-> id, steps |-> steps]
    OBVIOUS
  <1>13. WorkflowGood(A, wf) /\ wf.id = id
    <2>1. PICK n \in Nat : n = 7
      OBVIOUS
    <2>2. n # 0 /\ DOMAIN steps = 1 .. n
      BY <1>6, <2>1
    <2>3. /\ \A i \in 1 .. n : StepGood(A, steps[i])
          /\ \A i, j \in 1 .. n : steps[i].id = steps[j].id => i = j
      BY <1>9, <1>10, <2>1
    <2> QED BY <1>7, <1>11, <1>12, <2>2, <2>3, MakeGood
  <1>14. wf = feature_delivery
    BY <1>1, <1>5, <1>11, <1>12, Zenon DEF feature_delivery
  <1> QED BY <1>11, <1>13, <1>14

Three == {"minimal", "engineering", "product"}

\* Good workflows with names of their own.
WorkflowsGood(A, f) ==
    /\ Listed(f) /\ 1 \in DOMAIN f
    /\ \A i \in DOMAIN f : WorkflowGood(A, f[i])
    /\ \A i, j \in DOMAIN f : f[i].id[1] = f[j].id[1] => i = j

LEMMA OneWorkflow ==
  ASSUME NEW A, NEW x, WorkflowGood(A, x) PROVE WorkflowsGood(A, <<x>>)
  <1>1. PICK f : f = <<x>>
    OBVIOUS
  <1>2. DOMAIN f = 1 .. 1 /\ f[1] = x /\ f = [i \in DOMAIN f |-> f[i]]
    BY <1>1
  <1>3. Listed(f)
    BY <1>2 DEF Listed
  <1>4. \A i \in DOMAIN f : i = 1
    BY <1>2
  <1>5. WorkflowsGood(A, f)
    BY <1>2, <1>3, <1>4 DEF WorkflowsGood
  <1> QED BY <1>1, <1>5

LEMMA TwoWorkflows ==
  ASSUME NEW A, NEW x, WorkflowGood(A, x), NEW y, WorkflowGood(A, y), x.id[1] # y.id[1]
  PROVE  WorkflowsGood(A, <<x, y>>)
  <1>1. PICK f : f = <<x, y>>
    OBVIOUS
  <1>2. DOMAIN f = 1 .. 2 /\ f[1] = x /\ f[2] = y /\ f = [i \in DOMAIN f |-> f[i]]
    BY <1>1
  <1>3. Listed(f)
    BY <1>2 DEF Listed
  <1>4. \A i \in DOMAIN f : i = 1 \/ i = 2
    BY <1>2
  <1>5. 1 \in DOMAIN f
    BY <1>2
  <1>6. \A i, j \in DOMAIN f : f[i].id[1] = f[j].id[1] => i = j
    BY <1>2, <1>4
  <1>7. \A i \in DOMAIN f : WorkflowGood(A, f[i])
    BY <1>2, <1>4
  <1>8. WorkflowsGood(A, f)
    BY <1>3, <1>5, <1>6, <1>7 DEF WorkflowsGood
  <1> QED BY <1>1, <1>8

LEMMA TemplateGood ==
  ASSUME NEW t \in Three
  PROVE  WorkflowsGood({"default"} \cup template_agents(t), template_workflows(t))
  <1>1. PICK A : A = {"default"} \cup template_agents(t)
    OBVIOUS
  <1>2. \A name \in {"default", "feature_delivery", "quick_answer", "prd_draft", "release_notes"} :
           Plain(name)[1] = name
    BY PlainOK
  <1>3. CASE t = "minimal"
    <2>1. template_workflows(t) = << OneStep("default", "step_1", "default") >>
      BY <1>3 DEF template_workflows
    <2>2. PICK x : x = OneStep("default", "step_1", "default")
      OBVIOUS
    <2>3. WorkflowGood(A, x)
      BY <1>1, <2>2, OneStepGood
    <2> QED BY <1>1, <2>1, <2>2, <2>3, OneWorkflow
  <1>4. CASE t = "engineering"
    <2>1. template_agents(t) = {"planner", "builder", "reviewer"}
      BY <1>4 DEF template_agents
    <2>2. template_workflows(t) = << feature_delivery, OneStep("quick_answer", "answer", "planner") >>
      BY <1>4 DEF template_workflows
    <2>3. PICK x, y : x = feature_delivery /\ y = OneStep("quick_answer", "answer", "planner")
      OBVIOUS
    <2>4. "planner" \in A /\ "builder" \in A /\ "reviewer" \in A
      BY <1>1, <2>1
    <2>5. WorkflowGood(A, x) /\ x.id = Plain("feature_delivery")
      BY <2>3, <2>4, DeliveryGood
    <2>6. WorkflowGood(A, y) /\ y.id = Plain("quick_answer")
      BY <2>3, <2>4, OneStepGood
    <2>7. x.id[1] # y.id[1]
      BY <1>2, <2>5, <2>6
    <2>8. template_workflows(t) = <<x, y>>
      BY <2>2, <2>3
    <2> QED BY <1>1, <2>5, <2>6, <2>7, <2>8, TwoWorkflows
  <1>5. CASE t = "product"
    <2>1. template_agents(t) = {"researcher", "writer"}
      BY <1>5 DEF template_agents
    <2>2. template_workflows(t) = << prd_draft, OneStep("release_notes", "compose", "writer") >>
      BY <1>5 DEF template_workflows
    <2>3. PICK x, y : x = prd_draft /\ y = OneStep("release_notes", "compose", "writer")
      OBVIOUS
    <2>4. "researcher" \in A /\ "writer" \in A
      BY <1>1, <2>1
    <2>5. WorkflowGood(A, x) /\ x.id = Plain("prd_draft")
      BY <2>3, <2>4, DraftGood
    <2>6. WorkflowGood(A, y) /\ y.id = Plain("release_notes")
      BY <2>3, <2>4, OneStepGood
    <2>7. x.id[1] # y.id[1]
      BY <1>2, <2>5, <2>6
    <2>8. template_workflows(t) = <<x, y>>
      BY <2>2, <2>3
    <2> QED BY <1>1, <2>5, <2>6, <2>7, <2>8, TwoWorkflows
  <1> QED BY <1>3, <1>4, <1>5 DEF Three

LEMMA InitialFact ==
  ASSUME NEW o, NEW t \in Three, NEW c, c = initial_orchestrator_config(o, t)
  PROVE  ConfigShape(c) /\ validate_setup_invariants(c) /\ c.id = o
  <1>1. PICK A, f : A = {"default"} \cup template_agents(t) /\ f = template_workflows(t)
    OBVIOUS
  <1>2. WorkflowsGood(A, f)
    BY <1>1, TemplateGood
  <1>3. PICK g : g = [a \in A |-> a = "default"]
    OBVIOUS
  <1>4. c = [id |-> o, selector |-> "default", default |-> f[1].id, agents |-> g, workflows |-> f]
    BY <1>1, <1>3, Zenon DEF initial_orchestrator_config
  <1>5. /\ c.id = o /\ c.selector = "default" /\ c.default = f[1].id /\ c.agents = g
        /\ c.workflows = f
        /\ DOMAIN c = {"id", "selector", "default", "agents", "workflows"}
    BY <1>4
  <1>6. AgentIds(c) = A /\ "default" \in A /\ g["default"] = TRUE
    BY <1>1, <1>3, <1>5 DEF AgentIds
  <1>7. ConfigShape(c)
    BY <1>2, <1>5 DEF ConfigShape, WorkflowsShape, WorkflowsGood, WorkflowGood
  <1>8. \A i \in DOMAIN f : WorkflowValid(c, f[i])
    BY <1>2, <1>6, GoodIsValid DEF WorkflowsGood
  <1>9. \A i, j \in DOMAIN f : f[i].id = f[j].id => i = j
    BY <1>2 DEF WorkflowsGood
  <1>10. IsInjective([i \in DOMAIN f |-> f[i].id])
    BY <1>9 DEF IsInjective
  <1>11. c.default \in WorkflowIds(c)
    BY <1>2, <1>5 DEF WorkflowIds, WorkflowsGood
  <1>12. c.selector \in AgentIds(c) /\ c.agents[c.selector]
    BY <1>5, <1>6
  <1> QED BY <1>5, <1>7, <1>8, <1>10, <1>11, <1>12 DEF validate_setup_invariants

\* Among one more number than there are ids one is free.
LEMMA UniqueFact ==
  ASSUME NEW n \in Nat, NEW used, used = [i \in 1 .. n |-> used[i]], NEW id,
         NEW u, u = unique_workflow_id(used, id)
  PROVE  u[1] = id[1] /\ u[2] \in Nat /\ \A i \in 1 .. n : used[i] # u
  <1>1. PICK name : name = id[1]
    OBVIOUS
  <1>2. PICK S : S = {used[i] : i \in 1 .. n}
    OBVIOUS
  <1>3. used \in Seq(S) /\ Len(used) = n
    <2>1. \A i \in 1 .. n : used[i] \in S
      BY <1>2
    <2> QED BY <2>1, SeqOver
  <1>4. DOMAIN used = 1 .. n
    OBVIOUS
  <1>5. ToSet(used) = S
    BY <1>2, <1>4 DEF ToSet
  <1>6. PICK free : free = {k \in 1 .. n + 1 : <<name, k>> \notin S}
    OBVIOUS
  <1>7. u = <<name, CHOOSE k \in free : \A m \in free : k <= m>>
    BY <1>1, <1>3, <1>5, <1>6 DEF unique_workflow_id
  <1>8. free # {}
    <2> SUFFICES ASSUME free = {} PROVE FALSE
      OBVIOUS
    <2>1. \A k \in 1 .. n + 1 : \E i \in 1 .. n : used[i] = <<name, k>>
      BY <1>2, <1>6
    <2>2. PICK g : g = [k \in 1 .. n + 1 |-> CHOOSE i \in 1 .. n : used[i] = <<name, k>>]
      OBVIOUS
    <2>3. \A k \in 1 .. n + 1 : g[k] \in 1 .. n /\ used[g[k]] = <<name, k>>
      BY <2>1, <2>2
    <2>4. g \in [1 .. n + 1 -> 1 .. n]
      BY <2>2, <2>3
    <2>5. \A k, l \in 1 .. n + 1 : g[k] = g[l] => k = l
      <3> SUFFICES ASSUME NEW k \in 1 .. n + 1, NEW l \in 1 .. n + 1, g[k] = g[l] PROVE k = l
        OBVIOUS
      <3>1. <<name, k>> = <<name, l>>
        BY <2>3
      <3> QED BY <3>1
    <2>6. g \in Injection(1 .. n + 1, 1 .. n)
      BY <2>4, <2>5 DEF Injection, IsInjective
    <2>7. IsFiniteSet(1 .. n) /\ Cardinality(1 .. n) = n
      BY FS_Interval
    <2>8. n + 1 \in Nat /\ Cardinality(1 .. n + 1) = n + 1
      BY FS_Interval
    <2>9. Cardinality(1 .. n + 1) <= Cardinality(1 .. n)
      BY <2>6, <2>7, FS_Injection
    <2> QED BY <2>7, <2>8, <2>9
  <1>9. free \subseteq Nat
    BY <1>6
  <1>10. \E k \in free : \A m \in free : k <= m
    BY <1>8, <1>9, LeastNat
  <1>11. PICK k \in free : u = <<name, k>>
    BY <1>7, <1>10
  <1> QED BY <1>1, <1>2, <1>6, <1>9, <1>11

LEMMA RenamedGood ==
  ASSUME NEW A, NEW wf, WorkflowGood(A, wf), NEW id, IdOK(id), NEW x, x = [wf EXCEPT !.id = id]
  PROVE  WorkflowGood(A, x) /\ x.id = id
  <1>1. {"id", "steps"} \subseteq DOMAIN wf /\ StepsShape(wf.steps)
    BY DEF WorkflowGood, WorkflowShape
  <1>2. x.id = id /\ x.steps = wf.steps /\ {"id", "steps"} \subseteq DOMAIN x
    BY <1>1
  <1> QED BY <1>1, <1>2 DEF WorkflowGood, WorkflowShape

\* The workflows of a template under ids that are free.
LEMMA AddedFact ==
  ASSUME NEW n \in Nat, NEW used, used = [i \in 1 .. n |-> used[i]], NEW A, NEW fresh,
         WorkflowsGood(A, fresh), NEW added,
         added = [i \in DOMAIN fresh |-> [fresh[i] EXCEPT !.id = unique_workflow_id(used, @)]]
  PROVE  /\ WorkflowsGood(A, added)
         /\ \A i \in DOMAIN added, j \in 1 .. n : used[j] # added[i].id
  <1>1. ASSUME NEW i \in DOMAIN fresh
        PROVE  /\ WorkflowGood(A, added[i]) /\ added[i].id[1] = fresh[i].id[1]
               /\ \A j \in 1 .. n : used[j] # added[i].id
    <2>1. PICK id : id = fresh[i].id
      OBVIOUS
    <2>2. PICK u : u = unique_workflow_id(used, id)
      OBVIOUS
    <2>3. u[1] = id[1] /\ u[2] \in Nat /\ \A j \in 1 .. n : used[j] # u
      BY <2>2, UniqueFact
    <2>4. WorkflowGood(A, fresh[i])
      BY DEF WorkflowsGood
    <2>5. IdOK(u)
      BY <2>1, <2>3, <2>4 DEF WorkflowGood, WorkflowShape, IdOK
    <2>6. PICK x : x = added[i]
      OBVIOUS
    <2>7. x = [fresh[i] EXCEPT !.id = u]
      BY <2>1, <2>2, <2>6
    <2>8. WorkflowGood(A, x) /\ x.id = u
      BY <2>4, <2>5, <2>7, RenamedGood
    <2> QED BY <2>1, <2>3, <2>6, <2>8
  <1>2. DOMAIN added = DOMAIN fresh /\ added = [i \in DOMAIN added |-> added[i]]
    OBVIOUS
  <1>3. Listed(added) /\ 1 \in DOMAIN added
    BY <1>2 DEF WorkflowsGood, Listed
  <1>4. \A i, j \in DOMAIN added : added[i].id[1] = added[j].id[1] => i = j
    <2>1. \A i, j \in DOMAIN fresh : fresh[i].id[1] = fresh[j].id[1] => i = j
      BY DEF WorkflowsGood
    <2>2. \A i \in DOMAIN fresh : added[i].id[1] = fresh[i].id[1]
      BY <1>1
    <2> QED BY <1>2, <2>1, <2>2
  <1>5. \A i \in DOMAIN added : WorkflowGood(A, added[i])
    BY <1>1, <1>2
  <1>6. WorkflowsGood(A, added)
    BY <1>3, <1>4, <1>5 DEF WorkflowsGood
  <1> QED BY <1>1, <1>2, <1>6

\* b holds the workflows of t in another order.
Reordered(b, t, n) ==
    /\ Listed(b)
    /\ \A k \in DOMAIN b : \E i \in 1 .. n : b[k] = t[i]
    /\ \A i \in 1 .. n : \E k \in DOMAIN b : b[k] = t[i]
    /\ (\A i, j \in 1 .. n : t[i].id = t[j].id => i = j)
         => \A k, l \in DOMAIN b : b[k].id = b[l].id => k = l

LEMMA ReorderedFact ==
  ASSUME NEW n \in Nat, NEW t, DOMAIN t = 1 .. n, \A i \in 1 .. n : IdOK(t[i].id),
         NEW b, b = ById(t)
  PROVE  Reordered(b, t, n)
  <1>1. Reordered(ById(t), t, n)
    BY ByIdFact DEF Reordered
  <1> QED BY <1>1

LEMMA MergedFact ==
  ASSUME NEW n \in Nat, NEW s, DOMAIN s = 1 .. n, WorkflowsShape(s), NEW A, NEW added,
         WorkflowsGood(A, added), \A i \in DOMAIN added, j \in 1 .. n : s[j].id # added[i].id,
         NEW b, b = ById(s \o added)
  PROVE  /\ WorkflowsShape(b)
         /\ \A k \in DOMAIN b : (\E i \in 1 .. n : b[k] = s[i]) \/ WorkflowGood(A, b[k])
         /\ \E k \in DOMAIN b : b[k] = added[1]
         /\ (\A i, j \in 1 .. n : s[i].id = s[j].id => i = j)
              => \A k, l \in DOMAIN b : b[k].id = b[l].id => k = l
  <1>1. PICK m \in Nat : DOMAIN added = 1 .. m
    BY DEF WorkflowsGood, Listed
  <1>2. Listed(s) /\ Listed(added) /\ \A i \in 1 .. n : WorkflowShape(s[i])
    BY DEF WorkflowsGood, WorkflowsShape
  <1>3. 1 \in 1 .. m /\ \A i \in 1 .. m : WorkflowGood(A, added[i]) /\ WorkflowShape(added[i])
    BY <1>1 DEF WorkflowsGood, WorkflowGood
  <1>4. \A i, j \in 1 .. m : added[i].id = added[j].id => i = j
    BY <1>1 DEF WorkflowsGood
  <1>5. PICK t : t = s \o added
    OBVIOUS
  <1>6. /\ DOMAIN t = 1 .. n + m
        /\ \A k \in 1 .. n : t[k] = s[k]
        /\ \A k \in 1 .. m : t[n + k] = added[k]
    <2>1. Joined(t, s, n, added, m)
      BY <1>1, <1>2, <1>5, ConcatFact
    <2> QED BY <2>1 DEF Joined
  <1>7. PICK c \in Nat : c = n + m
    OBVIOUS
  <1>8. \A i \in 1 .. c : i \in 1 .. n \/ \E k \in 1 .. m : i = n + k
    <2> SUFFICES ASSUME NEW i \in 1 .. c, i \notin 1 .. n PROVE \E k \in 1 .. m : i = n + k
      OBVIOUS
    <2>1. i - n \in 1 .. m /\ i = n + (i - n)
      BY <1>7
    <2> QED BY <2>1
  <1>9. ASSUME NEW i \in 1 .. c
        PROVE  /\ WorkflowShape(t[i])
               /\ (\E j \in 1 .. n : t[i] = s[j]) \/ WorkflowGood(A, t[i])
    <2>1. CASE i \in 1 .. n
      BY <1>2, <1>6, <2>1
    <2>2. CASE \E k \in 1 .. m : i = n + k
      <3>1. PICK k \in 1 .. m : i = n + k
        BY <2>2
      <3>2. t[i] = added[k]
        BY <1>6, <3>1
      <3> QED BY <1>3, <3>2
    <2> QED BY <1>8, <2>1, <2>2
  <1>10. DOMAIN t = 1 .. c /\ \A i \in 1 .. c : IdOK(t[i].id)
    BY <1>6, <1>7, <1>9 DEF WorkflowShape
  <1>10a. b = ById(t)
    BY <1>5
  <1>11. /\ Listed(b)
         /\ \A k \in DOMAIN b : \E i \in 1 .. c : b[k] = t[i]
         /\ \A i \in 1 .. c : \E k \in DOMAIN b : b[k] = t[i]
         /\ (\A i, j \in 1 .. c : t[i].id = t[j].id => i = j)
              => \A k, l \in DOMAIN b : b[k].id = b[l].id => k = l
    <2>1. Reordered(b, t, c)
      BY <1>10, <1>10a, ReorderedFact
    <2> QED BY <2>1 DEF Reordered
  <1>12. WorkflowsShape(b)
    BY <1>9, <1>11 DEF WorkflowsShape
  <1>13. \E k \in DOMAIN b : b[k] = added[1]
    <2>1. n + 1 \in 1 .. c /\ t[n + 1] = added[1]
      BY <1>3, <1>6, <1>7
    <2> QED BY <1>11, <2>1
  <1>14. ASSUME \A i, j \in 1 .. n : s[i].id = s[j].id => i = j
         PROVE  \A i, j \in 1 .. c : t[i].id = t[j].id => i = j
    <2> SUFFICES ASSUME NEW i \in 1 .. c, NEW j \in 1 .. c, t[i].id = t[j].id PROVE i = j
      OBVIOUS
    <2>1. CASE i \in 1 .. n /\ j \in 1 .. n
      BY <1>6, <1>14, <2>1
    <2>2. CASE i \in 1 .. n /\ j \notin 1 .. n
      <3>1. PICK k \in 1 .. m : j = n + k
        BY <1>8, <2>2
      <3>2. t[i] = s[i] /\ t[j] = added[k]
        BY <1>6, <2>2, <3>1
      <3> QED BY <1>1, <2>2, <3>2
    <2>3. CASE i \notin 1 .. n /\ j \in 1 .. n
      <3>1. PICK k \in 1 .. m : i = n + k
        BY <1>8, <2>3
      <3>2. t[j] = s[j] /\ t[i] = added[k]
        BY <1>6, <2>3, <3>1
      <3> QED BY <1>1, <2>3, <3>2
    <2>4. CASE i \notin 1 .. n /\ j \notin 1 .. n
      <3>1. PICK k \in 1 .. m : i = n + k
        BY <1>8, <2>4
      <3>2. PICK l \in 1 .. m : j = n + l
        BY <1>8, <2>4
      <3>3. t[i] = added[k] /\ t[j] = added[l]
        BY <1>6, <3>1, <3>2
      <3>4. k = l
        BY <1>4, <3>3
      <3> QED BY <3>1, <3>2, <3>4
    <2> QED BY <2>1, <2>2, <2>3, <2>4
  <1>15. \A k \in DOMAIN b : (\E i \in 1 .. n : b[k] = s[i]) \/ WorkflowGood(A, b[k])
    BY <1>9, <1>11
  <1>16. ASSUME \A i, j \in 1 .. n : s[i].id = s[j].id => i = j
         PROVE  \A k, l \in DOMAIN b : b[k].id = b[l].id => k = l
    BY <1>11, <1>14, <1>16
  <1> QED BY <1>12, <1>13, <1>15, <1>16

\* A configuration whose agents and workflows grew as a template's do.
LEMMA GrownValid ==
  ASSUME NEW c, ConfigShape(c), validate_setup_invariants(c), NEW n \in Nat, DOMAIN c.workflows = 1 .. n,
         NEW A, NEW d, A \subseteq AgentIds(d), AgentIds(c) \subseteq AgentIds(d), d.selector = c.selector,
         d.agents[c.selector], d.default \in WorkflowIds(d),
         \A k \in DOMAIN d.workflows :
             (\E i \in 1 .. n : d.workflows[k] = c.workflows[i]) \/ WorkflowGood(A, d.workflows[k]),
         \A k, l \in DOMAIN d.workflows : d.workflows[k].id = d.workflows[l].id => k = l
  PROVE  validate_setup_invariants(d)
  <1>1. \A i \in 1 .. n : WorkflowValid(c, c.workflows[i])
    BY DEF validate_setup_invariants
  <1>2. \A x : WorkflowValid(c, x) => WorkflowValid(d, x)
    BY DEF WorkflowValid, StepValid
  <1>3. ASSUME NEW k \in DOMAIN d.workflows PROVE WorkflowValid(d, d.workflows[k])
    <2>1. PICK x : x = d.workflows[k]
      OBVIOUS
    <2>2. CASE \E i \in 1 .. n : x = c.workflows[i]
      BY <1>1, <1>2, <2>1, <2>2
    <2>3. CASE WorkflowGood(A, x)
      BY <2>1, <2>3, GoodIsValid
    <2> QED BY <2>1, <2>2, <2>3
  <1>4. IsInjective([k \in DOMAIN d.workflows |-> d.workflows[k].id])
    BY DEF IsInjective
  <1>5. d.selector \in AgentIds(d) /\ d.agents[d.selector]
    BY DEF validate_setup_invariants
  <1> QED BY <1>3, <1>4, <1>5 DEF validate_setup_invariants

LEMMA ApplyFact ==
  ASSUME NEW c, ConfigShape(c), NEW t \in Three, NEW r, r = apply_workflow_template_to_orchestrator(c, t)
  PROVE  Edited(c, r) /\ (validate_setup_invariants(c) => r.ok)
  <1>1. PICK n \in Nat : DOMAIN c.workflows = 1 .. n
    BY DEF ConfigShape, WorkflowsShape, Listed
  <1>2. PICK used : used = [i \in 1 .. n |-> c.workflows[i].id]
    OBVIOUS
  <1>3. PICK A, fresh : A = {"default"} \cup template_agents(t) /\ fresh = template_workflows(t)
    OBVIOUS
  <1>4. WorkflowsGood(A, fresh)
    BY <1>3, TemplateGood
  <1>5. PICK added :
          added = [i \in DOMAIN fresh |-> [fresh[i] EXCEPT !.id = unique_workflow_id(used, @)]]
    OBVIOUS
  <1>6. used = [i \in 1 .. n |-> used[i]]
    BY <1>2
  <1>7. /\ WorkflowsGood(A, added)
        /\ \A i \in DOMAIN added, j \in 1 .. n : c.workflows[j].id # added[i].id
    <2>1. /\ WorkflowsGood(A, added)
          /\ \A i \in DOMAIN added, j \in 1 .. n : used[j] # added[i].id
      BY <1>4, <1>5, <1>6, AddedFact
    <2> QED BY <1>2, <2>1
  <1>8. PICK f : f = c.workflows
    OBVIOUS
  <1>9. PICK b : b = ById(f \o added)
    OBVIOUS
  <1>10. /\ WorkflowsShape(b)
         /\ \A k \in DOMAIN b : (\E i \in 1 .. n : b[k] = f[i]) \/ WorkflowGood(A, b[k])
         /\ \E k \in DOMAIN b : b[k] = added[1]
         /\ (\A i, j \in 1 .. n : f[i].id = f[j].id => i = j)
              => \A k, l \in DOMAIN b : b[k].id = b[l].id => k = l
    <2>1. DOMAIN f = 1 .. n /\ WorkflowsShape(f)
      BY <1>1, <1>8 DEF ConfigShape
    <2>2. \A i \in DOMAIN added, j \in 1 .. n : f[j].id # added[i].id
      BY <1>7, <1>8
    <2> QED BY <1>7, <1>9, <2>1, <2>2, MergedFact
  <1>11. PICK g : g = [a \in A \cup AgentIds(c) |-> IF a \in AgentIds(c) THEN c.agents[a]
                                                                        ELSE a = "default"]
    OBVIOUS
  <1>12. PICK c1 : c1 = [c EXCEPT !.agents = g]
    OBVIOUS
  <1>13. PICK c2 : c2 = [c1 EXCEPT !.workflows = b]
    OBVIOUS
  <1>14. PICK d : d = [c2 EXCEPT !.default = added[1].id]
    OBVIOUS
  <1>15. /\ ConfigShape(c1) /\ c1.id = c.id /\ c1.selector = c.selector /\ c1.agents = g
         /\ c1.workflows = f
    BY <1>8, <1>12, SetAgents
  <1>16. ConfigShape(c2) /\ c2.id = c.id /\ c2.selector = c.selector /\ c2.agents = g /\ c2.workflows = b
    BY <1>10, <1>13, <1>15, SetWorkflows
  <1>17. /\ ConfigShape(d) /\ d.id = c.id /\ d.selector = c.selector /\ d.agents = g
         /\ d.workflows = b /\ d.default = added[1].id
    BY <1>14, <1>16, SetDefault
  <1>18. r = Validated(d)
    <2>1. d = [c EXCEPT !.agents = g, !.workflows = b, !.default = added[1].id]
      BY <1>12, <1>13, <1>14
    <2>2. [i \in DOMAIN c.workflows |-> c.workflows[i].id] = used
      BY <1>1, <1>2
    <2>3. g = [a \in {"default"} \cup template_agents(t) \cup AgentIds(c) |->
                  IF a \in AgentIds(c) THEN c.agents[a] ELSE a = "default"]
      BY <1>3, <1>11
    <2> QED BY <1>3, <1>5, <1>8, <1>9, <2>1, <2>2, <2>3, Zenon
            DEF apply_workflow_template_to_orchestrator
  <1>19. Edited(c, r)
    BY <1>17, <1>18, ValidatedEdit
  <1>20. ASSUME validate_setup_invariants(c) PROVE validate_setup_invariants(d)
    <2>1. AgentIds(d) = A \cup AgentIds(c)
      BY <1>11, <1>17 DEF AgentIds
    <2>2. c.selector \in AgentIds(c) /\ c.agents[c.selector]
      BY <1>20 DEF validate_setup_invariants
    <2>3. d.agents[c.selector]
      BY <1>11, <1>17, <2>2
    <2>4. d.default \in WorkflowIds(d)
      BY <1>10, <1>17 DEF WorkflowIds
    <2>5. \A i, j \in 1 .. n : f[i].id = f[j].id => i = j
      BY <1>1, <1>8, <1>20 DEF validate_setup_invariants, IsInjective
    <2>6. \A k \in DOMAIN d.workflows :
             (\E i \in 1 .. n : d.workflows[k] = c.workflows[i]) \/ WorkflowGood(A, d.workflows[k])
      BY <1>8, <1>10, <1>17
    <2>7. \A k, l \in DOMAIN d.workflows : d.workflows[k].id = d.workflows[l].id => k = l
      BY <1>10, <1>17, <2>5
    <2>8. A \subseteq AgentIds(d) /\ AgentIds(c) \subseteq AgentIds(d) /\ d.selector = c.selector
      BY <1>17, <2>1
    <2> QED BY <1>1, <1>20, <2>3, <2>4, <2>6, <2>7, <2>8, GrownValid
  <1>21. r.ok = validate_setup_invariants(d)
    BY <1>18, Results
  <1> QED BY <1>19, <1>20, <1>21

-----------------------------------------------------------------------------
(***************************************************************************)
(* Why a draft is lost.  Configurations have their shape wherever they are *)
(* held; a screen shows an orchestrator of the draft; until one of the     *)
(* edits that may spoil it the whole draft is valid and the workflow shown *)
(* exists; its primary, template, base and shared keys are as the settings *)
(* want them unless they were edited; and until a command runs beside the  *)
(* session the settings it was read from are still there.                  *)
(***************************************************************************)
Inner == {"detail", "workflows", "workflow", "steps", "step", "agents", "agent"}

FilesShaped == \A p \in Paths : Whole(p) => ConfigShape(yaml[p])

DraftShaped == view.at # "off" => \A o \in DOMAIN draft.orchs : ConfigShape(draft.cfgs[o])

CommandShaped == cmd # Nothing => cmd.c = NoFile \/ ConfigShape(cmd.c)

\* A screen below the list of orchestrators is about one that the draft has.
LocatedAt(v, d) ==
    /\ {"at", "o", "w"} \subseteq DOMAIN v
    /\ v.at \in Inner => v.o \in DOMAIN d.orchs

\* The draft is valid and the workflow a screen shows is in it.
SoundAt(v, d) ==
    v.at \in Editing =>
        /\ validate_setup_bootstrap(d)
        /\ v.at \in {"workflow", "steps", "step"} => v.w \in WorkflowIds(d.cfgs[v.o])

\* Nothing happened so far that may spoil a configuration.
Quiet == why \cap {"type", "outputs", "refused", "files"} = {}

Sound == Quiet => SoundAt(view, draft)

\* What the final save checks beyond the configurations holds, or an edit of that field
\* is on record.
Rooted ==
    view.at \in Editing =>
        /\ draft.primary \in DOMAIN draft.orchs \/ DOMAIN draft.orchs = {}
        /\ draft.template \in Three
        /\ "base" \in why \/ draft.base = "abs"
        /\ "access" \in why \/ \A o \in DOMAIN draft.orchs : draft.orchs[o].shared \subseteq SharedKeys

\* Without a command beside it, the session finds the settings it loaded, and what they
\* name is in the draft unless it was removed there.
Undisturbed ==
    view.at \in Editing /\ "command" \notin why =>
        /\ cmd = Nothing
        /\ draft.existed => load_settings(settings)
        /\ draft.existed => "removed" \in why \/ DOMAIN settings.orchs \subseteq DOMAIN draft.orchs

LostInv ==
    /\ FilesShaped /\ DraftShaped /\ CommandShaped /\ LocatedAt(view, draft)
    /\ Sound /\ Rooted /\ Undisturbed /\ DraftLostHasCause

LEMMA OffFields == Off.at = "off" /\ {"at", "o", "w"} \subseteq DOMAIN Off
  BY DEF Off

\* The session is over.
LEMMA LostOff ==
  ASSUME view' = Off, FilesShaped', CommandShaped', DraftLostHasCause'
  PROVE  LostInv'
  <1>1. view'.at = "off" /\ {"at", "o", "w"} \subseteq DOMAIN view'
    BY OffFields
  <1>2. LocatedAt(view', draft')
    BY <1>1 DEF LocatedAt, Inner
  <1>3. SoundAt(view', draft')
    BY <1>1 DEF SoundAt, Editing
  <1>4. Rooted' /\ Undisturbed' /\ DraftShaped'
    BY <1>1 DEF Rooted, Undisturbed, DraftShaped, Editing
  <1> QED BY <1>2, <1>3, <1>4 DEF LostInv, Sound

LEMMA LostInit == Init => LostInv
  <1> SUFFICES ASSUME Init PROVE LostInv
    OBVIOUS
  <1>1. PICK start \in Starts :
          yaml = [p \in Paths |-> IF p[2] \in start.configured
                               THEN initial_orchestrator_config(p[2], "minimal") ELSE NoFile]
    BY DEF Init
  <1>2. view = Off /\ cmd = Nothing /\ outcome = "none"
    BY DEF Init
  <1>3. ASSUME NEW p \in Paths, Whole(p) PROVE ConfigShape(yaml[p])
    <2>1. PICK o, c : o = p[2] /\ c = yaml[p]
      OBVIOUS
    <2>2. c = initial_orchestrator_config(o, "minimal")
      BY <1>1, <1>3, <2>1 DEF Whole
    <2> QED BY <2>1, <2>2, InitialFact DEF Three
  <1>4. view.at = "off" /\ {"at", "o", "w"} \subseteq DOMAIN view
    BY <1>2, OffFields
  <1>5. LocatedAt(view, draft) /\ SoundAt(view, draft)
    BY <1>4 DEF LocatedAt, SoundAt, Editing, Inner
  <1>6. Rooted /\ Undisturbed /\ DraftShaped /\ CommandShaped
    BY <1>2, <1>4 DEF Rooted, Undisturbed, DraftShaped, CommandShaped, Editing
  <1> QED BY <1>2, <1>3, <1>5, <1>6 DEF LostInv, FilesShaped, Sound, DraftLostHasCause

\* A draft d that goes back to the one shown, what was marked aside.
Based(d, marks) ==
    /\ \A o \in DOMAIN d.orchs : ConfigShape(d.cfgs[o])
    /\ d.primary \in DOMAIN d.orchs \/ DOMAIN d.orchs = {}
    /\ d.template \in Three
    /\ d.existed = draft.existed
    /\ "removed" \in marks \/ DOMAIN draft.orchs \subseteq DOMAIN d.orchs
    /\ "base" \in marks \/ d.base = draft.base
    /\ "access" \in marks
       \/ \A o \in DOMAIN d.orchs :
             \/ d.orchs[o].shared = {}
             \/ o \in DOMAIN draft.orchs /\ d.orchs[o].shared = draft.orchs[o].shared

LEMMA LostStep ==
  ASSUME LostInv, view.at \in Editing, view'.at \in Editing, NEW marks, Based(draft', marks),
         why' = why \cup marks, UNCHANGED <<files, cmd, outcome>>, LocatedAt(view', draft'),
         Quiet' => SoundAt(view', draft')
  PROVE  LostInv'
  <1>1. FilesShaped' /\ CommandShaped'
    BY DEF LostInv, FilesShaped, CommandShaped, Whole, files
  <1>2. DraftShaped'
    BY DEF DraftShaped, Based
  <1>3. Rooted'
    <2>1. "base" \in why' \/ draft'.base = "abs"
      BY DEF LostInv, Rooted, Based
    <2>2. "access" \in why' \/ \A o \in DOMAIN draft'.orchs : draft'.orchs[o].shared \subseteq SharedKeys
      BY DEF LostInv, Rooted, Based
    <2> QED BY <2>1, <2>2 DEF Rooted, Based
  <1>4. Undisturbed'
    <2>1. SUFFICES ASSUME "command" \notin why'
                   PROVE  /\ cmd' = Nothing
                          /\ draft'.existed => load_settings(settings')
                          /\ draft'.existed =>
                                "removed" \in why' \/ DOMAIN settings'.orchs \subseteq DOMAIN draft'.orchs
      BY DEF Undisturbed
    <2>2. /\ cmd = Nothing
          /\ draft.existed => load_settings(settings)
          /\ draft.existed => "removed" \in why \/ DOMAIN settings.orchs \subseteq DOMAIN draft.orchs
      BY <2>1 DEF LostInv, Undisturbed
    <2>3. settings' = settings /\ cmd' = cmd /\ draft'.existed = draft.existed
      BY DEF files, Based
    <2>4. "removed" \in marks \/ DOMAIN draft.orchs \subseteq DOMAIN draft'.orchs
      BY DEF Based
    <2> QED BY <2>2, <2>3, <2>4
  <1>5. DraftLostHasCause'
    BY DEF LostInv, DraftLostHasCause
  <1> QED BY <1>1, <1>2, <1>3, <1>4, <1>5 DEF LostInv, Sound

LEMMA BasedSame == ASSUME LostInv, view.at \in Editing PROVE Based(draft, {})
  <1>1. view.at # "off"
    BY DEF Editing
  <1> QED BY <1>1 DEF LostInv, DraftShaped, Rooted, Based

\* A move from one screen to another.
LEMMA LostGo ==
  ASSUME LostInv, NEW to, Go(to), view.at \in Editing, to.at \in Editing, LocatedAt(to, draft),
         Quiet => SoundAt(to, draft)
  PROVE  LostInv'
  <1>1. /\ view' = to /\ draft' = draft /\ why' = why \cup {} /\ why' = why
        /\ UNCHANGED <<files, cmd, outcome>>
    BY DEF Go
  <1>2. Based(draft', {})
    BY <1>1, BasedSame
  <1>3. Quiet' => SoundAt(view', draft')
    BY <1>1 DEF Quiet
  <1> QED BY <1>1, <1>2, <1>3, LostStep

-----------------------------------------------------------------------------
(* Moves between screens                                                   *)

Fields(v) == {"at", "o", "w"} \subseteq DOMAIN v

AtWorkflow == {"workflow", "steps", "step"}

LEMMA LostMove ==
  ASSUME LostInv, NEW to, Go(to), view.at \in Editing, to.at \in Editing, Fields(to),
         to.at \in Inner => to.o \in DOMAIN draft.orchs,
         to.at \in AtWorkflow =>
             \/ to.w \in WorkflowIds(draft.cfgs[to.o])
             \/ view.at \in AtWorkflow /\ to.w = view.w /\ to.o = view.o
  PROVE  LostInv'
  <1>1. LocatedAt(to, draft)
    BY DEF LocatedAt, Fields
  <1>2. Quiet => SoundAt(to, draft)
    BY DEF LostInv, Sound, SoundAt, AtWorkflow
  <1> QED BY <1>1, <1>2, LostGo

\* An error ends the setup.
LEMMA LostAbort == ASSUME LostInv, Abort, ~Quiet PROVE LostInv'
  <1>1. view' = Off /\ outcome' = "aborted" /\ UNCHANGED <<files, cmd, why>>
    BY DEF Abort, End
  <1>2. FilesShaped' /\ CommandShaped'
    BY <1>1 DEF LostInv, FilesShaped, CommandShaped, Whole, files
  <1>3. DraftLostHasCause'
    BY <1>1 DEF DraftLostHasCause, Quiet
  <1> QED BY <1>1, <1>2, <1>3, LostOff

LEMMA LostCancel == ASSUME LostInv, CancelSetup PROVE LostInv'
  <1>1. view' = Off /\ outcome' = "canceled" /\ UNCHANGED <<files, cmd, why>>
    BY DEF CancelSetup, End
  <1>2. FilesShaped' /\ CommandShaped'
    BY <1>1 DEF LostInv, FilesShaped, CommandShaped, Whole, files
  <1>3. DraftLostHasCause'
    BY <1>1 DEF DraftLostHasCause
  <1> QED BY <1>1, <1>2, <1>3, LostOff

LEMMA LostOpens ==
  ASSUME LostInv,
         OpenOrchestrator \/ OpenWorkflows \/ OpenAgents \/ OpenWorkflow \/ OpenStep \/ OpenAgent
         \/ SaveSetup
  PROVE  LostInv'
  <1>1. Fields(view) /\ (view.at \in Inner => view.o \in DOMAIN draft.orchs)
    BY DEF LostInv, LocatedAt, Fields
  <1>2. CASE OpenOrchestrator
    <2>1. PICK o \in DOMAIN draft.orchs :
            view.at = "manager" /\ Go([view EXCEPT !.at = "detail", !.o = o])
      BY <1>2 DEF OpenOrchestrator
    <2>2. PICK to : to = [view EXCEPT !.at = "detail", !.o = o]
      OBVIOUS
    <2>3. Fields(to) /\ to.at = "detail" /\ to.o = o
      BY <1>1, <2>2 DEF Fields
    <2>4. Go(to)
      BY <2>1, <2>2
    <2> QED BY <2>1, <2>3, <2>4, LostMove DEF Editing, AtWorkflow
  <1>3. CASE OpenWorkflows \/ OpenAgents
    <2>1. PICK x \in {"workflows", "agents"} : view.at = "detail" /\ Go([view EXCEPT !.at = x])
      BY <1>3 DEF OpenWorkflows, OpenAgents
    <2>2. PICK to : to = [view EXCEPT !.at = x]
      OBVIOUS
    <2>3. Fields(to) /\ to.at = x /\ to.o = view.o
      BY <1>1, <2>2 DEF Fields
    <2>4. Go(to)
      BY <2>1, <2>2
    <2> QED BY <1>1, <2>1, <2>3, <2>4, LostMove DEF Editing, AtWorkflow, Inner
  <1>4. CASE OpenWorkflow
    <2>1. PICK w \in WorkflowIds(Cfg) :
            view.at = "workflows" /\ Go([view EXCEPT !.at = "workflow", !.w = w])
      BY <1>4 DEF OpenWorkflow
    <2>2. PICK to : to = [view EXCEPT !.at = "workflow", !.w = w]
      OBVIOUS
    <2>3. Fields(to) /\ to.at = "workflow" /\ to.o = view.o /\ to.w = w
      BY <1>1, <2>2 DEF Fields
    <2>4. Go(to)
      BY <2>1, <2>2
    <2>5. to.w \in WorkflowIds(draft.cfgs[to.o])
      BY <2>3 DEF Cfg
    <2> QED BY <1>1, <2>1, <2>3, <2>4, <2>5, LostMove DEF Editing, AtWorkflow, Inner
  <1>5. CASE OpenStep
    <2>1. PICK s : view.at = "steps" /\ Go([view EXCEPT !.at = "step", !.s = s])
      BY <1>5 DEF OpenStep
    <2>2. PICK to : to = [view EXCEPT !.at = "step", !.s = s]
      OBVIOUS
    <2>3. Fields(to) /\ to.at = "step" /\ to.o = view.o /\ to.w = view.w
      BY <1>1, <2>2 DEF Fields
    <2>4. Go(to)
      BY <2>1, <2>2
    <2> QED BY <1>1, <2>1, <2>3, <2>4, LostMove DEF Editing, AtWorkflow, Inner
  <1>6. CASE OpenAgent
    <2>1. PICK a : view.at = "agents" /\ Go([view EXCEPT !.at = "agent", !.a = a])
      BY <1>6 DEF OpenAgent
    <2>2. PICK to : to = [view EXCEPT !.at = "agent", !.a = a]
      OBVIOUS
    <2>3. Fields(to) /\ to.at = "agent" /\ to.o = view.o
      BY <1>1, <2>2 DEF Fields
    <2>4. Go(to)
      BY <2>1, <2>2
    <2> QED BY <1>1, <2>1, <2>3, <2>4, LostMove DEF Editing, AtWorkflow, Inner
  <1>7. CASE SaveSetup
    <2>1. view.at = "root" /\ Go([view EXCEPT !.at = "persist"])
      BY <1>7 DEF SaveSetup
    <2>2. PICK to : to = [view EXCEPT !.at = "persist"]
      OBVIOUS
    <2>3. Fields(to) /\ to.at = "persist"
      BY <1>1, <2>2 DEF Fields
    <2>4. Go(to)
      BY <2>1, <2>2
    <2> QED BY <2>1, <2>3, <2>4, LostMove DEF Editing, AtWorkflow, Inner
  <1> QED BY <1>2, <1>3, <1>4, <1>5, <1>6, <1>7

LEMMA LostOpenSteps == ASSUME LostInv, OpenSteps PROVE LostInv'
  <1>1. Fields(view) /\ view.at = "workflow" /\ view.o \in DOMAIN draft.orchs
    BY DEF LostInv, LocatedAt, Fields, OpenSteps, Inner
  <1>2. CASE view.w \in WorkflowIds(Cfg)
    <2>1. PICK to : to = [view EXCEPT !.at = "steps"]
      OBVIOUS
    <2>2. Fields(to) /\ to.at = "steps" /\ to.o = view.o /\ to.w = view.w
      BY <1>1, <2>1 DEF Fields
    <2>3. Go(to)
      BY <1>2, <2>1 DEF OpenSteps
    <2> QED BY <1>1, <2>2, <2>3, LostMove DEF Editing, AtWorkflow, Inner
  <1>3. CASE view.w \notin WorkflowIds(Cfg)
    <2>1. ~Quiet
      BY <1>1, <1>3 DEF LostInv, Sound, SoundAt, Editing, Cfg
    <2>2. Abort
      BY <1>3 DEF OpenSteps
    <2> QED BY <2>1, <2>2, LostAbort
  <1> QED BY <1>2, <1>3

LEMMA LostBack == ASSUME LostInv, Shaped, Back PROVE LostInv'
  <1>1. Fields(view) /\ (view.at \in Inner => view.o \in DOMAIN draft.orchs)
    BY DEF LostInv, LocatedAt, Fields
  <1>2. /\ Go(Parent)
        /\ view.at \in {"manager", "detail", "workflows", "workflow", "steps", "step",
                        "agents", "agent"}
    BY DEF Back, Shaped, ViewOK, Editing
  <1>3. PICK to : to = Parent
    OBVIOUS
  <1>4. Fields(Off)
    BY DEF Fields, Off
  <1>5. /\ Fields(to) /\ to.at \in Editing
        /\ to.at \in Inner => view.at \in Inner /\ to.o = view.o
        /\ to.at \in AtWorkflow => view.at \in AtWorkflow /\ to.w = view.w /\ to.o = view.o
    <2>1. CASE view.at = "manager"
      <3>1. to = [Off EXCEPT !.at = "root"]
        BY <1>3, <2>1, Zenon DEF Parent, Root
      <3>2. Fields(to) /\ to.at = "root"
        BY <1>4, <3>1 DEF Fields
      <3> QED BY <3>2 DEF Editing, Inner, AtWorkflow
    <2>2. CASE view.at = "detail"
      <3>1. to = [Off EXCEPT !.at = "manager"]
        BY <1>3, <2>2, Zenon DEF Parent
      <3>2. Fields(to) /\ to.at = "manager"
        BY <1>4, <3>1 DEF Fields
      <3> QED BY <3>2 DEF Editing, Inner, AtWorkflow
    <2>3. CASE view.at \in {"workflows", "agents"}
      <3>1. to = [view EXCEPT !.at = "detail"]
        BY <1>3, <2>3, Zenon DEF Parent
      <3>2. Fields(to) /\ to.at = "detail" /\ to.o = view.o
        BY <1>1, <3>1 DEF Fields
      <3> QED BY <2>3, <3>2 DEF Editing, Inner, AtWorkflow
    <2>4. CASE view.at = "workflow"
      <3>1. to = [view EXCEPT !.at = "workflows", !.w = NoWorkflow]
        BY <1>3, <2>4, Zenon DEF Parent
      <3>2. Fields(to) /\ to.at = "workflows" /\ to.o = view.o
        BY <1>1, <3>1 DEF Fields
      <3> QED BY <2>4, <3>2 DEF Editing, Inner, AtWorkflow
    <2>5. CASE view.at = "steps"
      <3>1. to = [view EXCEPT !.at = "workflow"]
        BY <1>3, <2>5, Zenon DEF Parent
      <3>2. Fields(to) /\ to.at = "workflow" /\ to.o = view.o /\ to.w = view.w
        BY <1>1, <3>1 DEF Fields
      <3> QED BY <2>5, <3>2 DEF Editing, Inner, AtWorkflow
    <2>6. CASE view.at = "step"
      <3>1. to = [view EXCEPT !.at = "steps", !.s = None]
        BY <1>3, <2>6, Zenon DEF Parent
      <3>2. Fields(to) /\ to.at = "steps" /\ to.o = view.o /\ to.w = view.w
        BY <1>1, <3>1 DEF Fields
      <3> QED BY <2>6, <3>2 DEF Editing, Inner, AtWorkflow
    <2>7. CASE view.at = "agent"
      <3>1. to = [view EXCEPT !.at = "agents", !.a = None]
        BY <1>3, <2>7, Zenon DEF Parent
      <3>2. Fields(to) /\ to.at = "agents" /\ to.o = view.o
        BY <1>1, <3>1 DEF Fields
      <3> QED BY <2>7, <3>2 DEF Editing, Inner, AtWorkflow
    <2> QED BY <1>2, <2>1, <2>2, <2>3, <2>4, <2>5, <2>6, <2>7
  <1>6. view.at \in Editing
    BY <1>2 DEF Editing
  <1>7. Go(to)
    BY <1>2, <1>3
  <1> QED BY <1>1, <1>5, <1>6, <1>7, LostMove

-----------------------------------------------------------------------------
(* Edits of the draft                                                      *)

LEMMA LostEdit ==
  ASSUME LostInv, NEW d, NEW marks, EditDraft(d, marks), view.at \in Editing, Stay, Based(d, marks),
         view.at \in Inner => view.o \in DOMAIN d.orchs /\ d.cfgs[view.o] = draft.cfgs[view.o],
         validate_setup_bootstrap(draft) => validate_setup_bootstrap(d)
  PROVE  LostInv'
  <1>1. draft' = d /\ why' = why \cup marks /\ view' = view /\ UNCHANGED <<files, cmd, outcome>>
    BY DEF EditDraft, Stay
  <1>2. LocatedAt(view', draft')
    BY <1>1 DEF LostInv, LocatedAt
  <1>3. ASSUME Quiet' PROVE SoundAt(view', draft')
    <2>1. Quiet
      BY <1>1, <1>3 DEF Quiet
    <2>2. SoundAt(view, draft)
      BY <2>1 DEF LostInv, Sound
    <2>3. view.at \in {"workflow", "steps", "step"} => view.w \in WorkflowIds(d.cfgs[view.o])
      BY <2>2 DEF SoundAt, Inner
    <2>4. validate_setup_bootstrap(d)
      BY <2>2 DEF SoundAt
    <2>5. SoundAt(view, d)
      BY <2>3, <2>4 DEF SoundAt
    <2> QED BY <1>1, <2>5
  <1>4. Based(draft', marks)
    BY <1>1
  <1> QED BY <1>1, <1>2, <1>3, <1>4, LostStep

DraftFields(d) == {"base", "primary", "template", "existed", "orchs", "cfgs"} \subseteq DOMAIN d

LEMMA FieldsOfDraft == ASSUME NEW d, DraftOK(d) PROVE DraftFields(d)
  BY DEF DraftOK, DraftFields

LEMMA Known ==
  ASSUME LostInv, Shaped, view.at \in Editing
  PROVE  /\ DraftOK(draft) /\ DraftFields(draft) /\ EntriesOK(draft.orchs)
         /\ DOMAIN draft.cfgs = DOMAIN draft.orchs /\ DOMAIN draft.orchs \subseteq Orchs
         /\ \A o \in DOMAIN draft.orchs : ConfigShape(draft.cfgs[o])
         /\ draft.primary \in DOMAIN draft.orchs \/ DOMAIN draft.orchs = {}
         /\ draft.template \in Three
  <1>1. view.at # "off"
    BY DEF Editing
  <1>2. DraftOK(draft)
    BY <1>1 DEF Shaped
  <1>3. DraftFields(draft)
    BY <1>2, FieldsOfDraft
  <1>4. EntriesOK(draft.orchs) /\ DOMAIN draft.cfgs = DOMAIN draft.orchs
    BY <1>2, DraftDomain DEF DraftOK
  <1> QED BY <1>1, <1>2, <1>3, <1>4 DEF LostInv, DraftShaped, Rooted, EntriesOK

\* Edits that leave the orchestrators of the draft alone.
LEMMA LostField ==
  ASSUME LostInv, Shaped, NEW d, NEW marks, EditDraft(d, marks), view.at \in Editing, Stay,
         d.orchs = draft.orchs, d.cfgs = draft.cfgs, d.existed = draft.existed,
         d.primary \in DOMAIN draft.orchs \/ d.primary = draft.primary,
         d.template \in Three, "base" \in marks \/ d.base = draft.base
  PROVE  LostInv'
  <1>1. Based(d, marks)
    BY Known DEF Based
  <1>2. validate_setup_bootstrap(draft) => validate_setup_bootstrap(d)
    BY DEF validate_setup_bootstrap
  <1>3. view.at \in Inner => view.o \in DOMAIN d.orchs /\ d.cfgs[view.o] = draft.cfgs[view.o]
    BY DEF LostInv, LocatedAt
  <1> QED BY <1>1, <1>2, <1>3, LostEdit

LEMMA LostFieldEdits ==
  ASSUME LostInv, Shaped,
         EditWorkspacePath \/ set_default_workflow_template \/ set_primary_orchestrator
  PROVE  LostInv'
  <1>1. CASE EditWorkspacePath
    <2>1. PICK b : view.at = "root" /\ EditDraft([draft EXCEPT !.base = b], {"base"}) /\ Stay
      BY <1>1 DEF EditWorkspacePath
    <2>2. view.at \in Editing
      BY <2>1 DEF Editing
    <2>3. PICK d : d = [draft EXCEPT !.base = b]
      OBVIOUS
    <2>4. DraftFields(draft) /\ draft.template \in Three
      BY <2>2, Known
    <2>5. /\ d.orchs = draft.orchs /\ d.cfgs = draft.cfgs /\ d.existed = draft.existed
          /\ d.primary = draft.primary /\ d.template = draft.template
      BY <2>3, <2>4 DEF DraftFields
    <2>6. EditDraft(d, {"base"})
      BY <2>1, <2>3
    <2> QED BY <2>1, <2>2, <2>4, <2>5, <2>6, LostField
  <1>2. CASE set_default_workflow_template
    <2>1. PICK t \in Templates : view.at = "manager" /\ EditDraft([draft EXCEPT !.template = t], {}) /\ Stay
      BY <1>2 DEF set_default_workflow_template
    <2>2. view.at \in Editing
      BY <2>1 DEF Editing
    <2>3. PICK d : d = [draft EXCEPT !.template = t]
      OBVIOUS
    <2>4. DraftFields(draft) /\ t \in Three
      BY <2>2, Known, ConstantsOK DEF Three
    <2>5. /\ d.orchs = draft.orchs /\ d.cfgs = draft.cfgs /\ d.existed = draft.existed
          /\ d.primary = draft.primary /\ d.template = t /\ d.base = draft.base
      BY <2>3, <2>4 DEF DraftFields
    <2>6. EditDraft(d, {})
      BY <2>1, <2>3
    <2> QED BY <2>1, <2>2, <2>4, <2>5, <2>6, LostField
  <1>3. CASE set_primary_orchestrator
    <2>1. PICK o \in DOMAIN draft.orchs :
            view.at \in {"manager", "detail"} /\ EditDraft([draft EXCEPT !.primary = o], {}) /\ Stay
      BY <1>3 DEF set_primary_orchestrator
    <2>2. view.at \in Editing
      BY <2>1 DEF Editing
    <2>3. PICK d : d = [draft EXCEPT !.primary = o]
      OBVIOUS
    <2>4. DraftFields(draft) /\ draft.template \in Three
      BY <2>2, Known
    <2>5. /\ d.orchs = draft.orchs /\ d.cfgs = draft.cfgs /\ d.existed = draft.existed
          /\ d.primary = o /\ d.template = draft.template /\ d.base = draft.base
      BY <2>3, <2>4 DEF DraftFields
    <2>6. EditDraft(d, {})
      BY <2>1, <2>3
    <2> QED BY <2>1, <2>2, <2>4, <2>5, <2>6, LostField
  <1> QED BY <1>1, <1>2, <1>3

\* Edits of one orchestrator's entry in the settings.
LEMMA LostEntry ==
  ASSUME LostInv, Shaped, NEW d, NEW marks, EditDraft(d, marks), view.at = "detail", Stay,
         NEW f, d = [draft EXCEPT !.orchs = f], DOMAIN f = DOMAIN draft.orchs,
         "access" \in marks \/ \A o \in DOMAIN f : f[o].shared = draft.orchs[o].shared
  PROVE  LostInv'
  <1>1. view.at \in Editing
    BY DEF Editing
  <1>2. DraftFields(draft)
    BY <1>1, Known
  <1>3. /\ d.orchs = f /\ d.cfgs = draft.cfgs /\ d.existed = draft.existed /\ d.base = draft.base
        /\ d.primary = draft.primary /\ d.template = draft.template
    BY <1>2 DEF DraftFields
  <1>4. Based(d, marks)
    <2>1. (\A o \in DOMAIN d.orchs : ConfigShape(d.cfgs[o])) /\ d.template \in Three
          /\ (d.primary \in DOMAIN d.orchs \/ DOMAIN d.orchs = {})
      BY <1>1, <1>3, Known
    <2> QED BY <1>3, <2>1 DEF Based
  <1>5. validate_setup_bootstrap(draft) => validate_setup_bootstrap(d)
    BY <1>3 DEF validate_setup_bootstrap
  <1>6. view.at \in Inner => view.o \in DOMAIN d.orchs /\ d.cfgs[view.o] = draft.cfgs[view.o]
    BY <1>3 DEF LostInv, LocatedAt
  <1> QED BY <1>1, <1>4, <1>5, <1>6, LostEdit

LEMMA LostEntryEdits ==
  ASSUME LostInv, Shaped, set_orchestrator_private_workspace \/ set_orchestrator_shared_access
  PROVE  LostInv'
  <1>1. CASE set_orchestrator_private_workspace
    <2>1. PICK ws \in Workspaces :
            view.at = "detail" /\ EditDraft([draft EXCEPT !.orchs[view.o].ws = ws], {}) /\ Stay
      BY <1>1 DEF set_orchestrator_private_workspace
    <2>2. PICK e : e = [draft.orchs[view.o] EXCEPT !.ws = ws]
      OBVIOUS
    <2>3. PICK f : f = [draft.orchs EXCEPT ![view.o] = e]
      OBVIOUS
    <2>4. PICK d : d = [draft EXCEPT !.orchs = f]
      OBVIOUS
    <2>5. EditDraft(d, {})
      BY <2>1, <2>2, <2>3, <2>4
    <2>6. EntriesOK(draft.orchs) /\ view.o \in DOMAIN draft.orchs
      BY <2>1, Known DEF LostInv, LocatedAt, Inner, Editing
    <2>7. e.shared = draft.orchs[view.o].shared
      BY <2>2, <2>6, EntryFields DEF Entry
    <2>8. DOMAIN f = DOMAIN draft.orchs /\ \A o \in DOMAIN f : f[o].shared = draft.orchs[o].shared
      BY <2>3, <2>7
    <2> QED BY <2>1, <2>4, <2>5, <2>8, LostEntry
  <1>2. CASE set_orchestrator_shared_access
    <2>1. PICK keys :
            view.at = "detail" /\ EditDraft([draft EXCEPT !.orchs[view.o].shared = keys], {"access"}) /\ Stay
      BY <1>2 DEF set_orchestrator_shared_access
    <2>2. PICK e : e = [draft.orchs[view.o] EXCEPT !.shared = keys]
      OBVIOUS
    <2>3. PICK f : f = [draft.orchs EXCEPT ![view.o] = e]
      OBVIOUS
    <2>4. PICK d : d = [draft EXCEPT !.orchs = f]
      OBVIOUS
    <2>5. EditDraft(d, {"access"})
      BY <2>1, <2>2, <2>3, <2>4
    <2>6. DOMAIN f = DOMAIN draft.orchs
      BY <2>3
    <2> QED BY <2>1, <2>4, <2>5, <2>6, LostEntry
  <1> QED BY <1>1, <1>2

LEMMA EmptyEntry == Entry("own", {}).shared = {}
  BY DEF Entry

LEMMA LostAdd == ASSUME LostInv, Shaped, add_orchestrator PROVE LostInv'
  <1>1. PICK o \in Orchs \ DOMAIN draft.orchs :
          /\ view.at = "manager" /\ Stay
          /\ EditDraft([draft EXCEPT
                !.orchs = With(@, o, Entry("own", {})),
                !.cfgs  = With(@, o, initial_orchestrator_config(o, draft.template)),
                !.primary = o], {})
    BY DEF add_orchestrator
  <1>2. view.at \in Editing /\ view.at \notin Inner
    BY <1>1 DEF Editing, Inner
  <1>3. PICK c : c = initial_orchestrator_config(o, draft.template)
    OBVIOUS
  <1>4. PICK f, g : f = With(draft.orchs, o, Entry("own", {})) /\ g = With(draft.cfgs, o, c)
    OBVIOUS
  <1>5. PICK d : d = [draft EXCEPT !.orchs = f, !.cfgs = g, !.primary = o]
    OBVIOUS
  <1>6. EditDraft(d, {})
    BY <1>1, <1>3, <1>4, <1>5
  <1>7. DraftFields(draft) /\ draft.template \in Three /\ DOMAIN draft.cfgs = DOMAIN draft.orchs
    BY <1>2, Known
  <1>8. /\ d.orchs = f /\ d.cfgs = g /\ d.primary = o /\ d.base = draft.base
        /\ d.template = draft.template /\ d.existed = draft.existed
    BY <1>5, <1>7 DEF DraftFields
  <1>9. ConfigShape(c) /\ validate_setup_invariants(c) /\ c.id = o
    BY <1>3, <1>7, InitialFact
  <1>10. /\ DOMAIN f = DOMAIN draft.orchs \cup {o} /\ DOMAIN g = DOMAIN draft.orchs \cup {o}
         /\ f[o] = Entry("own", {}) /\ g[o] = c
         /\ \A x \in DOMAIN draft.orchs : f[x] = draft.orchs[x] /\ g[x] = draft.cfgs[x]
    BY <1>4, <1>7 DEF With
  <1>11. f[o].shared = {}
    BY <1>10, EmptyEntry
  <1>12. Based(d, {})
    <2>1. \A x \in DOMAIN f : ConfigShape(g[x])
      BY <1>2, <1>9, <1>10, Known
    <2>2. \A x \in DOMAIN f :
             f[x].shared = {} \/ (x \in DOMAIN draft.orchs /\ f[x].shared = draft.orchs[x].shared)
      BY <1>10, <1>11
    <2>3. o \in DOMAIN f /\ DOMAIN draft.orchs \subseteq DOMAIN f
      BY <1>10
    <2> QED BY <1>7, <1>8, <2>1, <2>2, <2>3 DEF Based
  <1>13. ASSUME validate_setup_bootstrap(draft) PROVE validate_setup_bootstrap(d)
    <2>1. ASSUME NEW x \in DOMAIN f PROVE validate(g[x], DOMAIN f, x)
      <3>1. CASE x = o
        BY <1>9, <1>10, <3>1 DEF validate
      <3>2. CASE x # o
        BY <1>10, <1>13, <2>1, <3>2 DEF validate, validate_setup_bootstrap
      <3> QED BY <3>1, <3>2
    <2> QED BY <1>8, <2>1 DEF validate_setup_bootstrap
  <1> QED BY <1>1, <1>2, <1>6, <1>12, <1>13, LostEdit

LEMMA LostRemove == ASSUME LostInv, Shaped, remove_orchestrator PROVE LostInv'
  <1>1. PICK o \in DOMAIN draft.orchs :
          LET left == DOMAIN draft.orchs \ {o} IN
          /\ view.at = "manager" /\ left /= {} /\ Stay
          /\ EditDraft([draft EXCEPT !.orchs = [x \in left |-> @[x]],
                             !.cfgs  = [x \in left |-> @[x]],
                             !.primary = IF @ = o THEN FirstKey(left) ELSE @], {"removed"})
    BY DEF remove_orchestrator
  <1>2. view.at \in Editing /\ view.at \notin Inner
    BY <1>1 DEF Editing, Inner
  <1>3. PICK left : left = DOMAIN draft.orchs \ {o}
    OBVIOUS
  <1>4. PICK f, g, p : /\ f = [x \in left |-> draft.orchs[x]] /\ g = [x \in left |-> draft.cfgs[x]]
                       /\ p = IF draft.primary = o THEN FirstKey(left) ELSE draft.primary
    OBVIOUS
  <1>5. PICK d : d = [draft EXCEPT !.orchs = f, !.cfgs = g, !.primary = p]
    OBVIOUS
  <1>6. EditDraft(d, {"removed"})
    BY <1>1, <1>3, <1>4, <1>5
  <1>7. /\ DraftFields(draft) /\ draft.template \in Three /\ DOMAIN draft.cfgs = DOMAIN draft.orchs
        /\ DOMAIN draft.orchs \subseteq Orchs
        /\ draft.primary \in DOMAIN draft.orchs \/ DOMAIN draft.orchs = {}
    BY <1>2, Known
  <1>8. /\ d.orchs = f /\ d.cfgs = g /\ d.primary = p /\ d.base = draft.base
        /\ d.template = draft.template /\ d.existed = draft.existed
    BY <1>5, <1>7 DEF DraftFields
  <1>9. /\ DOMAIN f = left /\ left \subseteq DOMAIN draft.orchs
        /\ \A x \in left : f[x] = draft.orchs[x] /\ g[x] = draft.cfgs[x]
    BY <1>3, <1>4
  <1>10. p \in left
    <2>1. left # {} /\ left \subseteq Orchs
      BY <1>1, <1>3, <1>7
    <2>2. FirstKey(left) \in left
      BY <2>1, FirstKeyIn
    <2> QED BY <1>3, <1>4, <1>7, <2>2
  <1>11. Based(d, {"removed"})
    <2>1. \A x \in DOMAIN f : ConfigShape(g[x])
      BY <1>2, <1>9, Known
    <2> QED BY <1>7, <1>8, <1>9, <1>10, <2>1 DEF Based
  <1>12. ASSUME validate_setup_bootstrap(draft) PROVE validate_setup_bootstrap(d)
    <2>1. \A x \in left : validate(g[x], left, x)
      BY <1>9, <1>12 DEF validate, validate_setup_bootstrap
    <2> QED BY <1>8, <1>9, <2>1 DEF validate_setup_bootstrap
  <1> QED BY <1>1, <1>2, <1>6, <1>11, <1>12, LostEdit

LEMMA MinimumBased ==
  ASSUME LostInv, Shaped, view.at \in Editing, NEW d, d = ensure_minimum_orchestrator(draft)
  PROVE  /\ Based(d, {}) /\ DOMAIN d.orchs # {}
         /\ validate_setup_bootstrap(draft) => validate_setup_bootstrap(d)
  <1>1. CASE DOMAIN draft.orchs # {}
    <2>1. d = draft
      BY <1>1 DEF ensure_minimum_orchestrator
    <2> QED BY <1>1, <2>1, BasedSame
  <1>2. CASE DOMAIN draft.orchs = {}
    <2>1. PICK c : c = initial_orchestrator_config("main", draft.template)
      OBVIOUS
    <2>2. PICK f, g : f = Only("main", Entry("own", {})) /\ g = Only("main", c)
      OBVIOUS
    <2>3. d = [draft EXCEPT !.orchs = f, !.cfgs = g, !.primary = "main"]
      BY <1>2, <2>1, <2>2 DEF ensure_minimum_orchestrator
    <2>4. DraftFields(draft) /\ draft.template \in Three
      BY Known
    <2>5. /\ d.orchs = f /\ d.cfgs = g /\ d.primary = "main" /\ d.base = draft.base
          /\ d.template = draft.template /\ d.existed = draft.existed
      BY <2>3, <2>4 DEF DraftFields
    <2>6. ConfigShape(c) /\ validate_setup_invariants(c) /\ c.id = "main"
      BY <2>1, <2>4, InitialFact
    <2>7. DOMAIN f = {"main"} /\ f["main"] = Entry("own", {}) /\ g["main"] = c
      BY <2>2 DEF Only
    <2>8. f["main"].shared = {}
      BY <2>7, EmptyEntry
    <2>9. Based(d, {})
      BY <1>2, <2>4, <2>5, <2>6, <2>7, <2>8 DEF Based
    <2>10. validate_setup_bootstrap(d)
      BY <2>5, <2>6, <2>7 DEF validate_setup_bootstrap, validate
    <2> QED BY <2>5, <2>7, <2>9, <2>10
  <1> QED BY <1>1, <1>2

LEMMA LostManager == ASSUME LostInv, Shaped, OpenManager PROVE LostInv'
  <1>1. /\ view.at = "root" /\ view' = [view EXCEPT !.at = "manager"]
        /\ draft' = ensure_minimum_orchestrator(draft)
        /\ why' = why \cup {} /\ why' = why /\ UNCHANGED <<files, cmd, outcome>>
    BY DEF OpenManager
  <1>2. view.at \in Editing
    BY <1>1 DEF Editing
  <1>3. Fields(view)
    BY DEF LostInv, LocatedAt, Fields
  <1>4. Fields(view') /\ view'.at = "manager"
    BY <1>1, <1>3 DEF Fields
  <1>5. LocatedAt(view', draft')
    BY <1>4 DEF LocatedAt, Fields, Inner
  <1>6. PICK d : d = draft'
    OBVIOUS
  <1>7. Based(d, {}) /\ (validate_setup_bootstrap(draft) => validate_setup_bootstrap(d))
    BY <1>1, <1>2, <1>6, MinimumBased
  <1>8. ASSUME Quiet' PROVE SoundAt(view', draft')
    <2>1. SoundAt(view, draft)
      BY <1>1, <1>8 DEF LostInv, Sound, Quiet
    <2>2. validate_setup_bootstrap(d)
      BY <1>2, <1>7, <2>1 DEF SoundAt
    <2>3. SoundAt(view', d)
      BY <1>4, <2>2 DEF SoundAt
    <2> QED BY <1>6, <2>3
  <1>9. Based(draft', {})
    BY <1>6, <1>7
  <1> QED BY <1>1, <1>2, <1>4, <1>5, <1>8, <1>9, LostStep DEF Editing

\* An edit of the shown configuration.
LEMMA LostConfig ==
  ASSUME LostInv, Shaped, NEW r, NEW marks, EditConfig(r, marks), view.at \in Inner,
         ConfigShape(r.cfg), r.cfg.id = Cfg.id,
         marks \cap {"type", "outputs"} # {} \/ Edited(Cfg, r),
         Fields(view'), view'.at = view.at, view'.o = view.o,
         view.at \in AtWorkflow /\ view.w \in WorkflowIds(Cfg) /\ r.ok => view'.w \in WorkflowIds(r.cfg)
  PROVE  LostInv'
  <1>1. PICK o, c : o = view.o /\ c = r.cfg
    OBVIOUS
  <1>2. view.at \in Editing /\ o \in DOMAIN draft.orchs
    BY <1>1 DEF LostInv, LocatedAt, Inner, Editing
  <1>3. PICK all : all = marks \cup (IF r.ok THEN {} ELSE {"refused"})
    OBVIOUS
  <1>4. PICK g : g = [draft.cfgs EXCEPT ![o] = c]
    OBVIOUS
  <1>5. PICK d : d = [draft EXCEPT !.cfgs = g]
    OBVIOUS
  <1>6. EditDraft(d, all)
    BY <1>1, <1>3, <1>4, <1>5 DEF EditConfig
  <1>7. draft' = d /\ why' = why \cup all /\ UNCHANGED <<files, cmd, outcome>>
    BY <1>6 DEF EditDraft
  <1>8. DraftFields(draft) /\ DOMAIN draft.cfgs = DOMAIN draft.orchs
    BY <1>2, Known
  <1>9. /\ d.orchs = draft.orchs /\ d.cfgs = g /\ d.primary = draft.primary /\ d.base = draft.base
        /\ d.template = draft.template /\ d.existed = draft.existed
    BY <1>5, <1>8 DEF DraftFields
  <1>10. g[o] = c /\ \A x \in DOMAIN draft.orchs \ {o} : g[x] = draft.cfgs[x]
    BY <1>2, <1>4, <1>8
  <1>11. Based(d, all)
    <2>1. \A x \in DOMAIN draft.orchs : ConfigShape(g[x])
      BY <1>1, <1>2, <1>10, Known
    <2>2. draft.template \in Three /\ (draft.primary \in DOMAIN draft.orchs \/ DOMAIN draft.orchs = {})
      BY <1>2, Known
    <2> QED BY <1>9, <2>1, <2>2 DEF Based
  <1>12. LocatedAt(view', draft')
    BY <1>1, <1>2, <1>7, <1>9 DEF LocatedAt, Fields
  <1>13. ASSUME Quiet' PROVE SoundAt(view', draft')
    <2>1. Quiet /\ r.ok /\ marks \cap {"type", "outputs"} = {}
      BY <1>3, <1>7, <1>13 DEF Quiet
    <2>2. SoundAt(view, draft)
      BY <2>1 DEF LostInv, Sound
    <2>3. validate_setup_bootstrap(draft)
      BY <1>2, <2>2 DEF SoundAt
    <2>4. validate(draft.cfgs[o], DOMAIN draft.orchs, o) /\ Cfg = draft.cfgs[o]
      BY <1>1, <1>2, <2>3 DEF validate_setup_bootstrap, Cfg
    <2>5. validate_setup_invariants(c) /\ c.id = o
      BY <1>1, <2>1, <2>4 DEF Edited, validate
    <2>6. ASSUME NEW x \in DOMAIN draft.orchs PROVE validate(g[x], DOMAIN draft.orchs, x)
      <3>1. CASE x = o
        BY <1>10, <2>5, <2>6, <3>1 DEF validate
      <3>2. CASE x # o
        BY <1>10, <2>3, <2>6, <3>2 DEF validate_setup_bootstrap
      <3> QED BY <3>1, <3>2
    <2>7. validate_setup_bootstrap(d)
      BY <1>9, <2>6 DEF validate_setup_bootstrap
    <2>8. view.at \in AtWorkflow => view'.w \in WorkflowIds(c)
      BY <1>1, <1>2, <2>1, <2>2 DEF SoundAt, AtWorkflow, Cfg
    <2>9. SoundAt(view', d)
      BY <1>1, <1>9, <1>10, <2>7, <2>8 DEF SoundAt, AtWorkflow
    <2> QED BY <1>7, <2>9
  <1>14. Based(draft', all)
    BY <1>7, <1>11
  <1> QED BY <1>2, <1>7, <1>12, <1>13, <1>14, LostStep

-----------------------------------------------------------------------------
(* Edits of the shown configuration                                        *)

LEMMA CfgShape == ASSUME LostInv, view.at \in Inner PROVE ConfigShape(Cfg)
  BY DEF LostInv, LocatedAt, DraftShaped, Inner, Cfg

LEMMA LostStay ==
  ASSUME LostInv, Shaped, NEW r, NEW marks, EditConfig(r, marks), Stay, view.at \in Inner,
         \/ Edited(Cfg, r)
         \/ Kept(Cfg, r) /\ marks \cap {"type", "outputs"} # {},
         view.at \in AtWorkflow => SameWorkflows(Cfg, r)
  PROVE  LostInv'
  <1>1. view' = view /\ Fields(view')
    BY DEF Stay, LostInv, LocatedAt, Fields
  <1>2. ConfigShape(r.cfg) /\ r.cfg.id = Cfg.id
    BY DEF Edited, Kept
  <1>3. view.at \in AtWorkflow /\ view.w \in WorkflowIds(Cfg) => view'.w \in WorkflowIds(r.cfg)
    BY <1>1 DEF SameWorkflows
  <1>4. marks \cap {"type", "outputs"} # {} \/ Edited(Cfg, r)
    OBVIOUS
  <1> QED BY <1>1, <1>2, <1>3, <1>4, LostConfig

LEMMA LostDefaultWorkflow == ASSUME LostInv, Shaped, SetDefaultWorkflow PROVE LostInv'
  <1>1. view.at \in Inner /\ Stay
    BY DEF SetDefaultWorkflow, Inner
  <1>2. PICK w, c, r : /\ c = Cfg /\ r = set_orchestrator_default_workflow(c, w)
                       /\ EditConfig(r, {})
    BY Zenon DEF SetDefaultWorkflow
  <1>3. Edited(c, r) /\ SameWorkflows(c, r)
    BY <1>1, <1>2, CfgShape, DefaultEdit
  <1> QED BY <1>1, <1>2, <1>3, LostStay

LEMMA LostStarter == ASSUME LostInv, Shaped, AddStarterWorkflows PROVE LostInv'
  <1>1. view.at \in Inner /\ view.at \notin AtWorkflow /\ view.at \in Editing
    BY DEF AddStarterWorkflows, Inner, AtWorkflow, Editing
  <1>2. PICK t, c, r :
          /\ t \in Templates /\ c = Cfg /\ r = apply_workflow_template_to_orchestrator(c, t)
          /\ IF r.ok THEN EditConfig(r, {}) /\ Stay ELSE Abort
    BY Zenon DEF AddStarterWorkflows
  <1>3. t \in Three
    BY <1>2, ConstantsOK DEF Three
  <1>4. Edited(c, r) /\ (validate_setup_invariants(c) => r.ok)
    BY <1>1, <1>2, <1>3, CfgShape, ApplyFact
  <1>5. CASE r.ok
    BY <1>1, <1>2, <1>4, <1>5, LostStay
  <1>6. CASE ~r.ok
    <2>1. ~validate_setup_invariants(c) /\ Abort
      BY <1>2, <1>4, <1>6
    <2>2. view.o \in DOMAIN draft.orchs
      BY <1>1 DEF LostInv, LocatedAt
    <2>3. ~Quiet
      BY <1>1, <1>2, <2>1, <2>2 DEF LostInv, Sound, SoundAt, Cfg, validate_setup_bootstrap, validate
    <2> QED BY <2>1, <2>3, LostAbort
  <1> QED BY <1>5, <1>6

LEMMA LostWorkflowManager == ASSUME LostInv, Shaped, WorkflowManagerEdit PROVE LostInv'
  <1>1. view.at \in Inner /\ view.at \notin AtWorkflow /\ Stay
    BY DEF WorkflowManagerEdit, Inner, AtWorkflow
  <1>2. PICK c : c = Cfg
    OBVIOUS
  <1>3. PICK w \in WorkflowIds(c) \cup {Plain(n) : n \in WorkflowNames} :
          \/ EditConfig(add_workflow(c, w), {})
          \/ EditConfig(remove_workflow(c, w), {})
    BY <1>2, Zenon DEF WorkflowManagerEdit
  <1>4. w \in WorkflowIds(c) \/ IdOK(w)
    <2>1. \A n \in WorkflowNames : IdOK(Plain(n))
      BY PlainOK
    <2> QED BY <1>3, <2>1
  <1>5. CASE EditConfig(add_workflow(c, w), {})
    <2>1. PICK r : r = add_workflow(c, w)
      OBVIOUS
    <2>2. Edited(c, r)
      BY <1>1, <1>2, <1>4, <2>1, CfgShape, AddWorkflowEdit
    <2>3. EditConfig(r, {})
      BY <1>5, <2>1
    <2> QED BY <1>1, <1>2, <2>2, <2>3, LostStay
  <1>6. CASE EditConfig(remove_workflow(c, w), {})
    <2>1. PICK r : r = remove_workflow(c, w)
      OBVIOUS
    <2>2. Edited(c, r)
      BY <1>1, <1>2, <2>1, CfgShape, RemoveWorkflowEdit
    <2>3. EditConfig(r, {})
      BY <1>6, <2>1
    <2> QED BY <1>1, <1>2, <2>2, <2>3, LostStay
  <1> QED BY <1>3, <1>5, <1>6

LEMMA LostRenameWorkflow == ASSUME LostInv, Shaped, RenameWorkflow PROVE LostInv'
  <1>1. view.at \in Inner
    BY DEF RenameWorkflow, Inner
  <1>2. PICK n, c, r :
          /\ n \in WorkflowNames
          /\ c = Cfg /\ r = rename_workflow(c, view.w, Plain(n)) /\ EditConfig(r, {})
          /\ view' = IF r.ok THEN [view EXCEPT !.w = Plain(n)] ELSE view
    BY Zenon DEF RenameWorkflow
  <1>3. PICK x : x = Plain(n)
    OBVIOUS
  <1>4. IdOK(x)
    BY <1>2, <1>3, PlainOK
  <1>5. PICK w : w = view.w
    OBVIOUS
  <1>6. r = rename_workflow(c, w, x)
    BY <1>2, <1>3, <1>5
  <1>7. Edited(c, r) /\ (r.ok => x \in WorkflowIds(r.cfg))
    BY <1>1, <1>2, <1>4, <1>6, CfgShape, RenameWorkflowEdit
  <1>8. Fields(view)
    BY DEF LostInv, LocatedAt, Fields
  <1>9. Fields(view') /\ view'.at = view.at /\ view'.o = view.o /\ (r.ok => view'.w = x)
    BY <1>2, <1>3, <1>8 DEF Fields
  <1>10. ConfigShape(r.cfg) /\ r.cfg.id = Cfg.id
    BY <1>2, <1>7 DEF Edited
  <1> QED BY <1>1, <1>2, <1>7, <1>9, <1>10, LostConfig

LEMMA LostRenameStep == ASSUME LostInv, Shaped, RenameStep PROVE LostInv'
  <1>1. view.at \in Inner
    BY DEF RenameStep, Inner
  <1>2. PICK n, c, r :
          /\ c = Cfg /\ r = rename_step(c, view.w, view.s, n) /\ EditConfig(r, {})
          /\ view' = view \/ view' = [view EXCEPT !.s = n]
    BY Zenon DEF RenameStep
  <1>3. PICK w, s : w = view.w /\ s = view.s
    OBVIOUS
  <1>4. r = rename_step(c, w, s, n)
    BY <1>2, <1>3
  <1>5. Edited(c, r) /\ SameWorkflows(c, r)
    BY <1>1, <1>2, <1>4, CfgShape, RenameStepEdit
  <1>6. Fields(view)
    BY DEF LostInv, LocatedAt, Fields
  <1>7. Fields(view') /\ view'.at = view.at /\ view'.o = view.o /\ view'.w = view.w
    BY <1>2, <1>6 DEF Fields
  <1>8. ConfigShape(r.cfg) /\ r.cfg.id = Cfg.id /\ (view.w \in WorkflowIds(Cfg) => view.w \in WorkflowIds(r.cfg))
    BY <1>2, <1>5 DEF Edited, SameWorkflows
  <1> QED BY <1>1, <1>2, <1>5, <1>7, <1>8, LostConfig

LEMMA LostStepManager == ASSUME LostInv, Shaped, StepManagerEdit PROVE LostInv'
  <1>1. view.at \in Inner /\ Stay
    BY DEF StepManagerEdit, Inner
  <1>2. PICK c, w, s, a : c = Cfg /\ w = view.w /\ s = view.s /\ a = view.a
    OBVIOUS
  <1>3. \/ \E x : EditConfig(add_step(c, w, x), {})
        \/ \E x : EditConfig(remove_step(c, w, x), {})
    BY <1>2, Zenon DEF StepManagerEdit
  <1>4. CASE \E x : EditConfig(add_step(c, w, x), {})
    <2>1. PICK x, r : r = add_step(c, w, x) /\ EditConfig(r, {})
      BY <1>4, Zenon
    <2>2. Edited(c, r) /\ SameWorkflows(c, r)
      BY <1>1, <1>2, <2>1, CfgShape, AddStepEdit
    <2> QED BY <1>1, <1>2, <2>1, <2>2, LostStay
  <1>5. CASE \E x : EditConfig(remove_step(c, w, x), {})
    <2>1. PICK x, r : r = remove_step(c, w, x) /\ EditConfig(r, {})
      BY <1>5, Zenon
    <2>2. Edited(c, r) /\ SameWorkflows(c, r)
      BY <1>1, <1>2, <2>1, CfgShape, RemoveStepEdit
    <2> QED BY <1>1, <1>2, <2>1, <2>2, LostStay
  <1> QED BY <1>3, <1>4, <1>5

LEMMA LostStepDetail == ASSUME LostInv, Shaped, StepDetailEdit PROVE LostInv'
  <1>1. view.at \in Inner /\ Stay
    BY DEF StepDetailEdit, Inner
  <1>2. PICK c, w, s, a : c = Cfg /\ w = view.w /\ s = view.s /\ a = view.a
    OBVIOUS
  <1>3. \/ EditConfig(toggle_step_type(c, w, s), {"type"})
        \/ \E x : EditConfig(set_step_agent(c, w, s, x), {})
        \/ \E x, y : EditConfig(set_step_target(c, w, s, x, y), {})
        \/ \E x : EditConfig(set_step_prompt(c, w, s, x), {})
    BY <1>2, Zenon DEF StepDetailEdit
  <1>4. CASE EditConfig(toggle_step_type(c, w, s), {"type"})
    <2>1. PICK r : r = toggle_step_type(c, w, s) /\ EditConfig(r, {"type"})
      BY <1>4, Zenon
    <2>2. Kept(c, r)
      BY <1>1, <1>2, <2>1, CfgShape, StepTypeKept
    <2>3. Kept(Cfg, r) /\ SameWorkflows(Cfg, r) /\ {"type"} \cap {"type", "outputs"} # {}
      BY <1>2, <2>2 DEF Kept
    <2> QED BY <1>1, <2>1, <2>3, LostStay
  <1>5. CASE \E x : EditConfig(set_step_agent(c, w, s, x), {})
    <2>1. PICK x, r : r = set_step_agent(c, w, s, x) /\ EditConfig(r, {})
      BY <1>5, Zenon
    <2>2. Edited(c, r) /\ SameWorkflows(c, r)
      BY <1>1, <1>2, <2>1, CfgShape, StepAgentEdit
    <2> QED BY <1>1, <1>2, <2>1, <2>2, LostStay
  <1>6. CASE \E x, y : EditConfig(set_step_target(c, w, s, x, y), {})
    <2>1. PICK x, y, r : r = set_step_target(c, w, s, x, y) /\ EditConfig(r, {})
      BY <1>6, Zenon
    <2>2. Edited(c, r) /\ SameWorkflows(c, r)
      BY <1>1, <1>2, <2>1, CfgShape, StepTargetEdit
    <2> QED BY <1>1, <1>2, <2>1, <2>2, LostStay
  <1>7. CASE \E x : EditConfig(set_step_prompt(c, w, s, x), {})
    <2>1. PICK x, r : r = set_step_prompt(c, w, s, x) /\ EditConfig(r, {})
      BY <1>7, Zenon
    <2>2. Edited(c, r) /\ SameWorkflows(c, r)
      BY <1>1, <1>2, <2>1, CfgShape, StepPromptEdit
    <2> QED BY <1>1, <1>2, <2>1, <2>2, LostStay
  <1> QED BY <1>3, <1>4, <1>5, <1>6, <1>7

LEMMA LostStepContract == ASSUME LostInv, Shaped, StepContractEdit PROVE LostInv'
  <1>1. view.at \in Inner /\ Stay
    BY DEF StepContractEdit, Inner
  <1>2. PICK c, w, s, a : c = Cfg /\ w = view.w /\ s = view.s /\ a = view.a
    OBVIOUS
  <1>3. \/ \E x : EditConfig(set_step_outputs(c, w, s, x), {"outputs"})
        \/ \E x : EditConfig(set_step_output_files(c, w, s, x), {})
    BY <1>2, Zenon DEF StepContractEdit
  <1>4. CASE \E x : EditConfig(set_step_outputs(c, w, s, x), {"outputs"})
    <2>1. PICK x, r : r = set_step_outputs(c, w, s, x) /\ EditConfig(r, {"outputs"})
      BY <1>4, Zenon
    <2>2. Kept(c, r)
      BY <1>1, <1>2, <2>1, CfgShape, StepOutputsKept
    <2>3. Kept(Cfg, r) /\ SameWorkflows(Cfg, r) /\ {"outputs"} \cap {"type", "outputs"} # {}
      BY <1>2, <2>2 DEF Kept
    <2> QED BY <1>1, <2>1, <2>3, LostStay
  <1>5. CASE \E x : EditConfig(set_step_output_files(c, w, s, x), {})
    <2>1. PICK x, r : r = set_step_output_files(c, w, s, x) /\ EditConfig(r, {})
      BY <1>5, Zenon
    <2>2. Edited(c, r) /\ SameWorkflows(c, r)
      BY <1>1, <1>2, <2>1, CfgShape, StepFilesEdit
    <2> QED BY <1>1, <1>2, <2>1, <2>2, LostStay
  <1> QED BY <1>3, <1>4, <1>5

LEMMA LostAgentManager == ASSUME LostInv, Shaped, AgentManagerEdit PROVE LostInv'
  <1>1. view.at \in Inner /\ Stay /\ view.at \notin AtWorkflow
    BY DEF AgentManagerEdit, Inner, AtWorkflow
  <1>2. PICK c, w, s, a : c = Cfg /\ w = view.w /\ s = view.s /\ a = view.a
    OBVIOUS
  <1>3. \/ \E x : EditConfig(add_agent(c, x), {})
        \/ \E x : EditConfig(remove_agent(c, x), {})
    BY <1>2, Zenon DEF AgentManagerEdit
  <1>4. CASE \E x : EditConfig(add_agent(c, x), {})
    <2>1. PICK x, r : r = add_agent(c, x) /\ EditConfig(r, {})
      BY <1>4, Zenon
    <2>2. Edited(c, r)
      BY <1>1, <1>2, <2>1, CfgShape, AddAgentEdit
    <2> QED BY <1>1, <1>2, <2>1, <2>2, LostStay
  <1>5. CASE \E x : EditConfig(remove_agent(c, x), {})
    <2>1. PICK x, r : r = remove_agent(c, x) /\ EditConfig(r, {})
      BY <1>5, Zenon
    <2>2. Edited(c, r)
      BY <1>1, <1>2, <2>1, CfgShape, RemoveAgentEdit
    <2> QED BY <1>1, <1>2, <2>1, <2>2, LostStay
  <1> QED BY <1>3, <1>4, <1>5

LEMMA LostAgentDetail == ASSUME LostInv, Shaped, AgentDetailEdit PROVE LostInv'
  <1>1. view.at \in Inner /\ Stay /\ view.at \notin AtWorkflow
    BY DEF AgentDetailEdit, Inner, AtWorkflow
  <1>2. PICK c, w, s, a : c = Cfg /\ w = view.w /\ s = view.s /\ a = view.a
    OBVIOUS
  <1>3. \/ EditConfig(toggle_agent_orchestration_capability(c, a), {})
        \/ EditConfig(set_selector_agent(c, a), {})
    BY <1>2, Zenon DEF AgentDetailEdit
  <1>4. CASE EditConfig(toggle_agent_orchestration_capability(c, a), {})
    <2>1. PICK r : r = toggle_agent_orchestration_capability(c, a) /\ EditConfig(r, {})
      BY <1>4, Zenon
    <2>2. Edited(c, r)
      BY <1>1, <1>2, <2>1, CfgShape, ToggleEdit
    <2> QED BY <1>1, <1>2, <2>1, <2>2, LostStay
  <1>5. CASE EditConfig(set_selector_agent(c, a), {})
    <2>1. PICK r : r = set_selector_agent(c, a) /\ EditConfig(r, {})
      BY <1>5, Zenon
    <2>2. Edited(c, r)
      BY <1>1, <1>2, <2>1, CfgShape, SelectorEdit
    <2> QED BY <1>1, <1>2, <2>1, <2>2, LostStay
  <1> QED BY <1>3, <1>4, <1>5

-----------------------------------------------------------------------------
(* Opening, saving and commands                                            *)

LEMMA InferredTemplate == ASSUME NEW c PROVE infer_workflow_template(c) \in Three
  BY DEF infer_workflow_template, Three

\* What the setup starts from.
Fresh(d) ==
    /\ \A o \in DOMAIN d.orchs : ConfigShape(d.cfgs[o])
    /\ d.primary \in DOMAIN d.orchs \/ DOMAIN d.orchs = {}
    /\ d.template \in Three
    /\ d.base = "abs"
    /\ \A o \in DOMAIN d.orchs : d.orchs[o].shared \subseteq SharedKeys
    /\ d.existed => load_settings(settings) /\ DOMAIN settings.orchs \subseteq DOMAIN d.orchs

LEMMA DefaultFresh == Fresh(DefaultDraft)
  <1>1. PICK d, f, g, c : /\ d = DefaultDraft /\ f = Only("main", Entry("own", {})) /\ g = Only("main", c)
                          /\ c = initial_orchestrator_config("main", "minimal")
    OBVIOUS
  <1>2. d = DraftOf("abs", "main", "minimal", FALSE, f, g)
    BY <1>1, Zenon DEF DefaultDraft, DraftOf
  <1>3. /\ d.base = "abs" /\ d.primary = "main" /\ d.template = "minimal" /\ d.existed = FALSE
        /\ d.orchs = f /\ d.cfgs = g
    BY <1>2 DEF DraftOf
  <1>4. DOMAIN f = {"main"} /\ f["main"] = Entry("own", {}) /\ g["main"] = c
    BY <1>1 DEF Only
  <1>5. f["main"].shared = {}
    BY <1>4, EmptyEntry
  <1>6. ConfigShape(c)
    BY <1>1, InitialFact DEF Three
  <1> QED BY <1>1, <1>3, <1>4, <1>5, <1>6 DEF Fresh, Three

LEMMA LoadedFresh ==
  ASSUME FilesShaped, SettingsOK(settings), load_settings(settings),
         \A o \in DOMAIN settings.orchs : yaml[PathOf(settings, o)] /= TornFile
  PROVE  Fresh(LoadedDraft(settings))
  <1>1. PICK s : s = settings
    OBVIOUS
  <1> DEFINE g == [o \in DOMAIN s.orchs |->
                    IF yaml[PathOf(s, o)] /= NoFile THEN yaml[PathOf(s, o)]
                    ELSE initial_orchestrator_config(o, "minimal")]
             p == IF DOMAIN s.orchs = {} THEN "main" ELSE FirstKey(DOMAIN s.orchs)
             t == IF DOMAIN s.orchs = {} THEN "minimal"
                  ELSE infer_workflow_template(g[FirstKey(DOMAIN s.orchs)])
  <1>4. PICK d : d = LoadedDraft(s)
    OBVIOUS
  <1>5. d = DraftOf(s.base, p, t, TRUE, s.orchs, g)
    BY <1>4, Zenon DEF LoadedDraft, DraftOf
  <1> HIDE DEF g, p, t
  <1>6. /\ d.base = s.base /\ d.primary = p /\ d.template = t /\ d.orchs = s.orchs /\ d.cfgs = g
    BY <1>5 DEF DraftOf
  <1>7. DOMAIN s.orchs \subseteq Orchs
    BY <1>1 DEF SettingsOK, EntriesOK
  <1>8. ASSUME NEW o \in DOMAIN s.orchs PROVE ConfigShape(g[o])
    <2>1. PICK q : q = PathOf(s, o)
      OBVIOUS
    <2>2. q \in Paths
      BY <1>7, <2>1, PathIn
    <2>3. CASE yaml[q] # NoFile
      <3>1. Whole(q) /\ g[o] = yaml[q]
        BY <1>1, <2>1, <2>3 DEF Whole, g
      <3> QED BY <2>2, <3>1 DEF FilesShaped
    <2>4. CASE yaml[q] = NoFile
      <3>1. g[o] = initial_orchestrator_config(o, "minimal")
        BY <2>1, <2>4 DEF g
      <3>2. PICK c : c = g[o]
        OBVIOUS
      <3>3. ConfigShape(c)
        BY <3>1, <3>2, InitialFact DEF Three
      <3> QED BY <3>2, <3>3
    <2> QED BY <2>3, <2>4
  <1>9. p \in DOMAIN s.orchs \/ DOMAIN s.orchs = {}
    BY <1>7, FirstKeyIn DEF p
  <1>10. t \in Three
    BY InferredTemplate DEF Three, t
  <1>11. s.base = "abs" /\ \A o \in DOMAIN s.orchs : s.orchs[o].shared \subseteq SharedKeys
    BY <1>1 DEF load_settings, SettingsValid
  <1>12. Fresh(d)
    BY <1>1, <1>6, <1>8, <1>9, <1>10, <1>11 DEF Fresh
  <1> QED BY <1>1, <1>4, <1>12

LEMMA LostSetup == ASSUME LostInv, Shaped, cmd_setup PROVE LostInv'
  <1>1. /\ view' = Root /\ outcome' = "open" /\ UNCHANGED <<files, cmd>> /\ SetupLoads
        /\ draft' = IF settings = Absent THEN DefaultDraft ELSE LoadedDraft(settings)
        /\ "files" \notin why' => validate_setup_bootstrap(draft')
        /\ "command" \notin why' => cmd = Nothing
    BY DEF cmd_setup
  <1>2. Fresh(draft')
    <2>1. CASE settings = Absent
      BY <1>1, <2>1, DefaultFresh
    <2>2. CASE settings # Absent
      <3>1. /\ load_settings(settings)
            /\ \A o \in DOMAIN settings.orchs : yaml[PathOf(settings, o)] /= TornFile
        BY <1>1, <2>2 DEF SetupLoads
      <3>2. SettingsOK(settings)
        BY <3>1 DEF Shaped, load_settings
      <3> QED BY <1>1, <2>2, <3>1, <3>2, LoadedFresh DEF LostInv
    <2> QED BY <2>1, <2>2
  <1>3. Root.at = "root" /\ Fields(Root)
    BY DEF Root, Off, Fields
  <1>4. FilesShaped' /\ CommandShaped' /\ settings' = settings
    BY <1>1 DEF LostInv, FilesShaped, CommandShaped, Whole, files
  <1>5. DraftShaped'
    BY <1>2 DEF Fresh, DraftShaped
  <1>6. LocatedAt(view', draft')
    BY <1>1, <1>3 DEF LocatedAt, Fields, Inner
  <1>7. ASSUME Quiet' PROVE SoundAt(view', draft')
    <2>1. "files" \notin why'
      BY <1>7 DEF Quiet
    <2>2. validate_setup_bootstrap(draft')
      BY <1>1, <2>1
    <2> QED BY <1>1, <1>3, <2>2 DEF SoundAt
  <1>8. Rooted'
    BY <1>2 DEF Fresh, Rooted
  <1>9. Undisturbed'
    <2>1. "command" \notin why' => cmd' = Nothing
      BY <1>1
    <2>2. draft'.existed => load_settings(settings') /\ DOMAIN settings'.orchs \subseteq DOMAIN draft'.orchs
      BY <1>2, <1>4 DEF Fresh
    <2> QED BY <2>1, <2>2 DEF Undisturbed
  <1>10. DraftLostHasCause'
    BY <1>1 DEF DraftLostHasCause
  <1> QED BY <1>4, <1>5, <1>6, <1>7, <1>8, <1>9, <1>10 DEF LostInv, Sound

\* A save under way.
LEMMA LostSaving ==
  ASSUME view'.at \in {"settings", "registry"}, Fields(view'), FilesShaped', CommandShaped',
         \A o \in DOMAIN draft'.orchs : ConfigShape(draft'.cfgs[o]), DraftLostHasCause'
  PROVE  LostInv'
  <1>1. view'.at \notin Editing /\ view'.at \notin Inner
    BY DEF Editing, Inner
  <1>2. LocatedAt(view', draft') /\ SoundAt(view', draft')
    BY <1>1 DEF LocatedAt, SoundAt, Fields
  <1>3. Rooted' /\ Undisturbed' /\ DraftShaped'
    BY <1>1 DEF Rooted, Undisturbed, DraftShaped
  <1> QED BY <1>2, <1>3 DEF LostInv, Sound

LEMMA ProfilesKept ==
  ASSUME NEW f, NEW S, \A x \in DOMAIN f : f[x] \in S, NEW p \in S, NEW g, g = WithPrimaryProfile(f, p)
  PROVE  \A x \in DOMAIN g : g[x] \in S
  <1>1. PICK e : e = IF DOMAIN f = {} THEN Only("local-default", p) ELSE f
    OBVIOUS
  <1>2. \A x \in DOMAIN e : e[x] \in S
    BY <1>1 DEF Only
  <1>3. g = IF \E x \in DOMAIN e : e[x] = p THEN e ELSE With(e, p, p)
    BY <1>1 DEF WithPrimaryProfile
  <1>4. \A x \in DOMAIN With(e, p, p) : With(e, p, p)[x] \in S
    BY <1>2 DEF With
  <1> QED BY <1>2, <1>3, <1>4

\* Unless something happened the draft is saved.
LEMMA SaveAccepted ==
  ASSUME LostInv, Shaped, view.at = "persist", NEW d, d = ensure_minimum_orchestrator(draft),
         why \cap {"type", "outputs", "refused", "removed", "access", "base", "command", "files"} = {}
  PROVE  /\ d.existed => load_settings(settings)
         /\ SettingsValid(Normalized(d))
         /\ validate_setup_bootstrap(d)
  <1>1. view.at \in Editing
    BY DEF Editing
  <1>2. /\ Based(d, {}) /\ DOMAIN d.orchs # {}
        /\ validate_setup_bootstrap(draft) => validate_setup_bootstrap(d)
    BY <1>1, MinimumBased
  <1>3. validate_setup_bootstrap(draft)
    BY <1>1 DEF LostInv, Sound, Quiet, SoundAt
  <1>4. /\ draft.existed => load_settings(settings)
        /\ draft.existed => DOMAIN settings.orchs \subseteq DOMAIN draft.orchs
    BY <1>1 DEF LostInv, Undisturbed
  <1>5. d.existed = draft.existed /\ DOMAIN draft.orchs \subseteq DOMAIN d.orchs /\ d.base = draft.base
    BY <1>2 DEF Based
  <1>6. d.base = "abs"
    BY <1>1, <1>5 DEF LostInv, Rooted
  <1>7. \A o \in DOMAIN d.orchs : d.orchs[o].shared \subseteq SharedKeys
    <2>1. \A o \in DOMAIN draft.orchs : draft.orchs[o].shared \subseteq SharedKeys
      BY <1>1 DEF LostInv, Rooted
    <2> QED BY <1>2, <2>1 DEF Based
  <1>8. PICK f, p, g : /\ f = (IF d.existed THEN settings.profiles ELSE <<>>) /\ p = d.primary
                       /\ g = WithPrimaryProfile(f, p)
    OBVIOUS
  <1>9. p \in DOMAIN d.orchs
    BY <1>2, <1>8 DEF Based
  <1>10. \A x \in DOMAIN f : f[x] \in DOMAIN d.orchs
    <2>1. CASE d.existed
      <3>1. f = settings.profiles /\ \A x \in DOMAIN settings.profiles : settings.profiles[x] \in DOMAIN settings.orchs
        BY <1>4, <1>5, <1>8, <2>1 DEF load_settings, SettingsValid
      <3> QED BY <1>4, <1>5, <2>1, <3>1
    <2>2. CASE ~d.existed
      <3>1. f = <<>> /\ DOMAIN <<>> = {}
        BY <1>8, <2>2
      <3> QED BY <3>1
    <2> QED BY <2>1, <2>2
  <1>11. \A x \in DOMAIN g : g[x] \in DOMAIN d.orchs
    <2>1. PICK S : S = DOMAIN d.orchs
      OBVIOUS
    <2>2. (\A x \in DOMAIN f : f[x] \in S) /\ p \in S
      BY <1>9, <1>10, <2>1
    <2>3. \A x \in DOMAIN g : g[x] \in S
      BY <1>8, <2>2, ProfilesKept
    <2> QED BY <2>1, <2>3
  <1>12. Normalized(d) = Settings(d.base, d.orchs, g)
    BY <1>8 DEF Normalized
  <1>13. PICK s : s = Normalized(d)
    OBVIOUS
  <1>14. s.base = d.base /\ s.orchs = d.orchs /\ s.profiles = g
    BY <1>12, <1>13, SettingsMade
  <1>15. SettingsValid(s)
    BY <1>6, <1>7, <1>11, <1>14 DEF SettingsValid
  <1> QED BY <1>2, <1>3, <1>4, <1>5, <1>13, <1>15

LEMMA LostNormalize == ASSUME LostInv, Shaped, normalize_for_save PROVE LostInv'
  <1>1. PICK d : d = ensure_minimum_orchestrator(draft)
    OBVIOUS
  <1>2. /\ view.at = "persist" /\ UNCHANGED <<files, cmd, why>>
        /\ \/ draft' = d /\ view' = [view EXCEPT !.at = "settings"] /\ UNCHANGED outcome
           \/ /\ End("refused")
              /\ ~(/\ d.existed => load_settings(settings)
                   /\ SettingsValid(Normalized(d))
                   /\ validate_setup_bootstrap(d))
    BY <1>1, Zenon DEF normalize_for_save
  <1>3. view.at \in Editing
    BY <1>2 DEF Editing
  <1>4. FilesShaped' /\ CommandShaped'
    BY <1>2 DEF LostInv, FilesShaped, CommandShaped, Whole, files
  <1>5. CASE draft' = d /\ view' = [view EXCEPT !.at = "settings"] /\ UNCHANGED outcome
    <2>1. Based(d, {})
      BY <1>1, <1>3, MinimumBased
    <2>2. Fields(view') /\ view'.at = "settings"
      BY <1>5 DEF LostInv, LocatedAt, Fields
    <2>3. DraftLostHasCause'
      BY <1>2, <1>5 DEF LostInv, DraftLostHasCause
    <2>4. \A o \in DOMAIN draft'.orchs : ConfigShape(draft'.cfgs[o])
      BY <1>5, <2>1 DEF Based
    <2> QED BY <1>4, <2>2, <2>3, <2>4, LostSaving
  <1>6. CASE /\ End("refused")
             /\ ~(/\ d.existed => load_settings(settings)
                  /\ SettingsValid(Normalized(d))
                  /\ validate_setup_bootstrap(d))
    <2>1. why \cap {"type", "outputs", "refused", "removed", "access", "base", "command", "files"} # {}
      BY <1>1, <1>2, <1>6, SaveAccepted
    <2>2. view' = Off /\ outcome' = "refused"
      BY <1>6 DEF End
    <2>3. DraftLostHasCause'
      BY <1>2, <2>1, <2>2 DEF DraftLostHasCause
    <2> QED BY <1>4, <2>2, <2>3, LostOff
  <1> QED BY <1>2, <1>5, <1>6

LEMMA WriteShaped ==
  ASSUME FilesShaped, DOMAIN yaml = Paths, NEW p, NEW c, c = TornFile \/ ConfigShape(c),
         yaml' = [yaml EXCEPT ![p] = c]
  PROVE  FilesShaped'
  <1>1. \A q \in Paths : yaml'[q] = yaml[q] \/ yaml'[q] = c
    OBVIOUS
  <1> QED BY <1>1 DEF FilesShaped, Whole

LEMMA BreakShaped ==
  ASSUME LostInv, Shaped, NEW how, NEW writing, NEW s, NEW o, NEW c, Break(how, writing, s, o, c),
         Savable(s, o, c) => ConfigShape(c)
  PROVE  FilesShaped'
  <1>1. DOMAIN yaml = Paths
    BY DEF Shaped
  <1>2. CASE yaml' = yaml
    BY <1>2 DEF LostInv, FilesShaped, Whole
  <1>3. CASE Savable(s, o, c) /\ \E new \in {TornFile, c} : WriteConfig(s, o, new)
    <2>1. PICK new \in {TornFile, c} : yaml' = [yaml EXCEPT ![PathOf(s, o)] = new]
      BY <1>3 DEF WriteConfig
    <2> QED BY <1>1, <1>3, <2>1, WriteShaped DEF LostInv
  <1> QED BY <1>2, <1>3 DEF Break

LEMMA LostEnd ==
  ASSUME LostInv, NEW how \in {"half saved", "saved", "crashed"}, End(how), UNCHANGED cmd, FilesShaped',
         how = "half saved" => why' \cap {"relative", "prompt", "io"} # {}
  PROVE  LostInv'
  <1>1. view' = Off /\ outcome' = how
    BY DEF End
  <1>2. CommandShaped'
    BY DEF LostInv, CommandShaped
  <1>3. DraftLostHasCause'
    BY <1>1 DEF DraftLostHasCause
  <1> QED BY <1>1, <1>2, <1>3, LostOff

LEMMA LostPersistFails == ASSUME LostInv, PersistFails PROVE LostInv'
  <1>1. view' = Off /\ outcome' = "refused" /\ "io" \in why' /\ UNCHANGED <<files, cmd>>
    BY DEF PersistFails, End
  <1>2. FilesShaped' /\ CommandShaped'
    BY <1>1 DEF LostInv, FilesShaped, CommandShaped, Whole, files
  <1>3. DraftLostHasCause'
    BY <1>1 DEF DraftLostHasCause
  <1> QED BY <1>1, <1>2, <1>3, LostOff

\* The file that a save is about to write.
LEMMA NextFile ==
  ASSUME LostInv, Shaped, view.at \in {"settings", "registry"}, NEW o, o = FirstKey(todo.left)
  PROVE  /\ o \in DOMAIN draft.orchs /\ ConfigShape(draft.cfgs[o])
         /\ validate(draft.cfgs[o], DOMAIN todo.s.orchs, o)
  <1>1. /\ todo.left \subseteq DOMAIN draft.orchs /\ todo.left # {}
        /\ DOMAIN draft.orchs \subseteq Orchs /\ todo.s.orchs = draft.orchs
        /\ validate_setup_bootstrap(draft)
    BY DEF Shaped, SaveOK, SettingsOK, EntriesOK
  <1>2. todo.left \subseteq Orchs
    BY <1>1
  <1>3. o \in DOMAIN draft.orchs
    BY <1>1, <1>2, FirstKeyIn
  <1>4. \A x \in DOMAIN draft.orchs : ConfigShape(draft.cfgs[x])
    BY DEF LostInv, DraftShaped
  <1> QED BY <1>1, <1>3, <1>4 DEF validate_setup_bootstrap

LEMMA LostPersistSettings == ASSUME LostInv, Shaped, PersistSettings PROVE LostInv'
  <1>1. /\ view.at = "settings" /\ UNCHANGED <<yaml, cmd>>
        /\ \/ view' = [view EXCEPT !.at = "registry"] /\ UNCHANGED <<draft, outcome, why>>
           \/ End("half saved") /\ why' = why \cup {"relative"}
    BY DEF PersistSettings
  <1>2. FilesShaped' /\ CommandShaped' /\ Fields(view)
    BY <1>1 DEF LostInv, FilesShaped, CommandShaped, Whole, LocatedAt, Fields
  <1>3. CASE view' = [view EXCEPT !.at = "registry"] /\ UNCHANGED <<draft, outcome, why>>
    <2>1. Fields(view') /\ view'.at = "registry"
      BY <1>2, <1>3 DEF Fields
    <2>2. DraftLostHasCause'
      BY <1>3 DEF LostInv, DraftLostHasCause
    <2>3. \A o \in DOMAIN draft.orchs : ConfigShape(draft.cfgs[o])
      BY <1>1 DEF LostInv, DraftShaped
    <2> QED BY <1>2, <1>3, <2>1, <2>2, <2>3, LostSaving
  <1>4. CASE End("half saved") /\ why' = why \cup {"relative"}
    <2>1. why' \cap {"relative", "prompt", "io"} # {}
      BY <1>4
    <2> QED BY <1>1, <1>2, <1>4, <2>1, LostEnd
  <1> QED BY <1>1, <1>3, <1>4

\* A draft that was accepted is refused at its file only for a prompt.
LEMMA LostPersistConfig == ASSUME LostInv, Shaped, PersistConfig PROVE LostInv'
  <1>1. PICK o, c, p : o = FirstKey(todo.left) /\ c = draft.cfgs[o] /\ p = PathOf(todo.s, o)
    OBVIOUS
  <1>2. /\ view.at = "registry" /\ UNCHANGED cmd /\ why' = why \cup PromptRefused(c)
        /\ \/ yaml' = [yaml EXCEPT ![p] = c] /\ (End("saved") \/ UNCHANGED <<view, draft, outcome>>)
           \/ ~Savable(todo.s, o, c) /\ End("half saved") /\ UNCHANGED yaml
    BY <1>1 DEF PersistConfig, WriteConfig
  <1>3. /\ o \in DOMAIN draft.orchs /\ ConfigShape(c) /\ validate(c, DOMAIN todo.s.orchs, o)
    BY <1>1, <1>2, NextFile
  <1>4. DOMAIN yaml = Paths /\ Fields(view)
    BY DEF Shaped, LostInv, LocatedAt, Fields
  <1>5. FilesShaped'
    <2>1. CASE yaml' = [yaml EXCEPT ![p] = c]
      BY <1>3, <1>4, <2>1, WriteShaped DEF LostInv
    <2>2. CASE UNCHANGED yaml
      BY <2>2 DEF LostInv, FilesShaped, Whole
    <2> QED BY <1>2, <2>1, <2>2
  <1>6. CASE End("saved")
    BY <1>2, <1>5, <1>6, LostEnd
  <1>7. CASE ~Savable(todo.s, o, c) /\ End("half saved")
    <2>1. MountsReconcile(todo.s) /\ todo.s.orchs = draft.orchs
      BY <1>2 DEF Shaped, SaveOK
    <2>2. Resolves(todo.s, o)
      BY <1>3, <2>1 DEF MountsReconcile
    <2>3. "prompt" \in why'
      BY <1>2, <1>3, <1>7, <2>2 DEF Savable, PromptRefused
    <2> QED BY <1>2, <1>5, <1>7, <2>3, LostEnd
  <1>8. CASE UNCHANGED <<view, draft, outcome>>
    <2>1. DraftLostHasCause'
      BY <1>2, <1>8 DEF LostInv, DraftLostHasCause
    <2>2. CommandShaped'
      BY <1>2 DEF LostInv, CommandShaped
    <2>3. \A x \in DOMAIN draft.orchs : ConfigShape(draft.cfgs[x])
      BY <1>2 DEF LostInv, DraftShaped
    <2> QED BY <1>2, <1>4, <1>5, <1>8, <2>1, <2>2, <2>3, LostSaving
  <1> QED BY <1>2, <1>6, <1>7, <1>8

LEMMA LostBreakSetup == ASSUME LostInv, Shaped, BreakSetup PROVE LostInv'
  <1> DEFINE o == FirstKey(todo.left)
  <1>1. PICK how \in Breaks :
          /\ view.at \in {"settings", "registry"}
          /\ Break(how, view.at, todo.s, o, draft.cfgs[o])
          /\ End(IF how = "crash" THEN "crashed" ELSE "half saved")
          /\ why' = why \cup {how} /\ UNCHANGED cmd
    BY DEF BreakSetup
  <1>2. ConfigShape(draft.cfgs[o])
    BY <1>1, NextFile
  <1>3. FilesShaped'
    BY <1>1, <1>2, BreakShaped
  <1>4. CASE how = "crash"
    BY <1>1, <1>3, <1>4, LostEnd
  <1>5. CASE how = "io"
    BY <1>1, <1>3, <1>5, LostEnd
  <1> QED BY <1>4, <1>5 DEF Breaks

LEMMA CommandEdits ==
  ASSUME NEW c, ConfigShape(c),
         NEW new \in set_selector_agent_command(c) \cup set_default_workflow_command(c)
                     \cup cmd_orchestrator_agent(c) \cup cmd_workflow(c)
  PROVE  ConfigShape(new)
  <1>1. CASE new \in set_selector_agent_command(c)
    <2>1. PICK a : new = [c EXCEPT !.selector = a]
      BY <1>1 DEF set_selector_agent_command
    <2> QED BY <2>1, SetSelector
  <1>2. CASE new \in set_default_workflow_command(c)
    <2>1. PICK w : new = [c EXCEPT !.default = w]
      BY <1>2 DEF set_default_workflow_command
    <2> QED BY <2>1, SetDefault
  <1>3. CASE new \in cmd_orchestrator_agent(c)
    <2>1. CASE \E a : new = add_agent(c, a).cfg
      <3>1. PICK a, r : r = add_agent(c, a) /\ new = r.cfg
        BY <2>1
      <3> QED BY <3>1, AddAgentEdit DEF Edited
    <2>2. CASE \E x : new = [c EXCEPT !.agents = x]
      <3>1. PICK x : new = [c EXCEPT !.agents = x]
        BY <2>2
      <3> QED BY <3>1, SetAgents
    <2>3. ASSUME NEW a \in AgentIds(c), new = [c EXCEPT !.agents = [x \in AgentIds(c) \ {a} |-> @[x]]]
          PROVE  \E x : new = [c EXCEPT !.agents = x]
      BY <2>3, Zenon
    <2>4. ASSUME NEW a \in AgentIds(c), new = [c EXCEPT !.agents[a] = FALSE]
          PROVE  \E x : new = [c EXCEPT !.agents = x]
      <3>1. PICK x : x = [c.agents EXCEPT ![a] = FALSE]
        OBVIOUS
      <3>2. new = [c EXCEPT !.agents = x]
        BY <2>4, <3>1
      <3> QED BY <3>2
    <2> QED BY <1>3, <2>1, <2>2, <2>3, <2>4 DEF cmd_orchestrator_agent
  <1>4. CASE new \in cmd_workflow(c)
    <2>1. CASE \E n \in WorkflowNames : new = add_workflow(c, Plain(n)).cfg
      <3>1. PICK n \in WorkflowNames : new = add_workflow(c, Plain(n)).cfg
        BY <2>1
      <3>2. PICK w, r : w = Plain(n) /\ r = add_workflow(c, w)
        OBVIOUS
      <3>3. IdOK(w)
        BY <3>2, PlainOK
      <3>4. Edited(c, r)
        BY <3>2, <3>3, AddWorkflowEdit
      <3> QED BY <3>1, <3>2, <3>4 DEF Edited
    <2>2. CASE \E w : new = remove_workflow(c, w).cfg
      <3>1. PICK w, r : r = remove_workflow(c, w) /\ new = r.cfg
        BY <2>2
      <3> QED BY <3>1, RemoveWorkflowEdit DEF Edited
    <2> QED BY <1>4, <2>1, <2>2 DEF cmd_workflow
  <1> QED BY <1>1, <1>2, <1>3, <1>4

LEMMA LoadedShape ==
  ASSUME LostInv, Shaped, NEW o \in Orchestrators, load_orchestrator_config(settings, o)
  PROVE  ConfigShape(yaml[PathOf(settings, o)])
  <1>1. PICK p, c : p = PathOf(settings, o) /\ c = yaml[p]
    OBVIOUS
  <1>2. o \in DOMAIN settings.orchs /\ DOMAIN settings.orchs \subseteq Orchs
    BY KnownSettings DEF SettingsOK, EntriesOK
  <1>3. p \in Paths
    <2>1. PICK s : s = settings
      OBVIOUS
    <2> QED BY <1>1, <1>2, <2>1, PathIn
  <1>4. c.id = o
    BY <1>1 DEF load_orchestrator_config, validate
  <1>5. c # NoFile /\ c # TornFile
    BY <1>2, <1>4, ConfigIsFile
  <1> QED BY <1>1, <1>3, <1>5 DEF LostInv, FilesShaped, Whole

\* Every command begins with a configuration that has its shape, or with none.
LEMMA CommandBegins ==
  ASSUME LostInv, Shaped, Command
  PROVE  \/ \E new, t, o, c : Begin(new, t, o, c) /\ (c = NoFile \/ ConfigShape(c))
         \/ CommandWritesSettings \/ CommandWritesConfig \/ BreakCommand
  <1>1. CASE OrchestratorAdd
    <2>1. PICK t, o, c : Begin(TRUE, t, o, c) /\ c = initial_orchestrator_config(o, "minimal")
      BY <1>1, Zenon DEF OrchestratorAdd
    <2>2. ConfigShape(c)
      BY <2>1, InitialFact DEF Three
    <2> QED BY <2>1, <2>2
  <1>2. CASE OrchestratorRemove \/ SharedAccess \/ ProfileAdd \/ ProfileRemove \/ ProfileSetOrchestrator
    <2>1. \E t : Begin(TRUE, t, None, NoFile)
      BY <1>2, Zenon DEF OrchestratorRemove, SharedAccess, ProfileAdd, ProfileRemove,
                         ProfileSetOrchestrator, SettingsCommand
    <2> QED BY <2>1
  <1>3. CASE SetPrivateWorkspace
    <2>1. PICK o, t, c :
            /\ o \in Orchestrators /\ load_orchestrator_config(settings, o)
            /\ Begin(TRUE, t, o, c) /\ c = yaml[PathOf(settings, o)]
      BY <1>3, Zenon DEF SetPrivateWorkspace
    <2>2. ConfigShape(c)
      BY <2>1, LoadedShape
    <2> QED BY <2>1, <2>2
  <1>4. CASE EditCommand
    <2>1. PICK o, c :
            /\ o \in Orchestrators
            /\ load_orchestrator_config(settings, o) /\ c = yaml[PathOf(settings, o)]
            /\ \E new \in set_selector_agent_command(c) \cup set_default_workflow_command(c)
                          \cup cmd_orchestrator_agent(c) \cup cmd_workflow(c) :
                   Begin(FALSE, settings, o, new)
      BY <1>4, Zenon DEF EditCommand
    <2>2. ConfigShape(c)
      BY <2>1, LoadedShape
    <2> QED BY <2>1, <2>2, CommandEdits
  <1> QED BY <1>1, <1>2, <1>3, <1>4 DEF Command

\* A command's first step beside a session is recorded; without one it changes nothing else.
LEMMA LostBegin ==
  ASSUME LostInv, NEW new, NEW t, NEW o, NEW c, Begin(new, t, o, c), c = NoFile \/ ConfigShape(c)
  PROVE  LostInv'
  <1>1. /\ UNCHANGED <<files, view, draft, outcome>>
        /\ why' = IF view = Off THEN why ELSE why \cup {"command"}
    BY DEF Begin
  <1>2. PICK pc : cmd' = [pc |-> pc, s |-> t, o |-> o, c |-> c]
    BY DEF Begin
  <1>3. CommandShaped'
    <2>1. cmd'.c = c
      BY <1>2
    <2> QED BY <2>1 DEF CommandShaped
  <1>4. FilesShaped' /\ DraftShaped' /\ LocatedAt(view', draft')
    BY <1>1 DEF LostInv, FilesShaped, DraftShaped, Whole, files
  <1>5. why \subseteq why' /\ (Quiet' => Quiet)
    BY <1>1 DEF Quiet
  <1>6. Sound'
    BY <1>1, <1>5 DEF LostInv, Sound
  <1>7. Rooted'
    BY <1>1, <1>5 DEF LostInv, Rooted
  <1>8. Undisturbed'
    <2>1. view.at \in Editing => view # Off
      BY OffFields DEF Editing
    <2>2. view'.at \in Editing => "command" \in why'
      BY <1>1, <2>1
    <2> QED BY <2>2 DEF Undisturbed
  <1>9. DraftLostHasCause'
    BY <1>1, <1>5 DEF LostInv, DraftLostHasCause
  <1> QED BY <1>3, <1>4, <1>6, <1>7, <1>8, <1>9 DEF LostInv

\* The writes of a command.
LEMMA LostWrites ==
  ASSUME LostInv, Shaped, CommandWritesSettings \/ CommandWritesConfig \/ BreakCommand PROVE LostInv'
  <1>1. cmd # Nothing /\ UNCHANGED <<view, draft, outcome, why>>
    BY DEF CommandWritesSettings, CommandWritesConfig, BreakCommand, Nothing, session
  <1>2. DOMAIN yaml = Paths /\ cmd = [pc |-> cmd.pc, s |-> cmd.s, o |-> cmd.o, c |-> cmd.c]
    BY <1>1 DEF Shaped, CommandOK
  <1>3. cmd' = Nothing \/ (cmd' = [cmd EXCEPT !.pc = "config"])
    BY DEF CommandWritesSettings, CommandWritesConfig, BreakCommand
  <1>4. CommandShaped'
    <2>1. cmd' = Nothing \/ cmd'.c = cmd.c
      BY <1>2, <1>3
    <2> QED BY <1>1, <2>1 DEF LostInv, CommandShaped
  <1>5. FilesShaped'
    <2>1. CASE CommandWritesSettings
      BY <2>1 DEF CommandWritesSettings, LostInv, FilesShaped, Whole
    <2>2. ASSUME Savable(cmd.s, cmd.o, cmd.c) PROVE ConfigShape(cmd.c)
      <3>1. cmd.o \in Orchs /\ cmd.c.id = cmd.o
        BY <1>1, <2>2 DEF Savable, validate, Resolves, Shaped, CommandOK, SettingsOK, EntriesOK
      <3>2. cmd.c # NoFile
        BY <3>1, ConfigIsFile
      <3> QED BY <1>1, <3>2 DEF LostInv, CommandShaped
    <2>3. CASE CommandWritesConfig
      <3>1. PICK c, p : c = cmd.c /\ p = PathOf(cmd.s, cmd.o)
        OBVIOUS
      <3>2. CASE Savable(cmd.s, cmd.o, cmd.c)
        <4>1. yaml' = [yaml EXCEPT ![p] = c] /\ ConfigShape(c)
          BY <2>2, <2>3, <3>1, <3>2 DEF CommandWritesConfig, WriteConfig
        <4> QED BY <1>2, <4>1, WriteShaped DEF LostInv
      <3>3. CASE UNCHANGED yaml
        BY <3>3 DEF LostInv, FilesShaped, Whole
      <3> QED BY <2>3, <3>2, <3>3 DEF CommandWritesConfig
    <2>4. CASE BreakCommand
      <3>1. PICK how : Break(how, cmd.pc, cmd.s, cmd.o, cmd.c)
        BY <2>4 DEF BreakCommand
      <3> QED BY <2>2, <3>1, BreakShaped
    <2> QED BY <2>1, <2>3, <2>4
  <1>6. DraftShaped' /\ LocatedAt(view', draft') /\ Sound' /\ Rooted' /\ DraftLostHasCause'
    BY <1>1 DEF LostInv, DraftShaped, Sound, Quiet, Rooted, DraftLostHasCause
  <1>7. Undisturbed'
    <2>1. ~(view.at \in Editing /\ "command" \notin why)
      BY <1>1 DEF LostInv, Undisturbed
    <2> QED BY <1>1, <2>1 DEF Undisturbed
  <1> QED BY <1>4, <1>5, <1>6, <1>7 DEF LostInv

LEMMA LostScreen == ASSUME LostInv, Shaped, Screen PROVE LostInv'
  <1>1. CASE RootScreen \/ ManagerScreen
    BY <1>1, LostManager, LostFieldEdits, LostOpens, LostCancel, LostAdd, LostRemove
       DEF RootScreen, ManagerScreen
  <1>2. CASE DetailScreen \/ WorkflowsScreen \/ WorkflowScreen
    BY <1>2, LostOpens, LostEntryEdits, LostDefaultWorkflow, LostStarter, LostWorkflowManager,
       LostOpenSteps, LostRenameWorkflow
       DEF DetailScreen, WorkflowsScreen, WorkflowScreen
  <1>3. CASE StepsScreen \/ StepScreen \/ AgentsScreen \/ AgentDetailEdit \/ Back
    BY <1>3, LostOpens, LostStepManager, LostRenameStep, LostStepDetail, LostStepContract,
       LostAgentManager, LostAgentDetail, LostBack
       DEF StepsScreen, StepScreen, AgentsScreen
  <1> QED BY <1>1, <1>2, <1>3 DEF Screen

LEMMA LostNext == ValidInv /\ LostInv /\ [Next]_vars => LostInv'
  <1> SUFFICES ASSUME ValidInv, LostInv, [Next]_vars PROVE LostInv'
    OBVIOUS
  <1>1. Shaped
    BY DEF ValidInv
  <1>2. CASE UNCHANGED vars
    BY <1>2 DEF vars, LostInv, FilesShaped, Whole, DraftShaped, CommandShaped, Sound, Quiet, Rooted,
                Undisturbed, DraftLostHasCause
  <1>3. CASE cmd_setup
    BY <1>1, <1>3, LostSetup
  <1>4. CASE Screen
    BY <1>1, <1>4, LostScreen
  <1>5. CASE Persist
    BY <1>1, <1>5, LostNormalize, LostPersistFails, LostPersistSettings, LostPersistConfig,
       LostBreakSetup DEF Persist
  <1>6. CASE Command
    BY <1>1, <1>6, CommandBegins, LostBegin, LostWrites
  <1> QED BY <1>2, <1>3, <1>4, <1>5, <1>6 DEF Next

\* An error of a screen throws the draft away, and the final save is refused, only after
\* something that may have spoilt the draft: invalid files at the start, an edit that
\* skips or ignores validation, an edit of a field the draft does not check, a command run
\* beside the session, or a directory that could not be made.  A save that passed these
\* checks ends half way only for a relative workspace, the path of a prompt, or a file,
\* directory or mount that could not be made (run_setup_tui, persist_setup_state).
THEOREM DraftsLostForCause == Spec => []DraftLostHasCause
  <1>1. LostInv => DraftLostHasCause
    BY DEF LostInv
  <1>2. Spec => []LostInv
    BY LostInit, LostNext, ValidAlways, PTL DEF Spec
  <1> QED BY <1>1, <1>2, PTL

=============================================================================
