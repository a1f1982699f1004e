--------------------------- MODULE CompositionPlan ---------------------------
(***************************************************************************)
(* The pure half of V0.4D tool composition: which mission proposals exist  *)
(* (backend/composition_proposal.py) and which of them the registry can    *)
(* carry out (backend/composition_feasibility.py).                         *)
(*                                                                         *)
(* A proposal is a sequence of steps with its budget.  A step names its    *)
(* tool, the risk and capability it expects, the steps it comes after, the *)
(* type of every result field later steps may use, and one binding for     *)
(* each argument.  Bindings, prerequisites and declared outputs are a      *)
(* function or a set here, which is what their uniqueness checks say.      *)
(* A registered tool is a record of the facts the binding reads.           *)
(***************************************************************************)
EXTENDS Naturals, Sequences, FiniteSets

MaxSteps == 8
MaxBindings == 16
MaxOutputs == 16

ReadOnly == "read_only"
InternalWrite == "internal_write"
HighRisk == "high_risk"

\* The tools of the ADR-040 mission, in their one order: four reads, a write.
BaselineToolOrder ==
  <<"projects.overview", "tasks.status_summary", "tasks.list",
    "memory.search", "tasks.create">>

BaselineTools == {BaselineToolOrder[i] : i \in DOMAIN BaselineToolOrder}

Transforms == {"exact_copy", "select_project", "integer_to_text", "fixed_title"}

\* Arguments a result may never decide.
AuthorityArguments ==
  {"tool_name", "capability_id", "risk", "schema", "executor", "budget", "approval"}

LiteralBinding(value, type) ==
  [kind |-> "literal", value |-> value, type |-> type]

ResultBinding(step, field, transform) ==
  [kind |-> "result", step |-> step, field |-> field, transform |-> transform]

----------------------------------------------------------------------------
(* Proposals.                                                              *)

ResultSources(step) ==
  {step.bindings[a].step :
     a \in {b \in DOMAIN step.bindings : step.bindings[b].kind = "result"}}

StepWellFormed(step) ==
  /\ step.risk \in {ReadOnly, InternalWrite}
  /\ Cardinality(DOMAIN step.bindings) <= MaxBindings
  /\ Cardinality(DOMAIN step.outputs) <= MaxOutputs
  /\ \A a \in DOMAIN step.bindings :
       step.bindings[a].kind = "result" => step.bindings[a].transform \in Transforms

StepIds(steps) == {steps[i].id : i \in DOMAIN steps}

StepNamed(steps, id) == steps[CHOOSE i \in DOMAIN steps : steps[i].id = id]

\* visit() meets no cycle: every set of steps has one that needs no other.
Acyclic(steps) ==
  \A S \in SUBSET StepIds(steps) \ {{}} :
    \E id \in S : StepNamed(steps, id).prerequisites \cap S = {}

GraphIsValid(steps) ==
  /\ \A i \in DOMAIN steps :
       LET references == steps[i].prerequisites \cup ResultSources(steps[i]) IN
         references \subseteq StepIds(steps) \ {steps[i].id}
  /\ Acyclic(steps)

\* CompositionMissionProposal exists only if all of this holds.
ProposalAccepted(p) ==
  /\ Len(p.steps) \in 1 .. MaxSteps
  /\ \A i \in DOMAIN p.steps : StepWellFormed(p.steps[i])
  /\ Cardinality(StepIds(p.steps)) = Len(p.steps)
  /\ GraphIsValid(p.steps)
  /\ \A i \in DOMAIN p.steps :
       ResultSources(p.steps[i]) \subseteq p.steps[i].prerequisites
  /\ p.budget = [calls |-> 5, identical |-> 2, failures |-> 2]

----------------------------------------------------------------------------
(* Feasibility.                                                            *)

DeclaredType(steps, b) ==
  LET outputs == StepNamed(steps, b.step).outputs IN
    IF b.field \in DOMAIN outputs THEN outputs[b.field] ELSE "missing"

\* The type of what the binding yields; "missing" when it yields nothing.
BindingOutputType(b, source) ==
  CASE b.kind = "literal" -> b.type
    [] b.kind = "result" /\ b.transform = "exact_copy" -> source
    [] b.kind = "result" /\ b.transform = "select_project" /\ source = "array" -> "string"
    [] b.kind = "result" /\ b.transform \in {"integer_to_text", "fixed_title"}
         /\ source = "integer" -> "string"
    [] OTHER -> "missing"

Compatible(source, destination) ==
  source = destination \/ (source = "integer" /\ destination = "number")

BindingFits(b, destination, steps) ==
  LET source == IF b.kind = "result" THEN DeclaredType(steps, b) ELSE "missing" IN
    /\ b.kind = "result" => source # "missing"
    /\ BindingOutputType(b, source) # "missing"
    /\ Compatible(BindingOutputType(b, source), destination)

\* _step_reason finds nothing against running the step with this definition.
StepFits(step, definition, p, registry) ==
  /\ definition.risk # HighRisk
  /\ definition.risk = step.risk
  /\ step.capability \in definition.capabilities
  /\ definition.dependsOn \subseteq DOMAIN registry
  /\ definition.closed
  /\ definition.required \subseteq DOMAIN step.bindings
  /\ DOMAIN step.bindings \subseteq DOMAIN definition.properties
  /\ \A a \in DOMAIN step.bindings :
       BindingFits(step.bindings[a], definition.properties[a], p.steps)
  /\ \A a \in DOMAIN step.bindings :
       step.bindings[a].kind = "result" => a \notin AuthorityArguments

\* _resolve returns no blocking reason for an authoritative proposal (that
\* is: for one that satisfies ProposalAccepted when it is built once more).
Resolves(p, registry) ==
  /\ [i \in DOMAIN p.steps |-> p.steps[i].tool] = BaselineToolOrder
  /\ Len(p.steps) <= p.budget.calls
  /\ p.steps[Len(p.steps)].risk = InternalWrite
  /\ \A i \in 1 .. (Len(p.steps) - 1) : p.steps[i].risk = ReadOnly
  /\ \A i \in DOMAIN p.steps :
       /\ p.steps[i].tool \in DOMAIN registry
       /\ StepFits(p.steps[i], registry[p.steps[i].tool], p, registry)

\* The facts of the tools the plan is bound to: their snapshot digest.
BoundFacts(p, registry) ==
  [i \in DOMAIN p.steps |-> registry[p.steps[i].tool]]

\* bind_composition_feasibility: a plan with no bound step is not feasible.
BindFeasibility(p, registry) ==
  [proposal |-> p,
   facts    |-> IF Resolves(p, registry) THEN BoundFacts(p, registry) ELSE << >>]

Feasible(plan) == plan.facts # << >>

\* Compared again, whole, before every step of the run.
RegistryMatches(plan, registry) ==
  LET rebound == BindFeasibility(plan.proposal, registry) IN
    Feasible(rebound) /\ rebound = plan
=============================================================================
