------------------------------ MODULE Admission ------------------------------
(***************************************************************************)
(* GP-C: what an admission decides for the capabilities a plan asks for    *)
(* (gpc_trusted_admission_core.py, gpc_admission_input.py,                 *)
(* gpc_admission_decision.py, gpc_capability_vocabulary.py), as operators. *)
(*                                                                         *)
(* Every rule of the core replaces an outcome by a more severe one, so the *)
(* outcome of a request is the most severe any rule asks for.  The three   *)
(* budgets are one.  Left out: what a row names for the reader (reasons,   *)
(* rules), the worker's claims, which change no outcome, and the system    *)
(* model's digest, which is never given an expected value.                 *)
(***************************************************************************)
EXTENDS PlanRules
LOCAL INSTANCE SequencesExt

\* default_outcome_for_capability
DefaultDeny == {"cb.production.data"}
DefaultAllow ==
  {"cb.repo.read", "cb.file.read_bounded", "cb.file.write_bounded",
   "cb.test.exec", "cb.git.branch_worktree", "cb.github.metadata"}
HumanGated ==
  {"cb.pr.create", "cb.network", "cb.credentials", "cb.db.schema",
   "cb.production.data", "cb.deploy.staging", "cb.trusted_policy.change",
   "cb.tcb.change", "cb.approval_rules.change", "cb.main.merge",
   "cb.main.advance", "cb.subprocess", "cb.sandbox.container", "cb.verifier.exec"}
CapabilityIds == DefaultAllow \cup HumanGated

PolicyCapabilities ==
  {"cb.trusted_policy.change", "cb.tcb.change", "cb.approval_rules.change",
   "cb.main.merge", "cb.main.advance", "cb.production.data", "cb.db.schema",
   "cb.deploy.staging", "cb.credentials", "cb.network"}
WriteCapabilities ==
  {"cb.file.write_bounded", "cb.trusted_policy.change", "cb.tcb.change",
   "cb.approval_rules.change", "cb.db.schema"}
ElevatedRisk ==
  {"tcb_adjacent", "security_sensitive", "schema_migration",
   "irreversible_change", "policy_sensitive"}

OutcomeSeverity ==
  [allow_within_bound |-> 0, require_human_approval |-> 1, escalate |-> 2,
   insufficient_evidence |-> 3, deny |-> 4]

\* _severe, of any number of outcomes.
MostSevere(outcomes) ==
  CHOOSE o \in outcomes : \A x \in outcomes : OutcomeSeverity[x] <= OutcomeSeverity[o]

\* lookup_matrix_outcome
MatrixOutcome(capability) ==
  CASE capability \notin CapabilityIds -> "insufficient_evidence"
    [] capability \in DefaultDeny -> "deny"
    [] capability \in HumanGated \ DefaultDeny -> "require_human_approval"
    [] capability \in DefaultAllow -> "allow_within_bound"

\* _path_in_prefixes
Under(path, prefixes) == \E prefix \in prefixes : IsPrefix(prefix, path)

\* evaluate_scope_risk_tcb
ScopeOutcomes(request, contract, escalation, registry) ==
  IF MatrixOutcome(request.capability) = "insufficient_evidence" THEN {}
  ELSE
  When("deny",
       \E path \in request.scope :
          Under(path, contract.forbidden) \/ ~Under(path, contract.allowed))
  \cup
  When("require_human_approval",
       \/ request.scope \cap registry # {}
       \/ request.capability \in PolicyCapabilities
       \/ /\ request.capability \in WriteCapabilities
          /\ contract.risk \cap ElevatedRisk # {} \/ contract.gates = {})
  \cup
  When("escalate", escalation # {})

\* evaluate_budget_constraints
BudgetOutcomes(request, contract) ==
  IF contract.ceiling = Uncapped THEN {}
  ELSE IF request.budget = Uncapped THEN {"require_human_approval"}
  ELSE When("deny", request.budget > contract.ceiling)

\* _evaluate_one: a gate of the matrix or of the request, and the marks the
\* request's evidence carries.
GateOutcomes(request) ==
  When("require_human_approval",
       \/ request.humanGate
       \/ request.capability \in HumanGated
       \/ request.capability \notin CapabilityIds)
EvidenceOutcomes(request) ==
  When("deny", request.evidence \cap {"budget_increase", "gate_removed", "scope_broadened",
                                      "forged_decision"} # {})
  \cup When("insufficient_evidence", "unsupported_capability" \in request.evidence)

RequestOutcome(request, contract, escalation, registry) ==
  MostSevere({MatrixOutcome(request.capability)}
               \cup ScopeOutcomes(request, contract, escalation, registry)
               \cup BudgetOutcomes(request, contract)
               \cup GateOutcomes(request) \cup EvidenceOutcomes(request))

\* create_admission_input: at least one request, and a plan of the contract.
InputAccepted(contract, plan, requests) ==
  requests # {} /\ plan.contract = contract

\* admit_from_trusted_facts, for an input made and judged under the same
\* registry, as it is compiled into the process.
AdmissionDecision(contract, plan, requests, registry) ==
  [contract |-> contract, plan |-> plan, registry |-> registry,
   rows |-> [r \in requests |-> RequestOutcome(r, contract, plan.escalation, registry)]]

\* admitted_within_bound: a capability can be in it and also be denied, when
\* it was asked for twice.
Admitted(decision) ==
  {r.capability : r \in {x \in DOMAIN decision.rows :
                           decision.rows[x] = "allow_within_bound"}}
=============================================================================
