------------------------------ MODULE Assignment ------------------------------
(***************************************************************************)
(* From a task contract to the packet a worker is given: a plan is         *)
(* decomposed and revised, its capabilities are admitted, a durable job    *)
(* header is sealed and a worker request is assembled from all of them     *)
(* (gpb_*.py, gpc_*.py, gpd_job_header.py, create_worker_request in        *)
(* gpe_protocol.py).                                                       *)
(*                                                                         *)
(* Plans and decisions live in the memory of the process; the header is in *)
(* the job's ledger and survives a release, which may protect other files. *)
(* The caller may bring any of these together in any order.                *)
(***************************************************************************)
EXTENDS Admission

CONSTANTS
  Registries,     \* the protected files of each release, oldest first
  TaskContracts,  \* contracts that are proposed
  Models,         \* system models
  Revisions,      \* lists of operations that are proposed
  RequestSets,    \* capability requests of one admission
  Ceilings,       \* departures of a header from the decision it is made for
  Unset           \* nothing yet

ASSUME AssignmentAssumption ==
  /\ Registries \in Seq(SUBSET Seq(STRING))
  /\ \A ops \in Revisions : \A i \in DOMAIN ops :
       ops[i].id # << >> => NodeAccepted(ops[i].id, ops[i].node)
  /\ \A requests \in RequestSets : \A r \in requests : r.budget \in Nat \cup {Uncapped}

VARIABLES
  release,    \* the release that runs
  execution,  \* the execution plan the caller holds
  decision,   \* the admission decision the caller holds
  header,     \* the durable header of the job
  packet      \* the bounds in the worker request the latest call returned, made
              \* of the plan and the header that are held

assignmentVars == <<release, execution, decision, header, packet>>

Protects == Registries[release]

AssignmentInit ==
  /\ release = 1
  /\ execution = Unset /\ decision = Unset /\ header = Unset /\ packet = Unset

Propose(contract, model) ==
  /\ TaskContractAccepted(contract)
  /\ execution' = Decompose(contract, CollectEvidence(model, Protects, contract.allowed))
  /\ packet' = Unset
  /\ UNCHANGED <<release, decision, header>>

ReviseExecutionPlan(ops) ==
  /\ execution # Unset
  /\ RevisionApplies(execution.contract, execution, ops)
  /\ execution' = Revise(execution.contract, execution, ops)
  /\ packet' = Unset
  /\ UNCHANGED <<release, decision, header>>

AdmitCapabilities(contract, requests) ==
  /\ execution # Unset /\ InputAccepted(contract, execution, requests)
  /\ decision' = AdmissionDecision(contract, execution, requests, Protects)
  /\ packet' = Unset
  /\ UNCHANGED <<release, execution, header>>

\* create_durable_job_header: its ceilings are whatever its maker gives it.
CreateHeader(ceilings) ==
  /\ header = Unset /\ decision # Unset
  /\ header' = [decision |-> decision,
                allowed |-> (decision.contract.allowed \ ceilings.notAllowed)
                              \cup ceilings.alsoAllowed,
                forbidden |-> decision.contract.forbidden \ ceilings.notForbidden,
                capabilities |-> Admitted(decision) \cup ceilings.alsoAdmitted,
                gates |-> decision.contract.gates \ ceilings.notGated,
                ceiling |-> IF ceilings.uncapped THEN Uncapped ELSE decision.contract.ceiling]
  /\ packet' = Unset
  /\ UNCHANGED <<release, execution, decision>>

\* What create_worker_request compares.
Bound(contract, plan) ==
  /\ header.decision = decision
  /\ decision.plan = plan /\ decision.contract = contract /\ plan.contract = contract
CeilingsKept(contract) ==
  /\ header.allowed \subseteq contract.allowed
  /\ contract.forbidden \subseteq header.forbidden
  /\ contract.gates \subseteq header.gates
  /\ header.capabilities \subseteq Admitted(decision)
  /\ contract.ceiling # Uncapped =>
       header.ceiling # Uncapped /\ header.ceiling <= contract.ceiling

\* Mutant: a bound is taken over for its capability, whatever its row decided.
BoundsOfCapability(capabilities) ==
  {r \in DOMAIN decision.rows : r.capability \in capabilities}

\* The bounds a packet carries are those of the rows that were admitted.
Bounds(capabilities) ==
  {r \in DOMAIN decision.rows :
     decision.rows[r] = "allow_within_bound" /\ r.capability \in capabilities}

CreateWorkerRequest(contract) ==
  /\ Unset \notin {execution, decision, header}
  /\ Bound(contract, execution) /\ CeilingsKept(contract)
  /\ {r.capability : r \in Bounds(header.capabilities)} = header.capabilities
  /\ packet' = Bounds(header.capabilities)
  /\ UNCHANGED <<release, execution, decision, header>>

\* A new release starts with the ledger and nothing else.
Release ==
  /\ release < Len(Registries)
  /\ release' = release + 1
  /\ execution' = Unset /\ decision' = Unset /\ packet' = Unset
  /\ UNCHANGED header

AssignmentNext ==
  \/ \E contract \in TaskContracts, model \in Models : Propose(contract, model)
  \/ \E ops \in Revisions : ReviseExecutionPlan(ops)
  \/ \E contract \in TaskContracts, requests \in RequestSets :
        AdmitCapabilities(contract, requests)
  \/ \E ceilings \in Ceilings : CreateHeader(ceilings)
  \/ \E contract \in TaskContracts : CreateWorkerRequest(contract)
  \/ Release

AssignmentSpec == AssignmentInit /\ [][AssignmentNext]_assignmentVars

-------------------------------------------------------------------------------

\* Whatever plan, decision and header were brought together, and whatever
\* release they were made under, a worker is given no capability a person must
\* grant, no path outside the contract or protected by the running release, no
\* budget above the contract's, no write without a gate, and a plan that keeps
\* the contract and can be carried out (create_worker_request).
AuthorityNeverWidens ==
  packet \notin {Unset, {}} =>
    LET contract == execution.contract
        nodes == execution.nodes IN
    /\ \A bound \in packet :
         /\ bound.capability \notin HumanGated
         /\ bound.scope \cap Protects = {}
         /\ \A path \in bound.scope :
              Under(path, contract.allowed) /\ ~Under(path, contract.forbidden)
         /\ contract.ceiling # Uncapped =>
              bound.budget # Uncapped /\ bound.budget <= contract.ceiling
         /\ bound.capability \in WriteCapabilities => header.gates # {}
    /\ \A id \in DOMAIN nodes :
         /\ nodes[id].scope \subseteq contract.allowed
         /\ contract.forbidden \subseteq nodes[id].forbidden
    /\ ~HasCycle(nodes, execution.edges)

\* What docs/future/CONTINUOUS_BUILDER_GPC_TRUSTED_ADMISSION.md:70-71 says:
\* where decomposing the contract asked for escalation, nothing is admitted
\* without a person.  revise_execution_plan seals its plan without the
\* escalation of the plan it revises, even when it is given no operation.
EscalationBlocksAdmission ==
  decision # Unset =>
    \/ Decompose(decision.contract, decision.plan.evidence).escalation = {}
    \/ Admitted(decision) = {}
===============================================================================
