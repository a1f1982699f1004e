---------------------------- MODULE TrustedPolicy ----------------------------
(***************************************************************************)
(* The registry of protected files (trusted_policy.py) and the admission   *)
(* of a set of changed paths against it (trusted_policy_enforcement.py).   *)
(*                                                                         *)
(* Decisions, receipts and admissions are sealed records, so two of them   *)
(* with the same digest are equal.  The registry is compiled in: within a  *)
(* process it never changes, and the receipts cannot leave the process.    *)
(***************************************************************************)
EXTENDS Naturals, FiniteSets, SequencesExt

CONSTANTS
  Paths,            \* spellings of repository paths
  Fold,             \* casefold of each
  Refusal,          \* the reason code of each spelling that is refused
  MaxChangedPaths,
  Inventories,      \* path lists an admission is asked about
  RequestOf,        \* the worker request of each candidate it may be given
  Absent            \* an argument that is None

\* The module that holds the registry.
SelfPath == "trusted_policy.py"

\* create_mootos_tcb_registry_v1: its components, with the files they own
\* (all but the publication one under backend/continuous_builder).
Review(paths) == [policy |-> "protected_core_review", paths |-> paths]
HumanOnly(paths) == [policy |-> "human_only", paths |-> paths]

Registry ==
  [cb_artifact_intake       |-> Review({"worker_artifact.py"}),
   cb_capability_admission  |-> HumanOnly({"gpc_trusted_admission_core.py"}),
   cb_approval_authority    |-> HumanOnly({"chief_builder.py"}),
   cb_check_runner          |-> Review({"check_runner.py", "check_runtime.py"}),
   cb_publication_authority |-> HumanOnly({"pr_publication_authorization.py"}),
   cb_runtime_enforcement   |-> Review({"runtime_enforcement.py"}),
   cb_sandbox_policy        |-> Review({"sandbox_policy.py"}),
   cb_trusted_policy        |-> HumanOnly({SelfPath, "trusted_policy_enforcement.py"}),
   cb_verifier_core         |-> Review({"adversarial_verifier.py", "verifier_core.py"}),
   cb_worker_authorization  |-> Review({"worker_authorization.py"})]

Protected == UNION {Registry[c].paths : c \in DOMAIN Registry}

\* component_for_path
ComponentForPath(p) == CHOOSE c \in DOMAIN Registry : p \in Registry[c].paths

\* What TrustedComponent and TrustedPolicyRegistry insist on; a registry that
\* does not meet it cannot be constructed.
RegistryIsCanonical ==
  /\ Protected \subseteq Paths \ DOMAIN Refusal
  /\ SelfPath \in Protected
  /\ \A p, q \in Protected : Fold[p] = Fold[q] => p = q
  /\ \A c \in DOMAIN Registry : Registry[c].paths # {}
  /\ \A c, d \in DOMAIN Registry :
       c # d => Registry[c].paths \cap Registry[d].paths = {}

ASSUME RegistryAssumption ==
  /\ Fold \in [Paths -> Paths]
  /\ DOMAIN Refusal \subseteq Paths
  /\ MaxChangedPaths \in Nat
  /\ Inventories \subseteq Seq(Paths)
  /\ RegistryIsCanonical

VARIABLES
  admission,  \* the latest admission, with the prior receipt it was given
  kept        \* the decision receipt the caller was given last

policyVars == <<admission, kept>>

------------------------------------------------------------------------------
(* evaluate_changed_paths_against_tcb *)

Severity ==
  [ordinary |-> 0, review |-> 1, forbidden |-> 2, uncertain |-> 3, malformed |-> 4]

PolicyOutcome ==
  [protected_core_review |-> "review", human_only |-> "forbidden",
   trusted_system_only |-> "forbidden"]

PathOutcome(p) ==
  IF p \in Protected THEN PolicyOutcome[Registry[ComponentForPath(p)].policy]
  ELSE "ordinary"

Decide(outcome, paths, reasons, count) ==
  [outcome |-> outcome, paths |-> paths, reasons |-> reasons, count |-> count]

FailClosed(reasons, count) == Decide("malformed", {}, reasons, count)

Accepted(input, i) == input[i] \notin DOMAIN Refusal

\* The accepted entries before entry i that are the same path but for case.
Twins(input, i) ==
  {j \in 1..(i - 1) : Accepted(input, j) /\ Fold[input[j]] = Fold[input[i]]}

\* Why entries are refused: their spelling, or an earlier entry like them.
Refusals(input) ==
  {Refusal[input[i]] : i \in {i \in DOMAIN input : ~Accepted(input, i)}}
  \cup {IF input[Min(Twins(input, i))] = input[i] THEN "path_duplicate"
        ELSE "path_case_collision" :
          i \in {i \in DOMAIN input : Accepted(input, i) /\ Twins(input, i) # {}}}

\* The outcome of a set of paths is the worst of theirs.
Classified(paths, count) ==
  LET outcomes == {PathOutcome(p) : p \in paths}
      worst == CHOOSE o \in outcomes : \A q \in outcomes : Severity[q] <= Severity[o]
      reasons ==
        (IF worst = "ordinary" THEN {"all_ordinary_paths"} ELSE {"tcb_path_detected"})
        \cup (IF "review" \in outcomes THEN {"tcb_protected_core_review"} ELSE {})
        \cup (IF "forbidden" \in outcomes THEN {"tcb_change_forbidden"} ELSE {})
  IN Decide(worst, paths, reasons, count)

\* A path that is protected but for its case goes through as an ordinary one.
EvaluateByExactName(input) ==
  IF Len(input) > MaxChangedPaths THEN FailClosed({"changed_paths_exceed_bound"}, 0)
  ELSE IF input = << >> THEN Decide("ordinary", {}, {"empty_change_set"}, 0)
  ELSE IF Refusals(input) # {} THEN FailClosed(Refusals(input), Len(input))
  ELSE Classified(ToSet(input), Len(input))

Evaluate(input) ==
  IF Len(input) > MaxChangedPaths THEN FailClosed({"changed_paths_exceed_bound"}, 0)
  ELSE IF input = << >> THEN Decide("ordinary", {}, {"empty_change_set"}, 0)
  ELSE IF Refusals(input) # {} THEN FailClosed(Refusals(input), Len(input))
  ELSE IF \E p \in ToSet(input) \ Protected, q \in Protected : Fold[p] = Fold[q]
       THEN FailClosed({"tcb_case_collision"}, Len(input))
  ELSE Classified(ToSet(input), Len(input))

------------------------------------------------------------------------------
(* admit_changed_paths_against_tcb *)

\* create_trusted_policy_decision_receipt
DecisionReceipt(decision, candidate, request, identity) ==
  [decision |-> decision, candidate |-> candidate, request |-> request,
   identity |-> identity]

\* A prior receipt is of another decision or path set, or names another
\* candidate or request.  One that names none is as good as one that names
\* the right one.
Stale(prior, decision, candidate, request) ==
  \/ prior.decision # decision
  \/ candidate # Absent /\ prior.candidate \notin {Absent, candidate}
  \/ request # Absent /\ prior.request \notin {Absent, request}

\* What the decision about the inventory comes to: input may be Absent, and so
\* may declared, the paths the worker says it changed.
AdmissionStatus(input, decision, candidate, request, declared, prior) ==
  IF input = Absent THEN "inventory_incomplete"
  ELSE IF declared # Absent /\
          LET said == Evaluate(declared) IN
          said.paths # decision.paths \/ said.outcome # decision.outcome
       THEN "identity_mismatch"
  ELSE IF prior # Absent /\ Stale(prior, decision, candidate, request)
       THEN "stale_receipt"
  ELSE decision.outcome

\* The identity the receipt records: where its paths came from.
InputIdentity(input, status) ==
  IF input = Absent THEN "inventory_missing"
  ELSE IF status = "identity_mismatch" THEN "worker_path_disagreement"
  ELSE "authoritative_inventory"

AdmitChangedPaths(input, candidate, request, declared, prior) ==
  LET decision == Evaluate(IF input = Absent THEN << >> ELSE input)
      status == AdmissionStatus(input, decision, candidate, request, declared, prior)
  IN [status |-> status, inventory |-> input, declared |-> declared,
      candidate |-> candidate, request |-> request, prior |-> prior,
      receipt |-> DecisionReceipt(decision, candidate, request,
                                  InputIdentity(input, status))]

\* tcb_failure_codes_for_admission: the codes are named after the statuses.
AdmissionFailures(admitted) ==
  IF admitted.status = "ordinary" THEN {} ELSE {admitted.status}

------------------------------------------------------------------------------
(* A caller that keeps the latest receipt and may come back with it. *)

PolicyInit == admission = Absent /\ kept = Absent

Admit(input, candidate, declared, prior) ==
  LET request == IF candidate = Absent THEN Absent ELSE RequestOf[candidate] IN
  /\ admission' = AdmitChangedPaths(input, candidate, request, declared, prior)
  /\ kept' = admission'.receipt

PolicyNext ==
  \E input, declared \in Inventories \cup {Absent},
     candidate \in DOMAIN RequestOf \cup {Absent}, prior \in {kept, Absent} :
    Admit(input, candidate, declared, prior)

PolicySpec == PolicyInit /\ [][PolicyNext]_policyVars

\* Paths that an admission lets continue are safe to apply, whatever the
\* worker declared and whichever receipt the caller came with: none is a
\* protected file under any letter case, no two are one file on a file system
\* that ignores case, the worker named the same ones, and a receipt it rests on
\* let the same paths continue and names no other candidate.
ContinuationIsSafe ==
  admission # Absent /\ admission.status = "ordinary" =>
    LET paths == ToSet(admission.inventory) IN
    /\ \A p \in paths, q \in Protected : Fold[p] # Fold[q]
    /\ Cardinality({Fold[p] : p \in paths}) = Len(admission.inventory)
    /\ paths \cap DOMAIN Refusal = {}
    /\ admission.declared # Absent => ToSet(admission.declared) = paths
    /\ admission.prior # Absent =>
         /\ admission.prior.identity = "inventory_missing" => paths = {}
         /\ admission.prior.decision.paths = paths
         /\ admission.prior.decision.outcome = "ordinary"
         /\ Cardinality({admission.candidate, admission.prior.candidate} \ {Absent}) <= 1
==============================================================================
