-------------------------- MODULE TrustChainProofs ---------------------------
(***************************************************************************)
(* Proofs about how what a worker handed in is judged. An accepted trust-  *)
(* chain proof is sound for any number of executions, staging directories, *)
(* artifact sets and tasks, and whichever receipts the caller mixes: a     *)
(* provenance receipt tells the truth about the stdout of an execution     *)
(* that has returned, and what an execution returned is never replaced.    *)
(* Paths the trusted policy lets continue are safe, for any spellings and  *)
(* inventories. The trusted checks and the held-out verdict are earned,    *)
(* for plans of any length, with a daemon that acts late and a workspace   *)
(* others write.                                                           *)
(***************************************************************************)
EXTENDS TrustChain, CandidateChecks, SequenceTheorems, FiniteSetTheorems, TLAPS

------------------------------------------------------------------------------
(* The trust chain (trust_chain_proof.py and what it rests on).            *)

\* A bridge stages only the output of an execution that has returned.
StagedReturned == \A x \in Executions : bridge[x] = "staged" => Returned(x)

Inv == TypeOK /\ StagedReturned /\ ProvenanceIsTrue /\ AcceptedIsSound

\* The supervisor classifies an execution as succeeded only when the receipt
\* itself says so, of a worker that was not timed out and was cleaned up.
LEMMA SucceededIsClean ==
  ASSUME NEW r, NEW obs, NEW status,
         Classify(r, obs, status) = "succeeded"
  PROVE  r.final = "succeeded" /\ r.code = "zero" /\ ~r.timed /\ r.cleaned
BY DEF Classify, Uncertain, CleanupUncertain

\* What a step leaves alone: once an execution has returned, no step changes
\* its receipt or its stdout.
LEMMA ReturnedIsFinal ==
  ASSUME TypeOK, [Next]_vars, NEW x \in Executions, Returned(x)
  PROVE  receipt'[x] = receipt[x] /\ stdout'[x] = stdout[x]
<1>1. CASE UNCHANGED vars
  BY <1>1 DEF vars
<1>2. ASSUME NEW y \in Executions, NEW r \in Observed,
             NEW out \in Outputs \cup {Unusable}, Execute(y, r, out)
      PROVE  receipt'[x] = receipt[x] /\ stdout'[x] = stdout[x]
  BY <1>2 DEF Execute, TypeOK, Returned
<1>3. ASSUME NEW y \in Executions, BridgeStage(y) \/ BridgeIntake(y)
      PROVE  receipt'[x] = receipt[x] /\ stdout'[x] = stdout[x]
  BY <1>3 DEF BridgeStage, BridgeIntake
<1>4. ASSUME NEW n \in ExecutionIds, NEW content \in Outputs \cup {None},
             WriteStaging(n, content)
      PROVE  receipt'[x] = receipt[x] /\ stdout'[x] = stdout[x]
  BY <1>4 DEF WriteStaging
<1>5. ASSUME NEW t \in Tasks, NEW y \in Executions, BuildProof(t, y)
      PROVE  receipt'[x] = receipt[x] /\ stdout'[x] = stdout[x]
  BY <1>5 DEF BuildProof
<1> QED BY <1>1, <1>2, <1>3, <1>4, <1>5 DEF Next

\* An intake result can still be held after the step.
LEMMA IntakeResultsGrow ==
  ASSUME TypeOK, [Next]_vars
  PROVE  IntakeResults \subseteq IntakeResults'
BY ReturnedIsFinal DEF IntakeResults, Returned

\* What is issued by the bridge is an intake result of an execution that has
\* returned, and true when it is not rejected.
LEMMA BridgeIssuesTruth ==
  ASSUME TypeOK, NEW x \in Executions, BridgeIntake(x), NEW p \in provenance',
         p \notin provenance
  PROVE  /\ p.exec = x /\ p.artifacts \in Outputs
         /\ p = [exec |-> x, artifacts |-> p.artifacts]
         /\ ~HasSecret(p.artifacts) => p.artifacts = stdout[x]
<1> DEFINE a == staging[ExecutionId[x]]
<1>1. a # None /\ Matches(x, a) /\ p = [exec |-> x, artifacts |-> a]
  BY DEF BridgeIntake, Issue
<1>2. a \in Outputs
  BY <1>1, ChainAssumption DEF TypeOK
<1> QED BY <1>1, <1>2 DEF Matches
\* The builder accepts only sound evidence: by GatesBound and EvidenceBound the
\* decision, the gates' receipts and the provenance receipt are all about the
\* execution and the intake result given.
LEMMA BuilderAcceptsSound ==
  ASSUME TypeOK, ProvenanceIsTrue, NEW t \in Tasks, NEW x \in Executions,
         BuildProof(t, x)
  PROVE  /\ proof' \in [task: Tasks, exec: Executions, artifacts: Outputs]
         /\ AcceptedIsSound'
<1>1. PICK i \in IntakeResults, i3 \in Quarantined, i4 \in Quarantined,
           t3 \in Tasks, t4 \in Tasks :
        /\ GatesBound(t, x, i, BlastReceipt(t3, i3), VerificationReceipt(t4, i4))
        /\ \E d \in Decisions, p \in provenance \cup {None} :
             /\ EvidenceBound(x, i, d, p)
             /\ Accepts(d, i, BlastReceipt(t3, i3), VerificationReceipt(t4, i4), p)
        /\ proof' = [task |-> t, exec |-> x, artifacts |-> i.artifacts]
        /\ UNCHANGED <<receipt, stdout>>
  BY DEF BuildProof
<1>2. PICK d \in Decisions, p \in provenance \cup {None} :
        /\ EvidenceBound(x, i, d, p)
        /\ Accepts(d, i, BlastReceipt(t3, i3), VerificationReceipt(t4, i4), p)
  BY <1>1
<1>3. i.exec = x /\ i.artifacts \in Outputs
  BY <1>1 DEF GatesBound, IntakeResults
<1>4. Within(t, i.artifacts) /\ Passes(t, i.artifacts) /\ ~HasSecret(i.artifacts)
  BY <1>1, <1>2 DEF GatesBound, BlastReceipt, VerificationReceipt, Accepts
<1>5. i.artifacts = stdout[x]
  BY <1>2, <1>3, <1>4 DEF Accepts, EvidenceBound, ProvenanceIsTrue
<1>6. PICK y \in Executions, obs \in Observations,
           a \in Outputs \cup {None}, kill \in BOOLEAN : d = Decision(y, obs, a, kill)
  BY <1>2 DEF Decisions
<1>7. d.exec = x /\ d.class = "succeeded"
  BY <1>2 DEF EvidenceBound, Accepts
<1>8. \E status : Classify(receipt[x], obs, status) = "succeeded"
  BY <1>6, <1>7 DEF Decision
<1>9. /\ receipt[x].final = "succeeded" /\ receipt[x].code = "zero"
      /\ ~receipt[x].timed /\ receipt[x].cleaned
  BY <1>8, SucceededIsClean
<1>10. /\ proof'.task = t /\ proof'.exec = x /\ proof'.artifacts = i.artifacts
       /\ receipt' = receipt /\ stdout' = stdout
  BY <1>1
<1>11. /\ HasSecret(proof'.artifacts) = HasSecret(i.artifacts)
       /\ Within(proof'.task, proof'.artifacts) = Within(t, i.artifacts)
       /\ Passes(proof'.task, proof'.artifacts) = Passes(t, i.artifacts)
  BY <1>10
<1>12. AcceptedIsSound'
  BY <1>4, <1>5, <1>9, <1>10, <1>11 DEF AcceptedIsSound
<1> QED BY <1>1, <1>3, <1>12

\* The invariant is kept by every step.
LEMMA InvKept == Inv /\ [Next]_vars => Inv'
<1> SUFFICES ASSUME Inv, [Next]_vars PROVE Inv'
  OBVIOUS
<1> USE DEF Inv
<1>1. IntakeResults \subseteq IntakeResults'
  BY IntakeResultsGrow
<1>2. \A x \in Executions : Returned(x) =>
        Returned(x)' /\ receipt'[x] = receipt[x] /\ stdout'[x] = stdout[x]
  BY ReturnedIsFinal DEF Returned
<1>3. \A p \in provenance : p.exec \in Executions /\ Returned(p.exec)
  BY DEF TypeOK, IntakeResults
<1>4. proof # None => proof.exec \in Executions /\ Returned(proof.exec)
  BY DEF TypeOK, AcceptedIsSound, Returned, NoReceipt
<1>5. ASSUME UNCHANGED provenance PROVE ProvenanceIsTrue'
  BY <1>2, <1>3, <1>5 DEF ProvenanceIsTrue, HasSecret
<1>6. ASSUME UNCHANGED proof PROVE AcceptedIsSound'
  BY <1>2, <1>4, <1>6 DEF AcceptedIsSound, HasSecret, Within, Passes, Candidate
<1>7. CASE UNCHANGED vars
  BY <1>1, <1>5, <1>6, <1>7 DEF TypeOK, StagedReturned, Returned, vars
<1>8. ASSUME NEW x \in Executions, NEW r \in Observed,
             NEW out \in Outputs \cup {Unusable}, Execute(x, r, out)
      PROVE  Inv'
  <2>1. UNCHANGED <<staging, bridge, provenance, proof>>
    BY <1>8 DEF Execute
  <2>2. TypeOK'
    BY <1>1, <1>8, <2>1 DEF TypeOK, Execute
  <2>3. StagedReturned'
    BY <1>2, <2>1 DEF StagedReturned
  <2> QED BY <1>5, <1>6, <2>1, <2>2, <2>3
<1>9. ASSUME NEW x \in Executions, BridgeStage(x) PROVE Inv'
  <2>1. UNCHANGED <<receipt, stdout, provenance, proof>>
    BY <1>9 DEF BridgeStage
  <2>2. TypeOK'
    BY <1>1, <1>9, <2>1, ChainAssumption DEF TypeOK, BridgeStage
  <2>3. StagedReturned'
    BY <1>9, <2>1 DEF StagedReturned, BridgeStage, TypeOK, Returned
  <2> QED BY <1>5, <1>6, <2>1, <2>2, <2>3
<1>10. ASSUME NEW x \in Executions, BridgeIntake(x) PROVE Inv'
  <2>1. UNCHANGED <<receipt, stdout, proof>> /\ Returned(x)
    BY <1>10 DEF BridgeIntake, StagedReturned
  <2>2. \A p \in provenance' : p \in provenance \/
          /\ p \in IntakeResults'
          /\ ~HasSecret(p.artifacts) => p.artifacts = stdout'[p.exec]
    BY <1>2, <1>10, <2>1, BridgeIssuesTruth DEF IntakeResults
  <2>3. provenance' \subseteq IntakeResults'
    BY <1>1, <2>2 DEF TypeOK
  <2>4. TypeOK'
    BY <1>10, <2>1, <2>3, ChainAssumption DEF TypeOK, BridgeIntake
  <2>5. StagedReturned'
    BY <1>10, <2>1 DEF StagedReturned, BridgeIntake, TypeOK, Returned
  <2>6. ProvenanceIsTrue'
    BY <2>1, <2>2 DEF ProvenanceIsTrue, HasSecret
  <2> QED BY <1>6, <2>1, <2>4, <2>5, <2>6
<1>11. ASSUME NEW n \in ExecutionIds, NEW content \in Outputs \cup {None},
              WriteStaging(n, content)
       PROVE  Inv'
  <2>1. UNCHANGED <<receipt, stdout, bridge, provenance, proof>>
    BY <1>11 DEF WriteStaging
  <2>2. TypeOK'
    BY <1>1, <1>11, <2>1 DEF TypeOK, WriteStaging
  <2> QED BY <1>5, <1>6, <2>1, <2>2 DEF StagedReturned, Returned
<1>12. ASSUME NEW t \in Tasks, NEW x \in Executions, BuildProof(t, x)
       PROVE  Inv'
  <2>1. UNCHANGED <<receipt, stdout, staging, bridge, provenance>>
    BY <1>12 DEF BuildProof
  <2>2. /\ proof' \in [task: Tasks, exec: Executions, artifacts: Outputs]
        /\ AcceptedIsSound'
    BY <1>12, BuilderAcceptsSound
  <2>3. TypeOK'
    BY <1>1, <2>1, <2>2 DEF TypeOK
  <2> QED BY <1>5, <2>1, <2>2, <2>3 DEF StagedReturned, Returned
<1> QED BY <1>7, <1>8, <1>9, <1>10, <1>11, <1>12 DEF Next

\* build_trust_chain_proof accepts only sound candidates, and provenance
\* receipts are true, in every behaviour.
THEOREM TrustChainSound ==
  Spec => [](TypeOK /\ ProvenanceIsTrue /\ AcceptedIsSound)
<1>1. Init => Inv
  BY DEF Init, Inv, TypeOK, StagedReturned, ProvenanceIsTrue, AcceptedIsSound
<1>2. Inv => TypeOK /\ ProvenanceIsTrue /\ AcceptedIsSound
  BY DEF Inv
<1> QED BY <1>1, <1>2, InvKept, PTL DEF Spec

\* bridge_execution_stdout_to_artifact_intake: a certificate is of the bytes of
\* its own execution's stdout, whoever else wrote the staging directory.
THEOREM CertificatesAreTrue == Spec => []ProvenanceIsTrue
BY TrustChainSound, PTL

------------------------------------------------------------------------------
(* The trusted policy (trusted_policy.py, trusted_policy_enforcement.py).  *)

\* A protected path is never ordinary.
LEMMA ProtectedPathOutcome ==
  ASSUME NEW p
  PROVE  /\ PathOutcome(p) \in {"ordinary", "review", "forbidden"}
         /\ PathOutcome(p) = "ordinary" => p \notin Protected
<1>1. CASE p \notin Protected
  BY <1>1 DEF PathOutcome
<1>2. CASE p \in Protected
  <2>1. \E c \in DOMAIN Registry : p \in Registry[c].paths
    BY <1>2 DEF Protected
  <2>2. ComponentForPath(p) \in DOMAIN Registry
    BY <2>1 DEF ComponentForPath
  <2>3. Registry[ComponentForPath(p)].policy \in {"protected_core_review", "human_only"}
    BY <2>2 DEF Registry, Review, HumanOnly
  <2> QED BY <1>2, <2>3 DEF PathOutcome, PolicyOutcome
<1> QED BY <1>1, <1>2

\* The worst of a set of path outcomes is ordinary only if all of them are.
LEMMA OrdinarySet ==
  ASSUME NEW paths, paths # {}, NEW count, Classified(paths, count).outcome = "ordinary"
  PROVE  \A p \in paths : p \notin Protected
<1> DEFINE outcomes == {PathOutcome(p) : p \in paths}
           worst == CHOOSE o \in outcomes : \A q \in outcomes : Severity[q] <= Severity[o]
           Exists == \E o \in outcomes : \A q \in outcomes : Severity[q] <= Severity[o]
<1>1. outcomes \subseteq {"ordinary", "review", "forbidden"} /\ outcomes # {}
  BY ProtectedPathOutcome
<1>2. worst = "ordinary"
  BY DEF Classified, Decide
<1> HIDE DEF outcomes
<1>3. Exists
  <2>1. CASE "forbidden" \in outcomes
    BY <1>1, <2>1 DEF Severity
  <2>2. CASE "forbidden" \notin outcomes /\ "review" \in outcomes
    BY <1>1, <2>2 DEF Severity
  <2>3. CASE "forbidden" \notin outcomes /\ "review" \notin outcomes
    <3>1. \A x \in outcomes : x = "ordinary"
      BY <1>1, <2>3
    <3>2. Severity["ordinary"] <= Severity["ordinary"]
      BY DEF Severity
    <3> QED BY <1>1, <3>1, <3>2
  <2> HIDE DEF Exists
  <2> QED BY <2>1, <2>2, <2>3
<1>4. \A q \in outcomes : Severity[q] <= Severity["ordinary"]
  BY <1>2, <1>3
<1>5. ASSUME NEW q \in outcomes PROVE q = "ordinary"
  BY <1>1, <1>4 DEF Severity
<1> QED BY <1>5, ProtectedPathOutcome DEF outcomes

\* Entries that are all accepted are different files, whatever their case.
LEMMA FoldsAreDistinct ==
  ASSUME NEW input \in Seq(Paths), Refusals(input) = {}
  PROVE  /\ \A i \in 1..Len(input) : input[i] \notin DOMAIN Refusal
         /\ Cardinality({Fold[p] : p \in ToSet(input)}) = Len(input)
<1>0. DOMAIN input = 1..Len(input)
  OBVIOUS
<1>1. ASSUME NEW i \in 1..Len(input) PROVE Accepted(input, i) /\ Twins(input, i) = {}
  <2>1. ~Accepted(input, i) => Refusal[input[i]] \in Refusals(input)
    BY <1>0 DEF Refusals
  <2>2. ASSUME Accepted(input, i), Twins(input, i) # {} PROVE Refusals(input) # {}
    <3> DEFINE code(k) == IF input[Min(Twins(input, k))] = input[k] THEN "path_duplicate"
                          ELSE "path_case_collision"
               late == {k \in DOMAIN input : Accepted(input, k) /\ Twins(input, k) # {}}
    <3>1. {code(k) : k \in late} \subseteq Refusals(input)
      BY DEF Refusals
    <3>2. i \in late
      BY <1>0, <2>2
    <3> HIDE DEF code, late
    <3>3. code(i) \in {code(k) : k \in late}
      BY <3>2
    <3> QED BY <3>1, <3>3
  <2> QED BY <2>1, <2>2
<1>2. ASSUME NEW i \in 1..Len(input), NEW j \in 1..Len(input), Fold[input[i]] = Fold[input[j]]
      PROVE  i = j
  <2>1. j \notin 1..(i - 1) /\ i \notin 1..(j - 1)
    BY <1>1, <1>2 DEF Twins
  <2> QED BY <2>1
<1> DEFINE S == {Fold[p] : p \in ToSet(input)}
           f == [i \in 1..Len(input) |-> Fold[input[i]]]
<1>3. S = {Fold[input[i]] : i \in 1..Len(input)}
  BY <1>0 DEF ToSet
<1> HIDE DEF S
<1>4. f \in Bijection(1..Len(input), S)
  <2>1. f \in [1..Len(input) -> S]
    BY <1>3
  <2>2. \A i, j \in 1..Len(input) : f[i] = f[j] => i = j
    BY <1>2
  <2>3. \A t \in S : \E i \in 1..Len(input) : f[i] = t
    BY <1>3
  <2> HIDE DEF f
  <2> QED BY <2>1, <2>2, <2>3 DEF Bijection, Injection, Surjection, IsInjective
<1>5. IsFiniteSet(1..Len(input)) /\ Cardinality(1..Len(input)) = Len(input)
  <2>1. Len(input) \in Nat
    OBVIOUS
  <2> HIDE DEF f
  <2>2. /\ IsFiniteSet(1..Len(input))
        /\ Cardinality(1..Len(input)) = IF 1 > Len(input) THEN 0 ELSE Len(input) - 1 + 1
    BY <2>1, FS_Interval
  <2> QED BY <2>1, <2>2
<1>6. Cardinality(S) = Len(input)
  <2>1. ExistsBijection(1..Len(input), S)
    BY <1>4 DEF ExistsBijection
  <2> QED BY <1>5, <2>1, FS_Bijection
<1> HIDE DEF f
<1>7. Cardinality({Fold[p] : p \in ToSet(input)}) = Len(input)
  BY <1>6 DEF S
<1>8. \A i \in 1..Len(input) : input[i] \notin DOMAIN Refusal
  BY <1>1 DEF Accepted
<1> QED BY <1>7, <1>8

\* What an ordinary outcome says about the list it was made of.
LEMMA OrdinaryIsSafe ==
  ASSUME NEW input \in Seq(Paths), Evaluate(input).outcome = "ordinary"
  PROVE  /\ Evaluate(input).paths = ToSet(input)
         /\ \A p \in ToSet(input), q \in Protected : Fold[p] # Fold[q]
         /\ Cardinality({Fold[p] : p \in ToSet(input)}) = Len(input)
         /\ ToSet(input) \cap DOMAIN Refusal = {}
<1>1. CASE input = << >>
  <2>1. ToSet(input) = {}
    BY <1>1 DEF ToSet
  <2>2. Evaluate(input).paths = {}
    BY <1>1 DEF Evaluate, Decide, FailClosed
  <2>3. Cardinality({Fold[p] : p \in {}}) = 0
    <3>1. {Fold[p] : p \in {}} = {}
      OBVIOUS
    <3> QED BY <3>1, FS_EmptySet
  <2> QED BY <1>1, <2>1, <2>2, <2>3
<1>2. CASE input # << >>
  <2>1. /\ Refusals(input) = {}
        /\ ~ \E p \in ToSet(input) \ Protected, q \in Protected : Fold[p] = Fold[q]
        /\ Evaluate(input) = Classified(ToSet(input), Len(input))
    BY <1>2 DEF Evaluate, FailClosed, Decide
  <2>0. DOMAIN input = 1..Len(input) /\ Len(input) > 0
    BY <1>2
  <2>2. ToSet(input) # {}
    BY <2>0 DEF ToSet
  <2>3. \A p \in ToSet(input) : p \notin Protected
    BY <2>1, <2>2, OrdinarySet
  <2>4. Evaluate(input).paths = ToSet(input)
    BY <2>1 DEF Classified, Decide
  <2>5. ToSet(input) \cap DOMAIN Refusal = {}
    BY <2>0, <2>1, FoldsAreDistinct DEF ToSet
  <2> QED BY <2>1, <2>3, <2>4, <2>5, FoldsAreDistinct
<1> QED BY <1>1, <1>2

\* A receipt whose inventory was missing is of no path at all.
ReceiptIsHonest(r) == r.identity = "inventory_missing" => r.decision.paths = {}

\* The latest admission was made with these arguments.
AdmissionOf(a, input, candidate, request, declared, prior) ==
  /\ input \in Inventories \cup {Absent} /\ declared \in Inventories \cup {Absent}
  /\ prior # Absent => ReceiptIsHonest(prior)
  /\ a = AdmitChangedPaths(input, candidate, request, declared, prior)

\* The inductive invariant.
PolicyInv ==
  /\ kept # Absent => ReceiptIsHonest(kept)
  /\ admission # Absent =>
       \E input, candidate, request, declared, prior :
         AdmissionOf(admission, input, candidate, request, declared, prior)

\* No path is evaluated when the inventory is missing.
LEMMA EmptyInventory == Evaluate(<< >>).paths = {}
<1>1. Len(<< >>) = 0 /\ MaxChangedPaths \in Nat
  BY RegistryAssumption
<1> QED BY <1>1 DEF Evaluate, Decide, FailClosed

\* Every evaluation and every enforcement preserves the invariant.
LEMMA PolicyStep == PolicyInv /\ [PolicyNext]_policyVars => PolicyInv'
<1> SUFFICES ASSUME PolicyInv, [PolicyNext]_policyVars PROVE PolicyInv'
  OBVIOUS
<1>1. CASE UNCHANGED policyVars
  BY <1>1 DEF policyVars, PolicyInv
<1>2. CASE PolicyNext
  <2>1. PICK input, declared \in Inventories \cup {Absent},
             candidate \in DOMAIN RequestOf \cup {Absent}, prior \in {kept, Absent} :
          Admit(input, candidate, declared, prior)
    BY <1>2 DEF PolicyNext
  <2> DEFINE request == IF candidate = Absent THEN Absent ELSE RequestOf[candidate]
  <2>2. /\ admission' = AdmitChangedPaths(input, candidate, request, declared, prior)
        /\ kept' = admission'.receipt
    BY <2>1 DEF Admit
  <2> HIDE DEF request
  <2>3. AdmissionOf(admission', input, candidate, request, declared, prior)
    BY <2>1, <2>2 DEF AdmissionOf, PolicyInv
  <2>4. ReceiptIsHonest(kept')
    <3>1. /\ kept'.decision = Evaluate(IF input = Absent THEN << >> ELSE input)
          /\ \E status : kept'.identity = InputIdentity(input, status)
      BY <2>2, Zenon DEF AdmitChangedPaths, DecisionReceipt
    <3>2. kept'.identity = "inventory_missing" => input = Absent
      BY <3>1 DEF InputIdentity
    <3> QED BY <3>1, <3>2, EmptyInventory DEF ReceiptIsHonest
  <2> QED BY <2>3, <2>4 DEF PolicyInv
<1> QED BY <1>1, <1>2

\* An admission that lets paths continue: every earlier exit has another status.
LEMMA OrdinaryAdmission ==
  ASSUME NEW input, NEW decision, NEW candidate, NEW request, NEW declared, NEW prior,
         AdmissionStatus(input, decision, candidate, request, declared, prior) = "ordinary"
  PROVE  /\ input # Absent
         /\ decision.outcome = "ordinary"
         /\ declared # Absent => /\ Evaluate(declared).paths = decision.paths
                                /\ Evaluate(declared).outcome = "ordinary"
         /\ prior # Absent => ~Stale(prior, decision, candidate, request)
BY DEF AdmissionStatus

\* The inductive invariant implies the property.
LEMMA AdmissionIsSafe == PolicyInv => ContinuationIsSafe
<1> SUFFICES ASSUME PolicyInv, admission # Absent, admission.status = "ordinary"
             PROVE  ContinuationIsSafe
  BY DEF ContinuationIsSafe
<1>1. PICK input, candidate, request, declared, prior :
        AdmissionOf(admission, input, candidate, request, declared, prior)
  BY DEF PolicyInv
<1> DEFINE decision == Evaluate(IF input = Absent THEN << >> ELSE input)
           paths == ToSet(input)
<1>2. /\ admission.status = AdmissionStatus(input, decision, candidate, request, declared, prior)
      /\ admission.inventory = input /\ admission.declared = declared
      /\ admission.candidate = candidate /\ admission.prior = prior
  BY <1>1 DEF AdmissionOf, AdmitChangedPaths
<1>3. /\ input # Absent /\ decision.outcome = "ordinary"
      /\ declared # Absent => /\ Evaluate(declared).paths = decision.paths
                             /\ Evaluate(declared).outcome = "ordinary"
      /\ prior # Absent => ~Stale(prior, decision, candidate, request)
  <2> HIDE DEF decision
  <2> QED BY <1>2, OrdinaryAdmission
<1>4. /\ input \in Seq(Paths) /\ decision = Evaluate(input)
      /\ declared # Absent => declared \in Seq(Paths)
  BY <1>1, <1>3, RegistryAssumption DEF AdmissionOf
<1> HIDE DEF decision
<1>5. /\ decision.paths = paths
      /\ \A p \in paths, q \in Protected : Fold[p] # Fold[q]
      /\ Cardinality({Fold[p] : p \in paths}) = Len(input)
      /\ paths \cap DOMAIN Refusal = {}
  BY <1>3, <1>4, OrdinaryIsSafe
<1>6. declared # Absent => ToSet(declared) = paths
  BY <1>3, <1>4, <1>5, OrdinaryIsSafe
<1> HIDE DEF paths
<1>7. ASSUME prior # Absent
      PROVE  /\ prior.identity = "inventory_missing" => paths = {}
             /\ prior.decision.paths = paths
             /\ prior.decision.outcome = "ordinary"
             /\ Cardinality({candidate, prior.candidate} \ {Absent}) <= 1
  <2>1. ReceiptIsHonest(prior)
    BY <1>1, <1>7 DEF AdmissionOf
  <2>2. prior.decision = decision /\ (candidate = Absent \/ prior.candidate \in {Absent, candidate})
    BY <1>3, <1>7 DEF Stale
  <2>3. \E x : {candidate, prior.candidate} \ {Absent} \subseteq {x}
    BY <2>2
  <2>4. PICK x : {candidate, prior.candidate} \ {Absent} \subseteq {x}
    BY <2>3
  <2>5. Cardinality({x}) = 1 /\ IsFiniteSet({x})
    BY FS_Singleton
  <2>6. Cardinality({candidate, prior.candidate} \ {Absent}) <= 1
    BY <2>4, <2>5, FS_Subset
  <2> QED BY <1>3, <1>5, <2>1, <2>2, <2>6 DEF ReceiptIsHonest
<1> QED BY <1>2, <1>5, <1>6, <1>7 DEF ContinuationIsSafe, paths

\* What an admission lets continue is safe to apply: no path of it is protected,
\* or another spelling of one that is, and nothing is missing from what was
\* declared (admit_changed_paths).
THEOREM AdmittedPaths == PolicySpec => []ContinuationIsSafe
<1>1. PolicyInit => PolicyInv
  BY DEF PolicyInit, PolicyInv
<1> QED BY <1>1, PolicyStep, AdmissionIsSafe, PTL DEF PolicySpec

------------------------------------------------------------------------------
(* The trusted checks (check_runner.py, check_runtime.py, adversarial_verifier.py).*)

\* The codes that make _status report checks_uncertain.
Doubts == {"execution_uncertain", "cleanup_uncertain", "containment_unproven"}

\* The codes of a run; invalid_plan is never one of them.
Codes ==
  Doubts \cup AlteredCodes
    \cup {"check_timeout", "check_nonzero_exit", "output_bound_exceeded"}

\* A sequence of whatever it holds.
IsList(s) == s \in Seq(ToSet(s))

\* What run_trusted_checks keeps while it runs.
RunFields == {"plan", "ws", "candidate", "step", "index", "results", "codes", "cur"}

\* What a TrustedCheckResult records.
ResultFields ==
  {"verified", "performed", "terminated", "cleaned", "complete", "exit", "failures"}

\* Steps before any container of the check can exist.
Before == {"materialize", "image", "create"}

\* The steps of execute_trusted_checks for one check, create to cleanup.
Inside == {"create", "inspect", "collect", "settle", "stop", "clean"}

\* Every step of a run.
RunSteps == Before \cup Inside \cup {"observe", "remove"}

\* A run_trusted_checks is in progress.
Active == run.step # "none"

\* A plan in force, and a run of it, are about a candidate that was verified.
IsPlan(p) ==
  LET s == p.structural IN
  /\ Len(p.checks) \in 1..MaxChecks /\ DOMAIN p.checks = 1..Len(p.checks)
  /\ s.intake \in ArtifactIntakes
  /\ Verifiable(s.contract, s.exec, s.intake)
  /\ s = StructuralReceipt(s.contract, s.exec, s.intake)
  /\ s.failures = {}

\* How many runs have ended at each stage, and of which plan.
StageInv ==
  /\ stage \in {"idle", "planned", "checked", "held", "done"}
  /\ IsList(receipts)
  /\ Len(receipts) <= 1 + RepeatCount
  /\ stage \in {"idle", "planned"} => Len(receipts) = 0
  /\ stage = "checked" => Len(receipts) = 1 /\ receipts[1].plan = plan
  /\ stage \in {"held", "done"} =>
       /\ Len(receipts) >= 1
       /\ receipts[1].plan.structural.intake = plan.structural.intake
       /\ \A k \in 2..Len(receipts) : receipts[k].plan = plan
       /\ Len(plan.checks) = 1
       /\ HeldOutPath \in DOMAIN plan.structural.tree
  /\ stage # "idle" => IsPlan(plan)
  /\ Active => Len(receipts) < 1 + RepeatCount /\ stage \in {"planned", "held"}
  /\ verdict # "none" => stage = "done"

\* The daemon's containers and the workspaces; an exit is in the history.
WorldInv ==
  /\ container \in [Workspaces \X (1..MaxChecks) -> ContainerStates]
  /\ workspace \in [Workspaces -> {"none", "empty", "candidate", "altered"}]
  /\ \A n \in Workspaces \X (1..MaxChecks) :
       container[n] \in Exits => <<n, container[n]>> \in ended

\* What is known of the result of a check, made or in the making.
Clean(r) ==
  r.performed /\ r.exit = "zero" /\ r.complete /\ r.terminated

\* A result already made: its failures are codes of the run, a cleanup it
\* confirms took place, and without a failure the container exited with 0.
ResultInv(k, r) ==
  /\ r.failures \subseteq run.codes
  /\ r.cleaned => container[<<run.ws, k>>] = "absent"
  /\ r.cleaned \/ "cleanup_uncertain" \in run.codes
  /\ r.failures = {} => r.exit = "zero" /\ <<<<run.ws, k>>, "zero">> \in ended

\* A container of this workspace told against the candidate.
Told(w, history) ==
  \E k \in 1..MaxChecks, x \in {"low", "high", "overflow"} : <<<<w, k>>, x>> \in history

\* The codes that tell against the candidate.
Telling == {"check_nonzero_exit", "output_bound_exceeded"}

\* The result in the making: a check without a failure so far did all that a
\* passed one must do, up to the step it is at.
CurrentInv ==
  /\ DOMAIN run.cur = ResultFields
  /\ run.cur.failures \subseteq Codes
  /\ run.cur.failures \cap Telling # {} => Told(run.ws, ended)
  /\ run.step \in {"create", "inspect", "collect"} => run.cur.failures = {}
  /\ run.step \in {"settle", "stop", "clean"} =>
       run.cur.complete \/ run.cur.failures # {}
  /\ run.step \in {"stop", "clean"} =>
       \/ run.cur.failures # {}
       \/ Clean(run.cur) /\ <<Name, "zero">> \in ended
  /\ run.step = "clean" => run.cur.terminated \/ "execution_uncertain" \in run.cur.failures
  /\ run.step \in Inside => run.cur.complete \in BOOLEAN /\ run.cur.terminated \in BOOLEAN

\* The run is of the plan in force, in a workspace of its own, and has one
\* result for each check it is done with.
RunShape ==
  /\ DOMAIN run = RunFields
  /\ run.step \in RunSteps
  /\ run.plan = plan
  /\ run.ws = Len(receipts) + 1
  /\ TreeIsValid(run.plan.structural.tree)
  /\ run.index \in 1..Len(run.plan.checks)
  /\ IsList(run.results)
  /\ run.step \in Before \cup Inside => Len(run.results) = run.index - 1 /\ run.codes = {}
  /\ run.step = "observe" => Len(run.results) = run.index
  /\ run.step = "remove" => Len(run.results) \in {run.index - 1, run.index}
  /\ run.step \in {"materialize", "image"} => run.index = 1 /\ run.cur = Fresh
  /\ run.step = "create" => run.cur = Fresh

\* The results made and the codes found; a container exists only of a check
\* that was begun, and at the end only beside a code that says so.
RunInv ==
  /\ run.codes \subseteq Codes
  /\ run.codes \cap Telling # {} => Told(run.ws, ended)
  /\ \A k \in DOMAIN run.results : ResultInv(k, run.results[k])
  /\ \A k \in 1..MaxChecks :
       k > run.index \/ (k = run.index /\ run.step \in Before) =>
         container[<<run.ws, k>>] = "absent"
  /\ run.step = "remove" =>
       \/ run.codes \cap Doubts # {}
       \/ \A k \in 1..MaxChecks : container[<<run.ws, k>>] = "absent"

\* A container saw an altered workspace only if it still is altered, so that
\* the last look finds out.
SpoiledInv ==
  /\ run.step # "remove" /\ run.ws \in spoiled => workspace[run.ws] = "altered"
  /\ run.step = "materialize" => workspace[run.ws] = "empty"
  /\ run.step = "remove" /\ run.codes = {} => run.ws \notin spoiled

\* Workspaces of later runs have not been touched.
FutureInv ==
  \A w \in Workspaces :
       (IF Active THEN w > run.ws ELSE w > Len(receipts)) =>
         /\ w \notin spoiled /\ workspace[w] = "none"
         /\ \A k \in 1..MaxChecks : container[<<w, k>>] = "absent"

\* What a receipt still means, however long ago its run ended.
ReceiptInv(k, r) ==
  /\ r.ws = k
  /\ IsPlan(r.plan) /\ TreeIsValid(r.plan.structural.tree)
  /\ IsList(r.results) /\ Len(r.results) <= MaxChecks
  /\ r.codes \subseteq Codes
  /\ r.status = CheckStatus(r.codes)
  /\ r.codes \cap Telling # {} => Told(k, ended)
  /\ \A j \in DOMAIN r.results : r.results[j].cleaned => container[<<k, j>>] = "absent"
  /\ r.codes \cap Doubts = {} =>
         /\ \A j \in 1..MaxChecks : container[<<k, j>>] = "absent"
         /\ workspace[k] = "none"
  /\ r.codes = {} =>
         /\ k \notin spoiled
         /\ Len(r.results) = Len(r.plan.checks)
         /\ \A j \in DOMAIN r.results :
              /\ r.results[j].exit = "zero" /\ r.results[j].failures = {}
              /\ <<<<k, j>>, "zero">> \in ended

\* The inductive invariant: all of this, and the verdict.
ChecksInv ==
  /\ StageInv /\ WorldInv
  /\ Active => RunShape /\ CurrentInv /\ RunInv /\ SpoiledInv
  /\ FutureInv
  /\ \A k \in 1..Len(receipts) : ReceiptInv(k, receipts[k])
  /\ VerdictIsEarned

----------------------------------------------------------------------------

\* The run whose check fails at a point, and what is left of it.
Failing(to, code) == [run EXCEPT !.step = to, !.cur.failures = @ \cup {code}]

\* FailCheck changes the step and the failures of the check, nothing else.
LEMMA FailedCheck ==
  ASSUME DOMAIN run = RunFields, DOMAIN run.cur = ResultFields, NEW to, NEW code,
         NEW q, q = Failing(to, code)
  PROVE  /\ DOMAIN q = RunFields /\ DOMAIN q.cur = ResultFields
         /\ q.step = to /\ q.cur.failures = run.cur.failures \cup {code}
         /\ q.plan = run.plan /\ q.ws = run.ws /\ q.index = run.index
         /\ q.results = run.results /\ q.codes = run.codes
         /\ q.cur.verified = run.cur.verified /\ q.cur.performed = run.cur.performed
         /\ q.cur.terminated = run.cur.terminated /\ q.cur.complete = run.cur.complete
         /\ q.cur.exit = run.cur.exit
<1> DEFINE c == [run.cur EXCEPT !.failures = @ \cup {code}]
<1>1. q = [run EXCEPT !.step = to, !.cur = c]
  BY DEF Failing
<1> QED BY <1>1 DEF RunFields, ResultFields

\* Containers that ended are never forgotten.
LEMMA ToldStays ==
  ASSUME ended \subseteq ended', NEW w, Told(w, ended)
  PROVE  Told(w, ended')
BY DEF Told

\* A list with one more entry.
LEMMA Appended ==
  ASSUME NEW s, IsList(s), NEW x
  PROVE  /\ IsList(Append(s, x)) /\ Len(s) \in Nat /\ DOMAIN s = 1..Len(s)
         /\ Len(Append(s, x)) = Len(s) + 1 /\ DOMAIN Append(s, x) = 1..(Len(s) + 1)
         /\ \A k \in 1..Len(s) : Append(s, x)[k] = s[k]
         /\ Append(s, x)[Len(s) + 1] = x
<1> DEFINE S == ToSet(s) \cup {x}
           t == Append(s, x)
<1>1. s \in Seq(S)
  <2>1. s \in Seq(ToSet(s))
    BY DEF IsList
  <2> HIDE DEF S
  <2>2. ToSet(s) \subseteq S
    BY DEF S
  <2> QED BY <2>1, <2>2
<1> HIDE DEF S
<1>2. /\ t \in Seq(S) /\ Len(t) = Len(s) + 1 /\ Len(s) \in Nat
      /\ DOMAIN t = 1..(Len(s) + 1) /\ DOMAIN s = 1..Len(s)
      /\ \A k \in 1..Len(s) : t[k] = s[k]
      /\ t[Len(s) + 1] = x
  <2>1. x \in S
    BY DEF S
  <2>2. /\ t \in Seq(S) /\ Len(t) = Len(s) + 1
        /\ \A k \in 1..Len(s) : t[k] = s[k]
        /\ t[Len(s) + 1] = x
    BY <1>1, <2>1, AppendProperties
  <2> HIDE DEF t
  <2>3. DOMAIN t = 1..Len(t) /\ DOMAIN s = 1..Len(s) /\ Len(s) \in Nat
    BY <1>1, <2>2
  <2> QED BY <2>2, <2>3
<1> HIDE DEF t
<1>3. IsList(t)
  <2>1. t \in [1..Len(t) -> S] /\ Len(t) \in Nat
    BY <1>2
  <2>2. t \in [1..Len(t) -> ToSet(t)]
    BY <2>1, <1>2 DEF ToSet
  <2> QED BY <2>1, <2>2, SeqDef DEF IsList
<1> QED BY <1>2, <1>3 DEF t

\* The containers there can be.
Names == Workspaces \X (1..MaxChecks)

\* The container of a check of another run is another container.
LEMMA NameParts ==
  ASSUME NEW w \in Workspaces, NEW k \in 1..MaxChecks
  PROVE  /\ <<w, k>> \in Names
         /\ \A v, j : <<w, k>> = <<v, j>> <=> w = v /\ k = j
BY DEF Names

\* What a run does concerns the container of its own check.
LEMMA RunMoves ==
  ASSUME ChecksInv, Active, Active',
         UNCHANGED <<stage, plan, receipts, verdict, spoiled>>,
         run'.ws = run.ws,
         ended \subseteq ended', WorldInv',
         \A n \in Names : n # Name => container'[n] = container[n],
         \A w \in Workspaces : w # run.ws => workspace'[w] = workspace[w],
         RunShape', CurrentInv', RunInv', SpoiledInv'
  PROVE  ChecksInv'
<1>1. /\ StageInv /\ RunShape /\ FutureInv
      /\ \A k \in 1..Len(receipts) : ReceiptInv(k, receipts[k])
  BY DEF ChecksInv
<1>2. /\ run.ws = Len(receipts) + 1 /\ Len(receipts) \in Nat /\ Len(receipts) <= 2
      /\ stage \in {"planned", "held"} /\ verdict = "none"
  <2>1. Len(receipts) \in Nat
    BY <1>1, Appended DEF StageInv
  <2> QED BY <1>1, <2>1 DEF StageInv, RunShape, RepeatCount
<1>3. StageInv'
  BY <1>1 DEF StageInv, Active, IsPlan
<1>4. FutureInv'
  <2> SUFFICES ASSUME NEW w \in Workspaces, w > run.ws
               PROVE  /\ w \notin spoiled /\ workspace'[w] = "none"
                      /\ \A k \in 1..MaxChecks : container'[<<w, k>>] = "absent"
    BY DEF FutureInv, Active
  <2>1. w # run.ws
    BY <1>2 DEF Workspaces, RepeatCount
  <2>2. \A k \in 1..MaxChecks : <<w, k>> \in Names /\ <<w, k>> # Name
    BY <2>1, NameParts DEF Name
  <2> QED BY <1>1, <2>1, <2>2 DEF FutureInv
<1>5. ASSUME NEW k \in 1..Len(receipts) PROVE ReceiptInv(k, receipts[k])'
  <2>1. k \in Workspaces /\ k # run.ws
    BY <1>2 DEF Workspaces, RepeatCount
  <2>2. \A j \in 1..MaxChecks : <<k, j>> \in Names /\ <<k, j>> # Name
    BY <2>1, NameParts DEF Name
  <2>3. \A j \in 1..MaxChecks : container'[<<k, j>>] = container[<<k, j>>]
    BY <2>2
  <2>4. workspace'[k] = workspace[k]
    BY <2>1
  <2> DEFINE r == receipts[k]
  <2>5. ReceiptInv(k, r) /\ receipts'[k] = r
    BY <1>1
  <2>6. DOMAIN r.results \subseteq 1..MaxChecks
    <3>1. /\ DOMAIN r.results = 1..Len(r.results) /\ Len(r.results) \in Nat
          /\ Len(r.results) <= MaxChecks
      BY <2>5, Appended DEF ReceiptInv
    <3> QED BY <3>1, ChecksAssumption
  <2>7. Told(k, ended) => Told(k, ended')
    BY ToldStays
  <2> HIDE DEF r
  <2> QED BY <2>3, <2>4, <2>5, <2>6, <2>7 DEF ReceiptInv, IsPlan
<1>6. VerdictIsEarned'
  BY <1>2 DEF VerdictIsEarned
<1> QED BY <1>1, <1>3, <1>4, <1>5, <1>6 DEF ChecksInv

\* What happens beside the runs brings no container back and undoes nothing.
LEMMA WorldMoves ==
  ASSUME ChecksInv, WorldInv',
         UNCHANGED <<stage, plan, run, receipts, verdict>>,
         ended \subseteq ended',
         \A n \in Names : container[n] = "absent" => container'[n] = "absent",
         \A w \in Workspaces : workspace[w] # "candidate" => workspace'[w] = workspace[w],
         spoiled \subseteq spoiled',
         \A w \in spoiled' \ spoiled :
           /\ w \in Workspaces /\ workspace'[w] = "altered"
           /\ \E k \in 1..MaxChecks : container[<<w, k>>] # "absent"
  PROVE  ChecksInv'
<1>1. /\ StageInv /\ FutureInv /\ VerdictIsEarned
      /\ \A k \in 1..Len(receipts) : ReceiptInv(k, receipts[k])
  BY DEF ChecksInv
<1>2. Len(receipts) \in Nat /\ Len(receipts) <= 3
  <2>1. Len(receipts) \in Nat
    BY <1>1, Appended DEF StageInv
  <2> QED BY <1>1, <2>1 DEF StageInv, RepeatCount
<1>3. StageInv'
  BY <1>1 DEF StageInv, Active, IsPlan
<1>4. \A w \in Workspaces, k \in 1..MaxChecks :
        container[<<w, k>>] = "absent" => container'[<<w, k>>] = "absent"
  BY NameParts
<1>5. FutureInv'
  BY <1>1, <1>4 DEF FutureInv, Active
<1>6. \A w : Told(w, ended) => Told(w, ended')
  BY ToldStays
<1>7. ASSUME NEW k \in 1..Len(receipts) PROVE ReceiptInv(k, receipts[k])'
  <2>1. k \in Workspaces
    BY <1>2 DEF Workspaces, RepeatCount
  <2> DEFINE r == receipts[k]
  <2>2. ReceiptInv(k, r) /\ receipts'[k] = r
    BY <1>1
  <2>3. DOMAIN r.results \subseteq 1..MaxChecks
    <3>1. /\ DOMAIN r.results = 1..Len(r.results) /\ Len(r.results) \in Nat
          /\ Len(r.results) <= MaxChecks
      BY <2>2, Appended DEF ReceiptInv
    <3> QED BY <3>1, ChecksAssumption
  <2> HIDE DEF r
  <2>4. r.codes = {} => k \notin spoiled'
    <3>1. r.codes = {} =>
            k \notin spoiled /\ \A j \in 1..MaxChecks : container[<<k, j>>] = "absent"
      BY <2>2 DEF ReceiptInv
    <3> QED BY <3>1
  <2> QED BY <1>4, <1>6, <2>1, <2>2, <2>3, <2>4 DEF ReceiptInv, IsPlan
<1>8. ASSUME Active PROVE RunShape' /\ CurrentInv' /\ RunInv' /\ SpoiledInv'
  <2>1. RunShape /\ CurrentInv /\ RunInv /\ SpoiledInv
    BY <1>8 DEF ChecksInv
  <2>2. run.ws \in Workspaces
    BY <1>1, <1>2, <1>8, <2>1 DEF RunShape, StageInv, Workspaces, RepeatCount
  <2>3. RunShape'
    BY <2>1 DEF RunShape
  <2>4. CurrentInv'
    BY <1>6, <2>1 DEF CurrentInv, Name
  <2>5. DOMAIN run.results \subseteq 1..MaxChecks
    <3>1. /\ DOMAIN run.results = 1..Len(run.results) /\ Len(run.results) \in Nat
          /\ Len(run.results) <= run.index
          /\ run.index \in 1..Len(run.plan.checks) /\ Len(run.plan.checks) \in 1..MaxChecks
      <4>1. Len(plan.checks) \in 1..MaxChecks
        BY <1>1, <1>8 DEF StageInv, IsPlan
      <4>2. DOMAIN run.results = 1..Len(run.results) /\ Len(run.results) \in Nat
        BY <2>1, Appended DEF RunShape
      <4> QED BY <2>1, <4>1, <4>2, ChecksAssumption DEF RunShape, RunSteps
    <3> QED BY <3>1, ChecksAssumption
  <2>6. RunInv'
    BY <1>4, <1>6, <2>1, <2>2, <2>5 DEF RunInv, ResultInv
  <2>7. SpoiledInv'
    <3>1. run.step = "remove" /\ run.codes = {} => run.ws \notin spoiled'
      <4>1. run.step = "remove" /\ run.codes = {} =>
              run.ws \notin spoiled /\ \A j \in 1..MaxChecks : container[<<run.ws, j>>] = "absent"
        BY <2>1 DEF SpoiledInv, RunInv
      <4> QED BY <4>1
    <3>2. run.step = "materialize" => workspace'[run.ws] = "empty"
      BY <2>1, <2>2 DEF SpoiledInv
    <3>3. run.step # "remove" /\ run.ws \in spoiled' => workspace'[run.ws] = "altered"
      BY <2>1, <2>2 DEF SpoiledInv
    <3> QED BY <3>1, <3>2, <3>3 DEF SpoiledInv
  <2> QED BY <2>3, <2>4, <2>6, <2>7
<1>9. VerdictIsEarned'
  <2>1. \A w : Counts(w) => Counts(w)'
    BY DEF Counts
  <2> QED BY <1>1, <2>1 DEF VerdictIsEarned
<1> QED BY <1>3, <1>5, <1>7, <1>8, <1>9 DEF ChecksInv, Active

\* The daemon and a container by itself.
LEMMA DaemonPreserves ==
  ASSUME ChecksInv, NEW n \in DOMAIN container, DaemonStep(n)
  PROVE  ChecksInv'
<1>1. WorldInv
  BY DEF ChecksInv
<1>2. /\ n \in Names /\ n[1] \in Workspaces /\ n[2] \in 1..MaxChecks /\ n = <<n[1], n[2]>>
      /\ container[n] # "absent"
  BY <1>1 DEF WorldInv, Names, DaemonStep
<1>3. /\ ended \subseteq ended' /\ spoiled \subseteq spoiled'
      /\ \A w \in spoiled' \ spoiled : w = n[1] /\ workspace[w] = "altered"
      /\ UNCHANGED <<stage, plan, run, receipts, verdict, workspace>>
  BY DEF DaemonStep
<1>4. WorldInv'
  <2>1. \E s \in ContainerStates :
          /\ container' = [container EXCEPT ![n] = s]
          /\ s \in Exits => <<n, s>> \in ended'
    BY DEF DaemonStep, ContainerStates, Exits
  <2> QED BY <1>1, <1>2, <1>3, <2>1 DEF WorldInv, Names
<1>5. \A m \in Names : container[m] = "absent" => container'[m] = "absent"
  <2>1. \E s : container' = [container EXCEPT ![n] = s]
    BY DEF DaemonStep
  <2> QED BY <1>1, <1>2, <2>1 DEF WorldInv, Names
<1> QED BY <1>2, <1>3, <1>4, <1>5, WorldMoves

\* Another process writes in the workspace.
LEMMA AlterPreserves ==
  ASSUME ChecksInv, NEW w \in Exposed, Alter(w)
  PROVE  ChecksInv'
<1>1. WorldInv /\ w \in Workspaces
  BY ChecksAssumption DEF ChecksInv
<1>2. /\ spoiled \subseteq spoiled'
      /\ \A v \in spoiled' \ spoiled :
           v = w /\ \E k \in 1..MaxChecks : container[<<w, k>>] = "running"
      /\ UNCHANGED <<stage, plan, run, receipts, verdict, container, ended>>
      /\ workspace[w] = "candidate" /\ workspace' = [workspace EXCEPT ![w] = "altered"]
  BY DEF Alter
<1>3. WorldInv'
  BY <1>1, <1>2 DEF WorldInv
<1>4. /\ workspace'[w] = "altered"
      /\ \A v \in Workspaces : workspace[v] # "candidate" => workspace'[v] = workspace[v]
  BY <1>1, <1>2 DEF WorldInv
<1> QED BY <1>1, <1>2, <1>3, <1>4, WorldMoves

\* What holds while a run is in progress.
LEMMA RunFacts ==
  ASSUME ChecksInv, Active
  PROVE  /\ StageInv /\ WorldInv /\ RunShape /\ CurrentInv /\ RunInv /\ SpoiledInv
         /\ Len(receipts) \in Nat /\ run.ws = Len(receipts) + 1 /\ run.ws \in Workspaces
         /\ stage \in {"planned", "held"} /\ verdict = "none"
         /\ IsPlan(run.plan) /\ run.index \in 1..Len(run.plan.checks)
         /\ run.index \in 1..MaxChecks /\ Name \in Names
         /\ DOMAIN run.results = 1..Len(run.results) /\ Len(run.results) \in Nat
         /\ run.step \in RunSteps
<1>1. StageInv /\ WorldInv /\ RunShape /\ CurrentInv /\ RunInv /\ SpoiledInv
  BY DEF ChecksInv
<1>2. Len(receipts) \in Nat
  BY <1>1, Appended DEF StageInv
<1>3. /\ run.ws = Len(receipts) + 1 /\ run.ws \in Workspaces
      /\ stage \in {"planned", "held"} /\ verdict = "none"
  BY <1>1, <1>2 DEF StageInv, RunShape, Workspaces, RepeatCount
<1>4. IsPlan(run.plan) /\ run.index \in 1..Len(run.plan.checks) /\ run.step \in RunSteps
  BY <1>1, <1>3 DEF StageInv, RunShape
<1>5. run.index \in 1..MaxChecks
  BY <1>4, ChecksAssumption DEF IsPlan
<1>6. Name \in Names
  BY <1>3, <1>5, NameParts DEF Name
<1>7. DOMAIN run.results = 1..Len(run.results) /\ Len(run.results) \in Nat
  BY <1>1, Appended DEF RunShape
<1> QED BY <1>1, <1>2, <1>3, <1>4, <1>5, <1>6, <1>7

\* Nothing but the container of the check in progress changes.
OwnContainer ==
  /\ WorldInv' /\ ended \subseteq ended'
  /\ \A n \in Names : n # Name => container'[n] = container[n]
  /\ UNCHANGED <<stage, plan, receipts, verdict, workspace, spoiled>>

\* The run's own container may go to any state whose exit is in the history.
LEMMA NameMoves ==
  ASSUME ChecksInv, Active, NEW s \in ContainerStates,
         container' = [container EXCEPT ![Name] = s], ended \subseteq ended',
         s \in Exits => <<Name, s>> \in ended',
         UNCHANGED <<stage, plan, receipts, verdict, workspace, spoiled>>
  PROVE  OwnContainer
<1>1. Name \in Names /\ WorldInv
  BY RunFacts
<1> DEFINE m == Name
<1>2. WorldInv'
  <2>1. container' \in [Names -> ContainerStates]
    BY <1>1 DEF WorldInv, Names
  <2>2. ASSUME NEW n \in Names, container'[n] \in Exits PROVE <<n, container'[n]>> \in ended'
    <3> HIDE DEF m
    <3>1. container' = [container EXCEPT ![m] = s] /\ m \in Names
      BY <1>1 DEF m
    <3>2. CASE n = m
      BY <2>2, <3>1, <3>2, <1>1 DEF WorldInv, Names, m
    <3>3. CASE n # m
      BY <2>2, <3>1, <3>3, <1>1 DEF WorldInv, Names
    <3> QED BY <3>2, <3>3
  <2> QED BY <1>1, <2>1, <2>2 DEF WorldInv, Names
<1>3. \A n \in Names : n # m => container'[n] = container[n]
  BY <1>1 DEF WorldInv, Names
<1> QED BY <1>2, <1>3 DEF OwnContainer

\* Or stay as it is.
LEMMA NameStays ==
  ASSUME ChecksInv, Active, ended \subseteq ended',
         UNCHANGED <<stage, plan, receipts, verdict, workspace, spoiled, container>>
  PROVE  OwnContainer
BY RunFacts DEF OwnContainer, WorldInv

\* A check goes on: the run has the results it had.
LEMMA CheckGoesOn ==
  ASSUME ChecksInv, Active, run.step \in Inside, OwnContainer,
         NEW q, q = run', DOMAIN q = RunFields, q.step \in Inside \ {"create"},
         q.plan = run.plan, q.ws = run.ws, q.index = run.index,
         q.results = run.results, q.codes = run.codes, CurrentInv'
  PROVE  ChecksInv'
<1>1. /\ RunShape /\ RunInv /\ SpoiledInv /\ run.ws \in Workspaces
      /\ run.index \in 1..MaxChecks
      /\ DOMAIN run.results = 1..Len(run.results) /\ Len(run.results) \in Nat
  BY RunFacts
<1>2. Active' /\ run'.ws = run.ws
  BY DEF Active, Inside
<1>3. RunShape'
  BY <1>1 DEF RunShape, OwnContainer, Inside, Before, RunSteps
<1>4. Len(run.results) = run.index - 1 /\ run.codes = {}
  BY <1>1 DEF RunShape
<1>5. \A k \in 1..MaxChecks : k # run.index => container'[<<run.ws, k>>] = container[<<run.ws, k>>]
  <2>1. \A k \in 1..MaxChecks : k # run.index => <<run.ws, k>> \in Names /\ <<run.ws, k>> # Name
    BY <1>1, NameParts DEF Name
  <2> QED BY <2>1 DEF OwnContainer
<1>6. RunInv'
  <2>1. \A k \in DOMAIN run.results : ResultInv(k, run.results[k])'
    <3> TAKE k \in DOMAIN run.results
    <3>1. k \in 1..MaxChecks /\ k # run.index
      BY <1>1, <1>4, ChecksAssumption
    <3>2. ResultInv(k, run.results[k])
      BY <1>1 DEF RunInv
    <3>3. container'[<<run.ws, k>>] = container[<<run.ws, k>>] /\ ended \subseteq ended'
      BY <1>5, <3>1 DEF OwnContainer
    <3> QED BY <3>2, <3>3 DEF ResultInv
  <2>2. \A k \in 1..MaxChecks : k > run.index => container'[<<run.ws, k>>] = "absent"
    BY <1>1, <1>5 DEF RunInv
  <2> QED BY <1>4, <2>1, <2>2 DEF RunInv, Before, Inside
<1>7. SpoiledInv'
  BY <1>1 DEF SpoiledInv, OwnContainer, Inside
<1> QED BY <1>2, <1>3, <1>6, <1>7, RunMoves DEF OwnContainer

\* It fails at this point, for a reason that is true of the container.
LEMMA CheckFails ==
  ASSUME ChecksInv, Active, run.step \in Inside, OwnContainer,
         NEW to \in {"settle", "stop", "clean"}, NEW code \in Codes,
         code \in Telling => Told(run.ws, ended'),
         to = "clean" => code = "execution_uncertain",
         run' = Failing(to, code)
  PROVE  ChecksInv'
<1>1. RunShape /\ CurrentInv
  BY RunFacts
<1> DEFINE q == run'
<1>2. /\ DOMAIN q = RunFields /\ DOMAIN q.cur = ResultFields
      /\ q.step = to /\ q.cur.failures = run.cur.failures \cup {code}
      /\ q.plan = run.plan /\ q.ws = run.ws /\ q.index = run.index
      /\ q.results = run.results /\ q.codes = run.codes
      /\ q.cur.terminated = run.cur.terminated /\ q.cur.complete = run.cur.complete
  <2> HIDE DEF q
  <2>1. q = Failing(to, code)
    BY DEF q
  <2> QED BY <1>1, <2>1, FailedCheck DEF RunShape, CurrentInv
<1> HIDE DEF q
<1>3. Told(run.ws, ended) => Told(run.ws, ended')
  BY ToldStays DEF OwnContainer
<1>4. CurrentInv'
  <2>1. /\ q.cur.failures \subseteq Codes /\ q.cur.failures # {}
        /\ q.cur.failures \cap Telling # {} => Told(run.ws, ended')
    BY <1>1, <1>2, <1>3 DEF CurrentInv
  <2>2. q.cur.complete \in BOOLEAN /\ q.cur.terminated \in BOOLEAN
    BY <1>1, <1>2 DEF CurrentInv
  <2> QED BY <1>2, <2>1, <2>2 DEF CurrentInv, q
<1>5. q.step \in Inside \ {"create"}
  BY <1>2 DEF Inside
<1> QED BY <1>2, <1>4, <1>5, CheckGoesOn DEF q

\* The run whose checks are over for a reason of its own.
GivenUp(code) == [run EXCEPT !.step = "remove", !.codes = @ \cup {code}]

\* GiveUp ends the checks: whatever container is left, a code admits it, and
\* whatever became of the workspace.
LEMMA GivesUp ==
  ASSUME ChecksInv, Active, run.step # "remove", NEW code \in Codes \ Telling,
         UNCHANGED <<stage, plan, receipts, verdict, container, ended, spoiled>>,
         \/ UNCHANGED workspace
         \/ \E s \in {"none", "empty", "candidate", "altered"} :
              workspace' = [workspace EXCEPT ![run.ws] = s],
         \/ (run.codes \cup {code}) \cap Doubts # {}
         \/ \A k \in 1..MaxChecks : container[<<run.ws, k>>] = "absent",
         run' = GivenUp(code)
  PROVE  ChecksInv'
<1>1. /\ WorldInv /\ RunShape /\ CurrentInv /\ RunInv /\ run.step \in RunSteps
      /\ Len(run.results) \in Nat
  BY RunFacts
<1> DEFINE q == run'
<1>2. /\ DOMAIN q = RunFields /\ q.step = "remove" /\ q.codes = run.codes \cup {code}
      /\ q.plan = run.plan /\ q.ws = run.ws /\ q.index = run.index
      /\ q.results = run.results /\ q.cur = run.cur
  BY <1>1 DEF GivenUp, RunShape, RunFields
<1> HIDE DEF q
<1>3. RunShape'
  <2>1. Len(run.results) \in {run.index - 1, run.index}
    BY <1>1 DEF RunShape, RunSteps
  <2> QED BY <1>1, <1>2, <2>1 DEF RunShape, q, RunSteps, Before, Inside
<1>4. CurrentInv'
  BY <1>1, <1>2 DEF CurrentInv, q, Inside
<1>5. RunInv'
  <2>1. q.codes \subseteq Codes /\ q.codes \cap Telling = run.codes \cap Telling
    BY <1>1, <1>2 DEF RunInv
  <2>2. \A k \in DOMAIN run.results : ResultInv(k, run.results[k])'
    BY <1>1, <1>2 DEF RunInv, ResultInv, q
  <2> QED BY <1>1, <1>2, <2>1, <2>2 DEF RunInv, q, Before
<1>6. SpoiledInv'
  BY <1>2 DEF SpoiledInv, q
<1>7. WorldInv' /\ \A w \in Workspaces : w # run.ws => workspace'[w] = workspace[w]
  BY <1>1 DEF WorldInv
<1>8. Active' /\ run'.ws = run.ws
  BY <1>2 DEF Active, q
<1> QED BY <1>3, <1>4, <1>5, <1>6, <1>7, <1>8, RunMoves

\* The directory is filled, and the image inspected.
LEMMA MaterializePreserves ==
  ASSUME ChecksInv, Materialize
  PROVE  ChecksInv'
<1>1. run.step = "materialize" /\ Active
  BY DEF Materialize, At, Active
<1>2. /\ WorldInv /\ RunShape /\ CurrentInv /\ RunInv /\ SpoiledInv /\ run.ws \in Workspaces
      /\ Len(run.results) \in Nat
  BY <1>1, RunFacts
<1>3. UNCHANGED <<stage, plan, receipts, verdict, container, ended, spoiled>>
  BY DEF Materialize
<1>4. ASSUME NEW code \in AlteredCodes \cup {"execution_uncertain"}, GiveUp(code),
             \/ UNCHANGED workspace
             \/ workspace' = [workspace EXCEPT ![run.ws] = "altered"]
      PROVE  ChecksInv'
  <2>1. \A k \in 1..MaxChecks : container[<<run.ws, k>>] = "absent"
    BY <1>1, <1>2 DEF RunInv, RunShape, Before
  <2>2. code \in Codes \ Telling
    BY DEF Codes, AlteredCodes, Telling, Doubts
  <2>3. run' = GivenUp(code)
    BY <1>4 DEF GiveUp, GivenUp
  <2> QED BY <1>1, <1>3, <1>4, <2>1, <2>2, <2>3, GivesUp
<1>5. ASSUME workspace' = [workspace EXCEPT ![run.ws] = "candidate"],
             run' = [run EXCEPT !.step = "image"]
      PROVE  ChecksInv'
  <2> DEFINE q == run'
  <2>1. /\ DOMAIN q = RunFields /\ q.step = "image" /\ q.codes = run.codes
        /\ q.plan = run.plan /\ q.ws = run.ws /\ q.index = run.index
        /\ q.results = run.results /\ q.cur = run.cur
    BY <1>2, <1>5 DEF RunShape, RunFields
  <2> HIDE DEF q
  <2>2. WorldInv' /\ workspace'[run.ws] = "candidate"
    BY <1>2, <1>3, <1>5 DEF WorldInv
  <2>3. \A w \in Workspaces : w # run.ws => workspace'[w] = workspace[w]
    BY <1>2, <1>5 DEF WorldInv
  <2>4. RunShape'
    BY <1>1, <1>2, <1>3, <2>1 DEF RunShape, q, Before, Inside, RunSteps
  <2>5. CurrentInv'
    BY <1>1, <1>2, <1>3, <2>1 DEF CurrentInv, q, Before, Inside, RunShape, Fresh
  <2>6. RunInv'
    BY <1>1, <1>2, <1>3, <2>1 DEF RunInv, ResultInv, q, Before
  <2>7. SpoiledInv'
    BY <1>1, <1>2, <1>3, <2>1, <2>2 DEF SpoiledInv, q
  <2>8. Active' /\ run'.ws = run.ws
    BY <2>1 DEF Active, q
  <2> QED BY <1>1, <1>3, <2>2, <2>3, <2>4, <2>5, <2>6, <2>7, <2>8, RunMoves
<1> QED BY <1>4, <1>5 DEF Materialize, AlteredCodes

\* _image passes, or raises out of the generator before any container.
LEMMA InspectImagePreserves ==
  ASSUME ChecksInv, InspectImage
  PROVE  ChecksInv'
<1>1. run.step = "image" /\ Active
  BY DEF InspectImage, At, Active
<1>2. WorldInv /\ RunShape /\ CurrentInv /\ RunInv /\ SpoiledInv /\ run.ws \in Workspaces
  BY <1>1, RunFacts
<1>3. UNCHANGED <<stage, plan, receipts, verdict, container, workspace, ended, spoiled>>
  BY DEF InspectImage
<1>4. ASSUME NEW code \in {"execution_uncertain", "containment_unproven"}, GiveUp(code)
      PROVE  ChecksInv'
  <2>2. code \in Codes \ Telling /\ code \in Doubts
    BY DEF Codes, AlteredCodes, Telling, Doubts
  <2>3. run' = GivenUp(code)
    BY <1>4 DEF GiveUp, GivenUp
  <2> QED BY <1>1, <1>3, <2>2, <2>3, GivesUp
<1>5. ASSUME run' = [run EXCEPT !.step = "create"] PROVE ChecksInv'
  <2> DEFINE q == run'
  <2>1. /\ DOMAIN q = RunFields /\ q.step = "create" /\ q.codes = run.codes
        /\ q.plan = run.plan /\ q.ws = run.ws /\ q.index = run.index
        /\ q.results = run.results /\ q.cur = run.cur
    BY <1>2, <1>5 DEF RunShape, RunFields
  <2> HIDE DEF q
  <2>2. WorldInv'
    BY <1>2, <1>3 DEF WorldInv
  <2>4. RunShape'
    BY <1>1, <1>2, <1>3, <2>1 DEF RunShape, q, Before, Inside, RunSteps
  <2>5. CurrentInv'
    <3>1. run.cur.failures = {} /\ run.cur.complete = FALSE /\ run.cur.terminated = FALSE
      BY <1>1, <1>2 DEF RunShape, Fresh
    <3> QED BY <1>1, <1>2, <1>3, <2>1, <3>1 DEF CurrentInv, q, Inside
  <2>6. RunInv'
    BY <1>1, <1>2, <1>3, <2>1 DEF RunInv, ResultInv, q, Before
  <2>7. SpoiledInv'
    BY <1>1, <1>2, <1>3, <2>1 DEF SpoiledInv, q
  <2>8. Active' /\ run'.ws = run.ws
    BY <2>1 DEF Active, q
  <2> QED BY <1>1, <1>3, <2>2, <2>4, <2>5, <2>6, <2>7, <2>8, RunMoves
<1> QED BY <1>4, <1>5 DEF InspectImage

\* docker create, answered or not.
LEMMA CreatePreserves ==
  ASSUME ChecksInv, Create
  PROVE  ChecksInv'
<1>1. run.step = "create" /\ Active /\ run.step \in Inside
  BY DEF Create, At, Active, Inside
<1>2. RunShape /\ CurrentInv
  BY <1>1, RunFacts
<1>3. UNCHANGED <<stage, plan, receipts, verdict, workspace, ended, spoiled>>
  BY DEF Create
<1>4. ASSUME FailCheck("stop", "check_timeout"), UNCHANGED container PROVE ChecksInv'
  <2>1. run' = Failing("stop", "check_timeout")
    BY <1>4 DEF FailCheck, Failing
  <2>2. OwnContainer
    BY <1>1, <1>3, <1>4, NameStays
  <2>3. "check_timeout" \in Codes /\ "check_timeout" \notin Telling
    BY DEF Codes, AlteredCodes, Telling
  <2> QED BY <1>1, <2>1, <2>2, <2>3, CheckFails
<1>5. ASSUME NEW s \in {"absent", "pending", "created"},
             container' = [container EXCEPT ![Name] = s],
             FailCheck("stop", "execution_uncertain")
      PROVE  ChecksInv'
  <2>1. run' = Failing("stop", "execution_uncertain")
    BY <1>5 DEF FailCheck, Failing
  <2>2. OwnContainer
    <3>1. s \in ContainerStates /\ s \notin Exits
      BY DEF ContainerStates, Exits
    <3> QED BY <1>1, <1>3, <1>5, <3>1, NameMoves
  <2>3. "execution_uncertain" \in Codes /\ "execution_uncertain" \notin Telling
    BY DEF Codes, AlteredCodes, Telling, Doubts
  <2> QED BY <1>1, <2>1, <2>2, <2>3, CheckFails
<1>6. ASSUME container' = [container EXCEPT ![Name] = "created"],
             run' = [run EXCEPT !.step = "inspect", !.cur.verified = TRUE]
      PROVE  ChecksInv'
  <2>1. OwnContainer
    <3>1. "created" \in ContainerStates /\ "created" \notin Exits
      BY DEF ContainerStates, Exits
    <3> QED BY <1>1, <1>3, <1>6, <3>1, NameMoves
  <2> DEFINE q == run'
             c == [run.cur EXCEPT !.verified = TRUE]
  <2>2. /\ DOMAIN c = ResultFields /\ c.failures = run.cur.failures
        /\ c.complete = run.cur.complete /\ c.terminated = run.cur.terminated
    BY <1>2 DEF CurrentInv, ResultFields
  <2>3. q = [run EXCEPT !.step = "inspect", !.cur = c]
    BY <1>6
  <2> HIDE DEF q, c
  <2>4. /\ DOMAIN q = RunFields /\ q.step = "inspect" /\ q.codes = run.codes
        /\ q.plan = run.plan /\ q.ws = run.ws /\ q.index = run.index
        /\ q.results = run.results /\ q.cur = c
    BY <1>2, <2>3 DEF RunShape, RunFields
  <2>5. CurrentInv'
    <3>1. run.cur.failures = {}
      BY <1>1, <1>2 DEF CurrentInv
    <3> QED BY <1>1, <1>2, <2>2, <2>4, <3>1 DEF CurrentInv, q
  <2>6. q.step \in Inside \ {"create"}
    BY <2>4 DEF Inside
  <2> QED BY <1>1, <2>1, <2>4, <2>5, <2>6, CheckGoesOn DEF q
<1> QED BY <1>4, <1>5, <1>6 DEF Create

\* The last look at the tree, and docker start.
LEMMA InspectAndStartPreserves ==
  ASSUME ChecksInv, InspectAndStart
  PROVE  ChecksInv'
<1>1. run.step = "inspect" /\ Active /\ run.step \in Inside
  BY DEF InspectAndStart, At, Active, Inside
<1>2. RunShape /\ CurrentInv
  BY <1>1, RunFacts
<1>3. UNCHANGED <<stage, plan, receipts, verdict, workspace, ended, spoiled>>
  BY DEF InspectAndStart
<1>4. ASSUME NEW to \in {"stop", "settle"},
             NEW code \in AlteredCodes \cup
                           {"execution_uncertain", "containment_unproven", "check_timeout"},
             FailCheck(to, code), UNCHANGED container
      PROVE  ChecksInv'
  <2>1. run' = Failing(to, code)
    BY <1>4 DEF FailCheck, Failing
  <2>2. OwnContainer
    BY <1>1, <1>3, <1>4, NameStays
  <2>3. code \in Codes /\ code \notin Telling
    BY DEF Codes, AlteredCodes, Telling, Doubts
  <2> QED BY <1>1, <2>1, <2>2, <2>3, CheckFails
<1>5. ASSUME container' = [container EXCEPT ![Name] = "starting"],
             run' = [run EXCEPT !.step = "collect"]
      PROVE  ChecksInv'
  <2>1. OwnContainer
    <3>1. "starting" \in ContainerStates /\ "starting" \notin Exits
      BY DEF ContainerStates, Exits
    <3> QED BY <1>1, <1>3, <1>5, <3>1, NameMoves
  <2> DEFINE q == run'
  <2>2. /\ DOMAIN q = RunFields /\ q.step = "collect" /\ q.codes = run.codes
        /\ q.plan = run.plan /\ q.ws = run.ws /\ q.index = run.index
        /\ q.results = run.results /\ q.cur = run.cur
    BY <1>2, <1>5 DEF RunShape, RunFields
  <2> HIDE DEF q
  <2>3. CurrentInv'
    <3>1. run.cur.failures = {}
      BY <1>1, <1>2 DEF CurrentInv
    <3> QED BY <1>1, <1>2, <2>2, <3>1 DEF CurrentInv, q
  <2>4. q.step \in Inside \ {"create"}
    BY <2>2 DEF Inside
  <2> QED BY <1>1, <2>1, <2>2, <2>3, <2>4, CheckGoesOn DEF q
<1> QED BY <1>4, <1>5 DEF InspectAndStart

\* The attached client ends, is refused, or is given up.
LEMMA CollectPreserves ==
  ASSUME ChecksInv, Collect
  PROVE  ChecksInv'
<1>1. run.step = "collect" /\ Active /\ run.step \in Inside
  BY DEF Collect, At, Active, Inside
<1>2. /\ RunShape /\ CurrentInv /\ Name \in Names
      /\ run.index \in 1..MaxChecks
  BY <1>1, RunFacts
<1>3. UNCHANGED <<stage, plan, receipts, verdict, workspace, spoiled>> /\ ended \subseteq ended'
  BY DEF Collect
<1>4. ASSUME OwnContainer, run' = [run EXCEPT !.step = "settle", !.cur.complete = TRUE]
      PROVE  ChecksInv'
  <2> DEFINE q == run'
             c == [run.cur EXCEPT !.complete = TRUE]
  <2>2. /\ DOMAIN c = ResultFields /\ c.failures = run.cur.failures
        /\ c.complete = TRUE /\ c.terminated = run.cur.terminated
    BY <1>2 DEF CurrentInv, ResultFields
  <2>3. q = [run EXCEPT !.step = "settle", !.cur = c]
    BY <1>4
  <2> HIDE DEF q, c
  <2>4. /\ DOMAIN q = RunFields /\ q.step = "settle" /\ q.codes = run.codes
        /\ q.plan = run.plan /\ q.ws = run.ws /\ q.index = run.index
        /\ q.results = run.results /\ q.cur = c
    BY <1>2, <2>3 DEF RunShape, RunFields
  <2>5. CurrentInv'
    <3>1. run.cur.failures = {}
      BY <1>1, <1>2 DEF CurrentInv
    <3> QED BY <1>1, <1>2, <2>2, <2>4, <3>1 DEF CurrentInv, q
  <2>6. q.step \in Inside \ {"create"}
    BY <2>4 DEF Inside
  <2> QED BY <1>1, <1>4, <2>4, <2>5, <2>6, CheckGoesOn DEF q
<1>5. ASSUME run' = [run EXCEPT !.step = "settle", !.cur.complete = TRUE],
             UNCHANGED <<container, ended>>
      PROVE  ChecksInv'
  <2>1. OwnContainer
    BY <1>1, <1>3, <1>5, NameStays
  <2> QED BY <1>4, <1>5, <2>1
<1>6. ASSUME container' = [container EXCEPT ![Name] = "created"],
             run' = [run EXCEPT !.step = "settle", !.cur.complete = TRUE],
             UNCHANGED ended
      PROVE  ChecksInv'
  <2>1. OwnContainer
    <3>1. "created" \in ContainerStates /\ "created" \notin Exits
      BY DEF ContainerStates, Exits
    <3> QED BY <1>1, <1>3, <1>6, <3>1, NameMoves
  <2> QED BY <1>4, <1>6, <2>1
<1>7. ASSUME NEW code \in {"check_timeout", "execution_uncertain"}, FailCheck("settle", code),
             UNCHANGED <<container, ended>>
      PROVE  ChecksInv'
  <2>1. run' = Failing("settle", code)
    BY <1>7 DEF FailCheck, Failing
  <2>2. OwnContainer
    BY <1>1, <1>3, <1>7, NameStays
  <2>3. code \in Codes /\ code \notin Telling
    BY DEF Codes, AlteredCodes, Telling, Doubts
  <2> QED BY <1>1, <2>1, <2>2, <2>3, CheckFails
<1>8. ASSUME FailCheck("settle", "output_bound_exceeded"),
             ended' = ended \cup {<<Name, "overflow">>}, UNCHANGED container
      PROVE  ChecksInv'
  <2>1. run' = Failing("settle", "output_bound_exceeded")
    BY <1>8 DEF FailCheck, Failing
  <2>2. OwnContainer
    BY <1>1, <1>3, <1>8, NameStays
  <2>3. "output_bound_exceeded" \in Codes
    BY DEF Codes, AlteredCodes
  <2>4. Told(run.ws, ended')
    BY <1>2, <1>8 DEF Told, Name
  <2> QED BY <1>1, <2>1, <2>2, <2>3, <2>4, CheckFails
<1> QED BY <1>5, <1>6, <1>7, <1>8 DEF Collect

\* A container that was stopped, or was not, ended as the history says.
LEMMA StoppedState ==
  ASSUME ChecksInv, Active, NEW s \in Stopped(container[Name]) \cup {container[Name]},
         container' = [container EXCEPT ![Name] = s], ended' = ended \cup EndedWith(s),
         UNCHANGED <<stage, plan, receipts, verdict, workspace, spoiled>>
  PROVE  OwnContainer /\ (s \in Exits => <<Name, s>> \in ended')
<1>1. Name \in Names /\ WorldInv
  BY RunFacts
<1> DEFINE m == Name
<1>2. /\ container[m] \in ContainerStates
      /\ container[m] \in Exits => <<m, container[m]>> \in ended
  BY <1>1 DEF WorldInv, Names
<1>3. /\ s \in ContainerStates /\ ended \subseteq ended'
      /\ s \in Exits => <<m, s>> \in ended'
  <2> HIDE DEF m
  <2>1. s = container[m] \/ s = "high"
    BY DEF Stopped, m
  <2>2. s # container[m] => <<m, s>> \in ended'
    BY DEF EndedWith, m
  <2> QED BY <1>2, <2>1, <2>2 DEF ContainerStates, Exits
<1> QED BY <1>3, NameMoves

\* How the container ended is read, after it was stopped if need be.
LEMMA SettlePreserves ==
  ASSUME ChecksInv, Settle
  PROVE  ChecksInv'
<1>1. run.step = "settle" /\ Active /\ run.step \in Inside
  BY DEF Settle, At, Active, Inside
<1>2. /\ RunShape /\ CurrentInv /\ Name \in Names /\ WorldInv
      /\ run.index \in 1..MaxChecks
  BY <1>1, RunFacts
<1>3. UNCHANGED <<stage, plan, receipts, verdict, workspace, spoiled>>
  BY DEF Settle
<1>4. PICK s \in IF run.cur.failures = {} THEN {container[Name]}
                 ELSE Stopped(container[Name]) :
        /\ container' = [container EXCEPT ![Name] = s]
        /\ ended' = ended \cup EndedWith(s)
        /\ \/ run' = [run EXCEPT
                        !.step = "stop",
                        !.cur.performed = s \in {"running"} \cup Exits,
                        !.cur.terminated = s \in Exits,
                        !.cur.exit = IF s \in {"low", "high"} THEN s ELSE "zero",
                        !.cur.failures = @ \cup StateFailures(s)]
           \/ FailCheck("stop", "execution_uncertain")
  BY DEF Settle
<1>5. s \in Stopped(container[Name]) \cup {container[Name]}
  BY <1>4
<1>6. OwnContainer /\ (s \in Exits => <<Name, s>> \in ended')
  BY <1>1, <1>3, <1>4, <1>5, StoppedState
<1>7. CASE FailCheck("stop", "execution_uncertain")
  <2>1. run' = Failing("stop", "execution_uncertain")
    BY <1>7 DEF FailCheck, Failing
  <2>2. "execution_uncertain" \in Codes /\ "execution_uncertain" \notin Telling
    BY DEF Codes, AlteredCodes, Telling, Doubts
  <2> QED BY <1>1, <1>6, <2>1, <2>2, CheckFails
<1>8. CASE run' = [run EXCEPT
                     !.step = "stop",
                     !.cur.performed = s \in {"running"} \cup Exits,
                     !.cur.terminated = s \in Exits,
                     !.cur.exit = IF s \in {"low", "high"} THEN s ELSE "zero",
                     !.cur.failures = @ \cup StateFailures(s)]
  <2> DEFINE q == run'
             performed == s \in {"running"} \cup Exits
             terminated == s \in Exits
             exit == IF s \in {"low", "high"} THEN s ELSE "zero"
             added == StateFailures(s)
             c == [run.cur EXCEPT !.performed = performed, !.terminated = terminated,
                                  !.exit = exit, !.failures = @ \cup added]
  <2>1. q = [run EXCEPT !.step = "stop", !.cur = c]
    BY <1>8
  <2>2. /\ performed \in BOOLEAN /\ terminated \in BOOLEAN
        /\ performed <=> s \in {"running"} \cup Exits
        /\ terminated <=> s \in Exits
    OBVIOUS
  <2>3. /\ exit = IF s \in {"low", "high"} THEN s ELSE "zero"
        /\ added = StateFailures(s)
    OBVIOUS
  <2> HIDE DEF performed, terminated, exit, added
  <2>4. /\ DOMAIN c = ResultFields /\ c.failures = run.cur.failures \cup added
        /\ c.complete = run.cur.complete /\ c.terminated = terminated
        /\ c.performed = performed /\ c.exit = exit
    BY <1>2 DEF CurrentInv, ResultFields
  <2> HIDE DEF q, c
  <2>5. /\ DOMAIN q = RunFields /\ q.step = "stop" /\ q.codes = run.codes
        /\ q.plan = run.plan /\ q.ws = run.ws /\ q.index = run.index
        /\ q.results = run.results /\ q.cur = c
    BY <1>2, <2>1 DEF RunShape, RunFields
  <2>6. added \subseteq {"execution_uncertain", "check_nonzero_exit"}
    BY <2>3 DEF StateFailures
  <2>7. c.failures \subseteq Codes
    BY <1>2, <2>4, <2>6 DEF CurrentInv, Codes, Doubts
  <2>8. ASSUME c.failures \cap Telling # {} PROVE Told(run.ws, ended')
    <3>1. CASE run.cur.failures \cap Telling # {}
      BY <1>2, <1>6, <3>1, ToldStays DEF CurrentInv, OwnContainer
    <3>2. CASE run.cur.failures \cap Telling = {}
      <4>1. s \in {"low", "high"}
        BY <2>3, <2>4, <2>8, <3>2 DEF StateFailures, Telling
      <4> QED BY <1>2, <1>6, <4>1 DEF Told, Name, Exits
    <3> QED BY <3>1, <3>2
  <2>9. ASSUME c.failures = {} PROVE Clean(c) /\ <<Name, "zero">> \in ended'
    <3>1. run.cur.failures = {} /\ added = {}
      BY <2>4, <2>9
    <3>2. s = "zero"
      BY <2>3, <3>1 DEF StateFailures
    <3>3. performed /\ terminated /\ exit = "zero" /\ run.cur.complete
      BY <1>1, <1>2, <2>2, <2>3, <3>1, <3>2 DEF CurrentInv, Exits
    <3> QED BY <1>6, <2>4, <3>2, <3>3 DEF Clean, Exits
  <2>10. CurrentInv'
    <3>1. c.complete \in BOOLEAN /\ c.terminated \in BOOLEAN /\ (c.complete \/ c.failures # {})
      BY <1>1, <1>2, <2>2, <2>4 DEF CurrentInv
    <3> QED BY <2>4, <2>5, <2>7, <2>8, <2>9, <3>1 DEF CurrentInv, q, Name
  <2>11. q.step \in Inside \ {"create"}
    BY <2>5 DEF Inside
  <2> QED BY <1>1, <1>6, <2>5, <2>10, <2>11, CheckGoesOn DEF q
<1> QED BY <1>4, <1>7, <1>8

\* Stopping in the finally block.
LEMMA StopInFinallyPreserves ==
  ASSUME ChecksInv, StopInFinally
  PROVE  ChecksInv'
<1>1. run.step = "stop" /\ Active /\ run.step \in Inside
  BY DEF StopInFinally, At, Active, Inside
<1>2. /\ RunShape /\ CurrentInv /\ Name \in Names /\ WorldInv
      /\ run.index \in 1..MaxChecks
  BY <1>1, RunFacts
<1>3. UNCHANGED <<stage, plan, receipts, verdict, workspace, spoiled>>
  BY DEF StopInFinally
<1>4. ASSUME run.cur.terminated, run' = [run EXCEPT !.step = "clean"],
             UNCHANGED <<container, ended>>
      PROVE  ChecksInv'
  <2>1. OwnContainer
    BY <1>1, <1>3, <1>4, NameStays
  <2> DEFINE q == run'
  <2>2. /\ DOMAIN q = RunFields /\ q.step = "clean" /\ q.codes = run.codes
        /\ q.plan = run.plan /\ q.ws = run.ws /\ q.index = run.index
        /\ q.results = run.results /\ q.cur = run.cur
    BY <1>2, <1>4 DEF RunShape, RunFields
  <2> HIDE DEF q
  <2>3. CurrentInv'
    <3> DEFINE c == run.cur
    <3>1. /\ DOMAIN c = ResultFields /\ c.failures \subseteq Codes
          /\ c.failures \cap Telling # {} => Told(run.ws, ended)
          /\ c.complete \/ c.failures # {}
          /\ c.failures # {} \/ (Clean(c) /\ <<Name, "zero">> \in ended)
          /\ c.complete \in BOOLEAN /\ c.terminated \in BOOLEAN
      BY <1>1, <1>2 DEF CurrentInv
    <3>2. c.terminated /\ ended' = ended
      BY <1>4
    <3>3. run'.cur = c /\ run'.ws = run.ws /\ run'.step = "clean" /\ run'.index = run.index
      BY <2>2 DEF q
    <3> HIDE DEF c
    <3> QED BY <3>1, <3>2, <3>3 DEF CurrentInv, Name
  <2>4. q.step \in Inside \ {"create"}
    BY <2>2 DEF Inside
  <2> QED BY <1>1, <2>1, <2>2, <2>3, <2>4, CheckGoesOn DEF q
<1>5. ASSUME ~run.cur.terminated, NEW s \in Stopped(container[Name]),
             container' = [container EXCEPT ![Name] = s],
             ended' = ended \cup EndedWith(s),
             \/ run' = [run EXCEPT !.step = "clean", !.cur.terminated = TRUE]
             \/ FailCheck("clean", "execution_uncertain")
      PROVE  ChecksInv'
  <2>1. OwnContainer
    BY <1>1, <1>3, <1>5, StoppedState
  <2>2. CASE FailCheck("clean", "execution_uncertain")
    <3>1. run' = Failing("clean", "execution_uncertain")
      BY <2>2 DEF FailCheck, Failing
    <3>2. "execution_uncertain" \in Codes /\ "execution_uncertain" \notin Telling
      BY DEF Codes, AlteredCodes, Telling, Doubts
    <3> QED BY <1>1, <2>1, <3>1, <3>2, CheckFails
  <2>3. CASE run' = [run EXCEPT !.step = "clean", !.cur.terminated = TRUE]
    <3> DEFINE q == run'
               c == [run.cur EXCEPT !.terminated = TRUE]
    <3>1. /\ DOMAIN c = ResultFields /\ c.failures = run.cur.failures
          /\ c.complete = run.cur.complete /\ c.terminated = TRUE
      BY <1>2 DEF CurrentInv, ResultFields
    <3>2. q = [run EXCEPT !.step = "clean", !.cur = c]
      BY <2>3
    <3> HIDE DEF q, c
    <3>3. /\ DOMAIN q = RunFields /\ q.step = "clean" /\ q.codes = run.codes
          /\ q.plan = run.plan /\ q.ws = run.ws /\ q.index = run.index
          /\ q.results = run.results /\ q.cur = c
      BY <1>2, <3>2 DEF RunShape, RunFields
    <3>4. CurrentInv'
      <4>1. run.cur.failures # {}
        BY <1>1, <1>2, <1>5 DEF CurrentInv, Clean
      <4>2. Told(run.ws, ended) => Told(run.ws, ended')
        BY <2>1, ToldStays DEF OwnContainer
      <4> QED BY <1>1, <1>2, <3>1, <3>3, <4>1, <4>2 DEF CurrentInv, q, Inside
    <3>5. q.step \in Inside \ {"create"}
      BY <3>3 DEF Inside
    <3> QED BY <1>1, <2>1, <3>3, <3>4, <3>5, CheckGoesOn DEF q
  <2> QED BY <1>5, <2>2, <2>3
<1>6. ASSUME GiveUp("execution_uncertain"), UNCHANGED <<container, ended>>
      PROVE  ChecksInv'
  <2>1. "execution_uncertain" \in Codes \ Telling /\ "execution_uncertain" \in Doubts
    BY DEF Codes, AlteredCodes, Telling, Doubts
  <2>2. run' = GivenUp("execution_uncertain")
    BY <1>6 DEF GiveUp, GivenUp
  <2> QED BY <1>1, <1>3, <1>6, <2>1, <2>2, GivesUp
<1> QED BY <1>4, <1>5, <1>6 DEF StopInFinally

\* The result that is made of a check is coherent, whatever was found out, and
\* the run goes on with it.
LEMMA ReportPreserves ==
  ASSUME ChecksInv, Active, run.step = "clean", OwnContainer, NEW cleaned \in BOOLEAN,
         cleaned => container'[Name] = "absent", Report(cleaned)
  PROVE  ChecksInv'
<1>1. /\ RunShape /\ CurrentInv /\ RunInv /\ SpoiledInv /\ run.ws \in Workspaces
      /\ run.index \in 1..Len(run.plan.checks) /\ run.index \in 1..MaxChecks
      /\ IsPlan(run.plan)
      /\ DOMAIN run.results = 1..Len(run.results) /\ Len(run.results) \in Nat
  BY RunFacts
<1>2. Len(run.results) = run.index - 1 /\ run.codes = {} /\ IsList(run.results)
  BY <1>1 DEF RunShape, Inside
<1> DEFINE old == run.cur
           n == Name
           swept == old.failures \cup (IF cleaned THEN {} ELSE {"cleanup_uncertain"})
           open == {"check_timeout", "output_bound_exceeded", "execution_uncertain"}
           failures == IF old.complete \/ swept \cap open # {}
                       THEN swept ELSE swept \cup {"execution_uncertain"}
           result == [old EXCEPT !.cleaned = cleaned, !.failures = failures]
           last == failures # {} \/ run.index = Len(run.plan.checks)
           index == IF last THEN run.index ELSE run.index + 1
           step == IF last THEN "observe" ELSE "create"
<1>q. PICK q : q = run'
  OBVIOUS
<1>3. \/ ~ResultIsCoherent(result)
      \/ q = [run EXCEPT !.results = Append(@, result),
                         !.codes = @ \cup failures,
                         !.index = index,
                         !.cur = Fresh,
                         !.step = step]
  BY <1>q DEF Report
<1>4. /\ DOMAIN old = ResultFields /\ old.failures \subseteq Codes
      /\ old.failures \cap Telling # {} => Told(run.ws, ended)
      /\ old.complete \/ old.failures # {}
      /\ old.failures # {} \/ (Clean(old) /\ <<n, "zero">> \in ended)
      /\ old.terminated \/ "execution_uncertain" \in old.failures
      /\ old.complete \in BOOLEAN /\ old.terminated \in BOOLEAN
  BY <1>1 DEF CurrentInv, Inside
<1> HIDE DEF old
<1>5. /\ old.failures \subseteq failures
      /\ cleaned \/ "cleanup_uncertain" \in failures
      /\ old.complete \/ failures \cap open # {}
      /\ failures \subseteq old.failures \cup {"cleanup_uncertain", "execution_uncertain"}
  <2>1. /\ old.failures \subseteq swept /\ (cleaned \/ "cleanup_uncertain" \in swept)
        /\ swept \subseteq old.failures \cup {"cleanup_uncertain"}
    OBVIOUS
  <2> HIDE DEF swept
  <2> QED BY <2>1
<1> HIDE DEF swept, open
<1> HIDE DEF failures
<1>6. /\ failures \subseteq Codes
      /\ failures \cap Telling # {} => Told(run.ws, ended')
      /\ failures = {} => cleaned /\ Clean(old) /\ <<n, "zero">> \in ended'
  <2>1. Told(run.ws, ended) => Told(run.ws, ended')
    BY ToldStays DEF OwnContainer
  <2>2. failures \cap Telling # {} => old.failures \cap Telling # {}
    BY <1>5 DEF Telling
  <2> QED BY <1>4, <1>5, <2>1, <2>2 DEF Codes, Doubts, OwnContainer
<1>7. /\ DOMAIN result = ResultFields /\ result.cleaned = cleaned
      /\ result.failures = failures /\ result.complete = old.complete
      /\ result.terminated = old.terminated /\ result.performed = old.performed
      /\ result.exit = old.exit
  BY <1>4 DEF ResultFields
<1> HIDE DEF result
<1>8. ResultIsCoherent(result)
  <2>1. result.failures = {} =>
          result.performed /\ result.exit = "zero" /\ result.complete /\ result.terminated
          /\ result.cleaned
    BY <1>6, <1>7 DEF Clean
  <2>2. result.cleaned \/ "cleanup_uncertain" \in result.failures
    BY <1>5, <1>7
  <2>3. result.terminated \/ "execution_uncertain" \in result.failures
    BY <1>4, <1>5, <1>7
  <2>4. result.complete \/ result.failures \cap {"output_bound_exceeded", "execution_uncertain",
                                                 "check_timeout"} # {}
    BY <1>5, <1>7 DEF open
  <2> QED BY <2>1, <2>2, <2>3, <2>4 DEF ResultIsCoherent
<1>9. /\ DOMAIN q = RunFields /\ q.results = Append(run.results, result)
      /\ q.codes = failures /\ q.index = index
      /\ q.cur = Fresh /\ q.step = step
      /\ q.plan = run.plan /\ q.ws = run.ws
  <2> HIDE DEF index, step
  <2> DEFINE results == Append(run.results, result)
             codes == run.codes \cup failures
             fresh == Fresh
  <2>1. q = [run EXCEPT !.results = results, !.codes = codes, !.index = index,
                        !.cur = fresh, !.step = step]
    BY <1>3, <1>8
  <2>2. codes = failures
    BY <1>2
  <2>3. DOMAIN run = RunFields
    BY <1>1 DEF RunShape
  <2> HIDE DEF results, codes, fresh
  <2>4. /\ DOMAIN q = RunFields /\ q.results = results /\ q.codes = codes /\ q.index = index
        /\ q.cur = fresh /\ q.step = step /\ q.plan = run.plan /\ q.ws = run.ws
    BY <2>1, <2>3 DEF RunFields
  <2> QED BY <2>2, <2>4 DEF results, fresh
<1>10. /\ IsList(q.results) /\ Len(q.results) = run.index /\ DOMAIN q.results = 1..run.index
       /\ \A k \in 1..Len(run.results) : q.results[k] = run.results[k]
       /\ q.results[run.index] = result
  <2>1. /\ IsList(Append(run.results, result))
        /\ Len(Append(run.results, result)) = Len(run.results) + 1
        /\ DOMAIN Append(run.results, result) = 1..(Len(run.results) + 1)
        /\ \A k \in 1..Len(run.results) : Append(run.results, result)[k] = run.results[k]
        /\ Append(run.results, result)[Len(run.results) + 1] = result
    BY <1>2, Appended
  <2>2. Len(run.results) + 1 = run.index
    BY <1>1, <1>2
  <2> QED BY <1>9, <2>1, <2>2
<1>11. Len(run.plan.checks) \in Nat
  BY <1>1 DEF IsPlan
<1>12. /\ q.step \in {"observe", "create"} /\ q.index \in 1..Len(q.plan.checks)
       /\ q.step = "create" => q.index = run.index + 1 /\ q.codes = {}
       /\ q.step = "observe" => q.index = run.index
  BY <1>1, <1>9, <1>11
<1>13. RunShape'
  <2>1. Len(q.results) = (IF q.step = "create" THEN q.index - 1 ELSE q.index)
    BY <1>1, <1>10, <1>12
  <2>2. TreeIsValid(q.plan.structural.tree) /\ q.plan = plan' /\ q.ws = Len(receipts') + 1
    BY <1>1, <1>9 DEF RunShape, OwnContainer
  <2> QED BY <1>q, <1>9, <1>10, <1>12, <2>1, <2>2 DEF RunShape, RunSteps, Before, Inside
<1>14. CurrentInv'
  <2>1. DOMAIN Fresh = ResultFields /\ Fresh.failures = {} /\ Fresh.complete = FALSE
        /\ Fresh.terminated = FALSE
    BY DEF Fresh, ResultFields
  <2> QED BY <1>q, <1>9, <1>12, <2>1 DEF CurrentInv
<1>15. \A k \in 1..MaxChecks : k # run.index => container'[<<run.ws, k>>] = container[<<run.ws, k>>]
  <2>1. \A k \in 1..MaxChecks : k # run.index => <<run.ws, k>> \in Names /\ <<run.ws, k>> # Name
    BY <1>1, NameParts DEF Name
  <2> QED BY <2>1 DEF OwnContainer
<1>16. ASSUME NEW k \in DOMAIN q.results PROVE ResultInv(k, q.results[k])'
  <2>1. CASE k = run.index
    <3>1. q.results[k] = result
      BY <1>10, <2>1
    <3>2. n = <<run.ws, k>>
      BY <2>1 DEF Name
    <3> HIDE DEF n
    <3>3. cleaned => container'[<<run.ws, k>>] = "absent"
      BY <3>2 DEF n
    <3> QED BY <1>q, <1>5, <1>6, <1>7, <1>9, <3>1, <3>2, <3>3 DEF ResultInv, Clean
  <2>2. CASE k # run.index
    <3>1. k \in 1..Len(run.results) /\ k \in 1..MaxChecks
      BY <1>1, <1>2, <1>10, <2>2, ChecksAssumption
    <3>2. ResultInv(k, run.results[k])
      BY <1>1, <3>1 DEF RunInv
    <3>3. q.results[k] = run.results[k]
      BY <1>10, <3>1
    <3> QED BY <1>q, <1>2, <1>9, <1>15, <2>2, <3>1, <3>2, <3>3 DEF ResultInv, OwnContainer
  <2> QED BY <2>1, <2>2
<1>17. RunInv'
  <2>1. ASSUME NEW k \in 1..MaxChecks, k > q.index \/ (k = q.index /\ q.step \in Before)
        PROVE  container'[<<run.ws, k>>] = "absent"
    <3>1. k > run.index
      BY <1>1, <1>12, <2>1 DEF Before
    <3>2. k # run.index
      BY <1>1, <3>1
    <3> QED BY <1>1, <1>15, <3>1, <3>2 DEF RunInv
  <2> QED BY <1>q, <1>6, <1>9, <1>12, <1>16, <2>1 DEF RunInv
<1>18. SpoiledInv'
  BY <1>q, <1>1, <1>9, <1>12 DEF SpoiledInv, OwnContainer
<1>19. Active' /\ run'.ws = run.ws
  BY <1>q, <1>9, <1>12 DEF Active
<1> QED BY <1>13, <1>14, <1>17, <1>18, <1>19, RunMoves DEF OwnContainer

\* Removal of the container, confirmed or not.
LEMMA CleanUpPreserves ==
  ASSUME ChecksInv, CleanUp
  PROVE  ChecksInv'
<1>1. run.step = "clean" /\ Active /\ run.step \in Inside
  BY DEF CleanUp, At, Active, Inside
<1>2. Name \in Names /\ WorldInv
  BY <1>1, RunFacts
<1>3. UNCHANGED <<stage, plan, receipts, verdict, workspace, ended, spoiled>>
  BY DEF CleanUp
<1>4. ASSUME container' = [container EXCEPT ![Name] = "absent"], Report(TRUE)
      PROVE  ChecksInv'
  <2>1. OwnContainer
    <3>1. "absent" \in ContainerStates /\ "absent" \notin Exits
      BY DEF ContainerStates, Exits
    <3> QED BY <1>1, <1>3, <1>4, <3>1, NameMoves
  <2>2. container'[Name] = "absent"
    <3> DEFINE m == Name
    <3>1. m \in Names /\ container' = [container EXCEPT ![m] = "absent"]
      BY <1>2, <1>4
    <3> HIDE DEF m
    <3>2. container'[m] = "absent"
      BY <1>2, <3>1 DEF WorldInv, Names
    <3> QED BY <3>2 DEF m
  <2> QED BY <1>1, <1>4, <2>1, <2>2, ReportPreserves
<1>5. ASSUME NEW s \in {container[Name]} \cup
                        (IF container[Name] = "pending" THEN {} ELSE {"absent"}),
             container' = [container EXCEPT ![Name] = s], Report(FALSE)
      PROVE  ChecksInv'
  <2>1. OwnContainer
    <3>1. s \in ContainerStates /\ (s \in Exits => <<Name, s>> \in ended')
      <4> DEFINE m == Name
      <4>1. /\ container[m] \in ContainerStates
            /\ container[m] \in Exits => <<m, container[m]>> \in ended
        BY <1>2 DEF WorldInv, Names
      <4> HIDE DEF m
      <4>2. s = container[m] \/ s = "absent"
        BY DEF m
      <4> QED BY <1>3, <4>1, <4>2 DEF ContainerStates, Exits, m
    <3> QED BY <1>1, <1>3, <1>5, <3>1, NameMoves
  <2> QED BY <1>1, <1>5, <2>1, ReportPreserves
<1>6. ASSUME GiveUp("execution_uncertain"), UNCHANGED container
      PROVE  ChecksInv'
  <2>1. "execution_uncertain" \in Codes \ Telling /\ "execution_uncertain" \in Doubts
    BY DEF Codes, AlteredCodes, Telling, Doubts
  <2>2. run' = GivenUp("execution_uncertain")
    BY <1>6 DEF GiveUp, GivenUp
  <2> QED BY <1>1, <1>3, <1>6, <2>1, <2>2, GivesUp
<1> QED BY <1>4, <1>5, <1>6 DEF CleanUp

\* The last look at the tree.
LEMMA ObservePreserves ==
  ASSUME ChecksInv, Observe
  PROVE  ChecksInv'
<1>1. run.step = "observe" /\ Active
  BY DEF Observe, At, Active
<1>2. /\ WorldInv /\ RunShape /\ CurrentInv /\ RunInv /\ SpoiledInv /\ run.ws \in Workspaces
      /\ DOMAIN run.results = 1..Len(run.results) /\ Len(run.results) \in Nat
      /\ run.index \in 1..MaxChecks
  BY <1>1, RunFacts
<1>3. UNCHANGED <<stage, plan, receipts, verdict, container, workspace, ended, spoiled>>
  BY DEF Observe
<1>4. \/ run.codes \cap Doubts # {}
      \/ \A k \in 1..MaxChecks : container[<<run.ws, k>>] = "absent"
  <2> SUFFICES ASSUME run.codes \cap Doubts = {}, NEW k \in 1..MaxChecks
               PROVE  container[<<run.ws, k>>] = "absent"
    OBVIOUS
  <2>1. CASE k > run.index
    BY <1>2, <2>1 DEF RunInv
  <2>2. CASE ~(k > run.index)
    <3>1. k \in DOMAIN run.results
      BY <1>1, <1>2, <2>2, ChecksAssumption DEF RunShape
    <3>2. ResultInv(k, run.results[k])
      BY <1>2, <3>1 DEF RunInv
    <3> QED BY <3>2 DEF ResultInv, Doubts
  <2> QED BY <2>1, <2>2
<1>5. ASSUME NEW code \in AlteredCodes \cup {"execution_uncertain"}, GiveUp(code)
      PROVE  ChecksInv'
  <2>1. code \in Codes \ Telling
    BY DEF Codes, AlteredCodes, Telling, Doubts
  <2>2. run' = GivenUp(code)
    BY <1>5 DEF GiveUp, GivenUp
  <2>3. \/ (run.codes \cup {code}) \cap Doubts # {}
        \/ \A k \in 1..MaxChecks : container[<<run.ws, k>>] = "absent"
    BY <1>4
  <2> QED BY <1>1, <1>3, <2>1, <2>2, <2>3, GivesUp
<1>6. ASSUME workspace[run.ws] = "candidate", run' = [run EXCEPT !.step = "remove"]
      PROVE  ChecksInv'
  <2>q. PICK q : q = run'
    OBVIOUS
  <2>1. /\ DOMAIN q = RunFields /\ q.step = "remove" /\ q.codes = run.codes
        /\ q.plan = run.plan /\ q.ws = run.ws /\ q.index = run.index
        /\ q.results = run.results /\ q.cur = run.cur
    BY <1>2, <1>6, <2>q DEF RunShape, RunFields
  <2>2. WorldInv'
    BY <1>2, <1>3 DEF WorldInv
  <2>4. RunShape'
    BY <1>1, <1>2, <1>3, <2>q, <2>1 DEF RunShape, Before, Inside, RunSteps
  <2>5. CurrentInv'
    BY <1>1, <1>2, <1>3, <2>q, <2>1 DEF CurrentInv, Inside
  <2>6. RunInv'
    BY <1>1, <1>2, <1>3, <1>4, <2>q, <2>1 DEF RunInv, ResultInv, Before
  <2>7. SpoiledInv'
    BY <1>1, <1>2, <1>3, <1>6, <2>q, <2>1 DEF SpoiledInv
  <2>8. Active' /\ run'.ws = run.ws
    BY <2>q, <2>1 DEF Active
  <2> QED BY <1>1, <1>3, <2>2, <2>4, <2>5, <2>6, <2>7, <2>8, RunMoves
<1> QED BY <1>5, <1>6 DEF Observe

\* The receipt says of the run what the run knew.
LEMMA RemoveWorkspacePreserves ==
  ASSUME ChecksInv, RemoveWorkspace
  PROVE  ChecksInv'
<1>1. run.step = "remove" /\ Active
  BY DEF RemoveWorkspace, At, Active
<1>2. /\ StageInv /\ WorldInv /\ RunShape /\ RunInv /\ SpoiledInv
      /\ Len(receipts) \in Nat /\ run.ws = Len(receipts) + 1 /\ run.ws \in Workspaces
      /\ stage \in {"planned", "held"} /\ verdict = "none" /\ IsPlan(run.plan)
      /\ run.index \in 1..Len(run.plan.checks) /\ run.index \in 1..MaxChecks
      /\ DOMAIN run.results = 1..Len(run.results) /\ Len(run.results) \in Nat
  BY <1>1, RunFacts
<1>3. FutureInv /\ \A k \in 1..Len(receipts) : ReceiptInv(k, receipts[k])
  BY DEF ChecksInv
<1>4. /\ UNCHANGED <<plan, verdict, container, ended, spoiled>>
      /\ run' = NoRun /\ ~Active'
      /\ stage' = IF stage = "planned" THEN "checked" ELSE stage
  BY DEF RemoveWorkspace, Active, NoRun
<1>5. PICK removed \in BOOLEAN :
        LET found == run.codes \cup (IF removed THEN {} ELSE {"cleanup_uncertain"})
            codes == IF found = {} /\ Len(run.results) # Len(run.plan.checks)
                     THEN {"execution_uncertain"} ELSE found
        IN /\ workspace' = [workspace EXCEPT ![run.ws] = IF removed THEN "none" ELSE @]
           /\ receipts' = Append(receipts, ExecutionReceipt(codes, removed))
  BY DEF RemoveWorkspace
<1> DEFINE found == run.codes \cup (IF removed THEN {} ELSE {"cleanup_uncertain"})
           codes == IF found = {} /\ Len(run.results) # Len(run.plan.checks)
                    THEN {"execution_uncertain"} ELSE found
<1>6. /\ workspace' = [workspace EXCEPT ![run.ws] = IF removed THEN "none" ELSE @]
      /\ receipts' = Append(receipts, ExecutionReceipt(codes, removed))
  BY <1>5
<1>7. /\ codes \subseteq run.codes \cup {"cleanup_uncertain", "execution_uncertain"}
      /\ codes \cap Doubts = {} => removed /\ run.codes \cap Doubts = {}
      /\ codes = {} => run.codes = {} /\ removed /\ Len(run.results) = Len(run.plan.checks)
  BY DEF Doubts
<1> HIDE DEF codes
<1>r. PICK r : r = ExecutionReceipt(codes, removed)
  OBVIOUS
<1>8. /\ r.plan = run.plan /\ r.ws = run.ws /\ r.results = run.results /\ r.codes = codes
      /\ r.status = CheckStatus(codes)
  BY <1>r DEF ExecutionReceipt
<1>9. /\ IsList(receipts') /\ Len(receipts') = run.ws
      /\ \A k \in 1..Len(receipts) : receipts'[k] = receipts[k]
      /\ receipts'[run.ws] = r
  BY <1>2, <1>6, <1>r, Appended DEF StageInv
<1>10. /\ WorldInv' /\ (removed => workspace'[run.ws] = "none")
       /\ \A w \in Workspaces : w # run.ws => workspace'[w] = workspace[w]
  BY <1>2, <1>4, <1>6 DEF WorldInv
<1>11. StageInv'
  <2>1. CASE stage = "planned"
    BY <1>2, <1>4, <1>8, <1>9, <2>1 DEF StageInv, RunShape, RepeatCount, IsPlan, Active
  <2>2. CASE stage = "held"
    <3>1. /\ Len(receipts) >= 1 /\ receipts[1].plan.structural.intake = plan.structural.intake
          /\ \A k \in 2..Len(receipts) : receipts[k].plan = plan
          /\ Len(plan.checks) = 1
          /\ HeldOutPath \in DOMAIN plan.structural.tree
          /\ IsPlan(plan) /\ Len(receipts) < 1 + RepeatCount
      BY <1>1, <1>2, <2>2 DEF StageInv
    <3>2. r.plan = plan
      BY <1>2, <1>8 DEF RunShape
    <3>3. \A k \in 2..Len(receipts') : receipts'[k].plan = plan
      BY <1>2, <1>9, <3>1, <3>2
    <3>4. receipts'[1] = receipts[1]
      BY <1>2, <1>9, <3>1
    <3>5. Len(receipts') <= 1 + RepeatCount /\ Len(receipts') >= 1
      BY <1>2, <1>9, <3>1 DEF RepeatCount
    <3>6. plan' = plan /\ stage' = "held" /\ verdict' = "none" /\ ~Active'
      BY <1>2, <1>4, <2>2
    <3> QED BY <1>9, <3>1, <3>3, <3>4, <3>5, <3>6 DEF StageInv, IsPlan
  <2> QED BY <1>2, <2>1, <2>2
<1>12. FutureInv'
  <2> SUFFICES ASSUME NEW w \in Workspaces, w > run.ws
               PROVE  /\ w \notin spoiled /\ workspace'[w] = "none"
                      /\ \A k \in 1..MaxChecks : container[<<w, k>>] = "absent"
    BY <1>4, <1>9 DEF FutureInv
  <2>1. w # run.ws
    BY <1>2 DEF Workspaces, RepeatCount
  <2> QED BY <1>1, <1>3, <1>10, <2>1 DEF FutureInv
<1>13. ASSUME NEW k \in 1..Len(receipts) PROVE ReceiptInv(k, receipts[k])'
  <2>1. k \in Workspaces /\ k # run.ws
    BY <1>2 DEF Workspaces, RepeatCount
  <2>2. PICK o : o = receipts[k]
    OBVIOUS
  <2>3. ReceiptInv(k, o)
    BY <1>3, <2>2
  <2>4. ReceiptInv(k, o)'
    BY <1>4, <1>10, <2>1, <2>3 DEF ReceiptInv, IsPlan
  <2>5. o = receipts'[k]
    BY <1>9, <2>2
  <2> QED BY <2>4, <2>5
<1>w. PICK w : w = run.ws
  OBVIOUS
<1>14. ReceiptInv(w, r)'
  <2>1. IsPlan(r.plan) /\ TreeIsValid(r.plan.structural.tree)
    BY <1>2, <1>8 DEF RunShape
  <2>2. IsList(r.results) /\ Len(r.results) <= MaxChecks
    BY <1>1, <1>2, <1>8, ChecksAssumption DEF RunShape
  <2>3. r.codes \subseteq Codes /\ (r.codes \cap Telling # {} => Told(w, ended))
    BY <1>2, <1>7, <1>8, <1>w DEF RunInv, Codes, Doubts, Telling
  <2>4. ASSUME NEW j \in DOMAIN r.results
        PROVE  /\ r.results[j].cleaned => container[<<w, j>>] = "absent"
               /\ r.codes = {} => /\ r.results[j].exit = "zero" /\ r.results[j].failures = {}
                                  /\ <<<<w, j>>, "zero">> \in ended
    <3>1. ResultInv(j, run.results[j])
      BY <1>2, <1>8 DEF RunInv
    <3>2. r.codes = {} => run.codes = {}
      BY <1>7, <1>8
    <3> QED BY <1>8, <1>w, <3>1, <3>2 DEF ResultInv
  <2>5. r.codes \cap Doubts = {} =>
          /\ \A j \in 1..MaxChecks : container[<<w, j>>] = "absent"
          /\ workspace'[w] = "none"
    BY <1>1, <1>2, <1>7, <1>8, <1>10, <1>w DEF RunInv
  <2>6. r.codes = {} => w \notin spoiled /\ Len(r.results) = Len(r.plan.checks)
    BY <1>1, <1>2, <1>7, <1>8, <1>w DEF SpoiledInv
  <2>7. r.ws = w /\ r.status = CheckStatus(r.codes)
    BY <1>8, <1>w
  <2> QED BY <1>4, <2>1, <2>2, <2>3, <2>4, <2>5, <2>6, <2>7 DEF ReceiptInv, IsPlan
<1>15. VerdictIsEarned'
  BY <1>2, <1>4 DEF VerdictIsEarned
<1>16. ASSUME NEW k \in 1..Len(receipts') PROVE ReceiptInv(k, receipts[k])'
  <2>1. k \in 1..Len(receipts) \/ (k = w /\ receipts'[k] = r)
    BY <1>2, <1>9, <1>w
  <2> QED BY <1>13, <1>14, <2>1
<1> QED BY <1>4, <1>10, <1>11, <1>12, <1>15, <1>16 DEF ChecksInv

\* Between the runs, the verification goes on to its next stage.
LEMMA StageMoves ==
  ASSUME ChecksInv, ~Active,
         UNCHANGED <<run, receipts, container, workspace, ended, spoiled>>,
         StageInv', VerdictIsEarned'
  PROVE  ChecksInv'
<1>1. WorldInv /\ FutureInv /\ \A k \in 1..Len(receipts) : ReceiptInv(k, receipts[k])
  BY DEF ChecksInv
<1>2. WorldInv' /\ FutureInv' /\ ~Active'
  BY <1>1 DEF WorldInv, FutureInv, Active
<1>3. \A k \in 1..Len(receipts') : ReceiptInv(k, receipts[k])'
  BY <1>1 DEF ReceiptInv, IsPlan
<1> QED BY <1>1, <1>2, <1>3 DEF ChecksInv

\* A run begins in a workspace that nothing was done in.
LEMMA RunBegins ==
  ASSUME ChecksInv, ~Active, stage \in {"planned", "held"}, Len(receipts) < 1 + RepeatCount,
         TreeIsValid(plan.structural.tree), NEW c, NEW i, Begin(plan, c, i),
         UNCHANGED <<stage, plan, receipts, verdict, container, ended, spoiled>>
  PROVE  ChecksInv'
<1>1. StageInv /\ WorldInv /\ FutureInv /\ VerdictIsEarned
      /\ \A k \in 1..Len(receipts) : ReceiptInv(k, receipts[k])
  BY DEF ChecksInv
<1>2. Len(receipts) \in Nat /\ IsPlan(plan) /\ verdict = "none"
  BY <1>1, Appended DEF StageInv
<1>w. PICK w : w = Len(receipts) + 1
  OBVIOUS
<1>q. PICK q : q = run'
  OBVIOUS
<1>3. /\ DOMAIN q = RunFields /\ q.plan = plan /\ q.ws = w /\ q.step = "materialize"
      /\ q.index = 1 /\ q.results = << >> /\ q.codes = {} /\ q.cur = Fresh
  BY <1>w, <1>q DEF Begin, RunFields
<1>4. w \in Workspaces /\ w > Len(receipts)
  BY <1>2, <1>w DEF Workspaces, RepeatCount
<1>5. /\ w \notin spoiled /\ workspace[w] = "none"
      /\ \A k \in 1..MaxChecks : container[<<w, k>>] = "absent"
  BY <1>1, <1>4 DEF FutureInv
<1>6. /\ workspace' = [workspace EXCEPT ![w] = "empty"] /\ WorldInv'
      /\ workspace'[w] = "empty"
      /\ \A v \in Workspaces : v # w => workspace'[v] = workspace[v]
  BY <1>1, <1>4, <1>w DEF Begin, WorldInv
<1>7. Active'
  BY <1>3, <1>q DEF Active
<1>8. StageInv'
  BY <1>1, <1>2 DEF StageInv, IsPlan
<1>9. RunShape'
  <2>1. IsList(q.results) /\ Len(q.results) = 0
    BY <1>3 DEF IsList
  <2>2. 1 \in 1..Len(plan.checks)
    BY <1>2, ChecksAssumption DEF IsPlan
  <2> QED BY <1>3, <1>q, <1>w, <2>1, <2>2 DEF RunShape, RunSteps, Before, Inside
<1>10. CurrentInv'
  <2>1. DOMAIN Fresh = ResultFields /\ Fresh.failures = {}
    BY DEF Fresh, ResultFields
  <2> QED BY <1>3, <1>q, <2>1 DEF CurrentInv, Inside
<1>11. RunInv'
  BY <1>3, <1>5, <1>q DEF RunInv, Before
<1>12. SpoiledInv'
  BY <1>3, <1>5, <1>6, <1>q DEF SpoiledInv
<1>13. FutureInv'
  <2> SUFFICES ASSUME NEW v \in Workspaces, v > w
               PROVE  /\ v \notin spoiled /\ workspace'[v] = "none"
                      /\ \A k \in 1..MaxChecks : container[<<v, k>>] = "absent"
    BY <1>3, <1>7, <1>q DEF FutureInv
  <2>1. v # w /\ v > Len(receipts)
    BY <1>2, <1>w DEF Workspaces, RepeatCount
  <2> QED BY <1>1, <1>6, <2>1 DEF FutureInv
<1>14. ASSUME NEW k \in 1..Len(receipts) PROVE ReceiptInv(k, receipts[k])'
  <2>1. k \in Workspaces /\ k # w
    BY <1>2, <1>w DEF Workspaces, RepeatCount
  <2>2. ReceiptInv(k, receipts[k])
    BY <1>1
  <2> QED BY <1>6, <2>1, <2>2 DEF ReceiptInv, IsPlan
<1>15. VerdictIsEarned'
  BY <1>2 DEF VerdictIsEarned
<1> QED BY <1>6, <1>8, <1>9, <1>10, <1>11, <1>12, <1>13, <1>14, <1>15 DEF ChecksInv

\* What was verified is what the plan is about.
LEMMA CreatePlanPreserves ==
  ASSUME ChecksInv, NEW c, NEW e, NEW i \in ArtifactIntakes, NEW checks \in CheckLists,
         CreatePlan(c, e, i, checks)
  PROVE  ChecksInv'
<1>1. StageInv /\ ~Active /\ verdict = "none"
  BY DEF ChecksInv, StageInv, CreatePlan
<1>s. PICK s : s = StructuralReceipt(c, e, i)
  OBVIOUS
<1>2. /\ plan' = [structural |-> s, checks |-> checks] /\ stage' = "planned"
      /\ UNCHANGED <<run, receipts, verdict, container, workspace, ended, spoiled>>
      /\ Verifiable(c, e, i) /\ PlanIsValid(s, checks)
  BY <1>s DEF CreatePlan
<1>3. s.contract = c /\ s.exec = e /\ s.intake = i
  BY <1>s DEF StructuralReceipt
<1>4. plan'.structural = s /\ plan'.checks = checks
  BY <1>2
<1>5. IsPlan(plan)'
  <2>1. DOMAIN checks = 1..Len(checks)
    BY ChecksAssumption, Appended DEF IsList
  <2> QED BY <1>2, <1>3, <1>4, <1>s, <2>1 DEF IsPlan, PlanIsValid
<1>6. StageInv'
  BY <1>1, <1>2, <1>5 DEF StageInv, Active, CreatePlan
<1>7. VerdictIsEarned'
  BY <1>1, <1>2 DEF VerdictIsEarned
<1> QED BY <1>1, <1>2, <1>6, <1>7, StageMoves

\* The run is accepted only for the evidence the plan was made of.
LEMMA RunTrustedChecksPreserves ==
  ASSUME ChecksInv, NEW c, NEW e, NEW i, RunTrustedChecks(c, e, i)
  PROVE  ChecksInv'
<1>1. /\ stage = "planned" /\ ~Active /\ Begin(plan, c, i)
      /\ UNCHANGED <<stage, plan, receipts, verdict, container, ended, spoiled>>
      /\ RunIsAccepted(plan, c, e, i)
  BY DEF RunTrustedChecks, At, Active
<1>2. Len(receipts) < 1 + RepeatCount
  BY <1>1 DEF ChecksInv, StageInv, RepeatCount
<1>3. TreeIsValid(plan.structural.tree)
  <2>1. plan.structural = StructuralReceipt(c, e, i) /\ TreeIsValid(Overlay(c.base, i.payload))
    BY <1>1 DEF RunIsAccepted
  <2>2. plan.structural.tree = Overlay(c.base, i.payload)
    BY <2>1 DEF StructuralReceipt
  <2> QED BY <2>1, <2>2
<1> QED BY <1>1, <1>2, <1>3, RunBegins

\* The held-out plan is about the same artifacts, on a tree with the held-out
\* check in it.
LEMMA RunAdversarialPreserves ==
  ASSUME ChecksInv, NEW e, NEW i \in ArtifactIntakes, RunAdversarial(e, i)
  PROVE  ChecksInv'
<1> DEFINE c == plan.structural.contract
           h == HeldOutContract(c)
<1>1. /\ stage = "checked" /\ IsValuePlan(plan) /\ StructuralReceipt(c, e, i) = plan.structural
      /\ Verifiable(h, e, i) /\ PlanIsValid(HeldOutPlan(c, e, i).structural, <<HeldOutCheck>>)
      /\ plan' = HeldOutPlan(c, e, i) /\ stage' = "held"
      /\ UNCHANGED <<run, receipts, verdict, container, workspace, ended, spoiled>>
  BY DEF RunAdversarial
<1>2. /\ StageInv /\ ~Active /\ verdict = "none" /\ Len(receipts) = 1 /\ receipts[1].plan = plan
  BY <1>1 DEF ChecksInv, StageInv
<1>p. PICK p : p = HeldOutPlan(c, e, i)
  OBVIOUS
<1>3. /\ p.structural = StructuralReceipt(h, e, i) /\ p.checks = <<HeldOutCheck>>
      /\ p.structural.contract = h /\ p.structural.exec = e /\ p.structural.intake = i
      /\ p.structural.tree = Overlay(h.base, i.payload)
  BY <1>p DEF HeldOutPlan, StructuralReceipt
<1>4. plan.structural.intake = i
  BY <1>1 DEF StructuralReceipt
<1>5. HeldOutPath \in DOMAIN p.structural.tree
  <2>1. "base" \in DOMAIN c
    <3>1. c = ValueContract(c.request, c.sha)
      BY <1>1 DEF IsValuePlan
    <3>2. \A x, y : "base" \in DOMAIN ValueContract(x, y)
      BY DEF ValueContract
    <3> HIDE DEF c
    <3> QED BY <3>1, <3>2
  <2> DEFINE b == Overlay(c.base, [q \in {HeldOutPath} |-> "held-out check"])
  <2>2. HeldOutPath \in DOMAIN b
    BY DEF Overlay
  <2> HIDE DEF b, c
  <2>3. h.base = b
    BY <2>1 DEF HeldOutContract, b
  <2> HIDE DEF h
  <2> QED BY <1>3, <2>2, <2>3 DEF Overlay
<1> HIDE DEF c, h
<1>6. Len(p.checks) = 1 /\ 1 \in 1..MaxChecks /\ DOMAIN p.checks = 1..1
  <2>1. Len(<<HeldOutCheck>>) = 1 /\ DOMAIN <<HeldOutCheck>> = 1..1
    OBVIOUS
  <2> QED BY <1>1, <1>3, <2>1 DEF PlanIsValid
<1>7. IsPlan(p)
  BY <1>1, <1>3, <1>6, <1>p DEF IsPlan, PlanIsValid
<1>8. StageInv'
  <2>1. plan' = p
    BY <1>1, <1>p
  <2>2. \A k \in 2..Len(receipts') : receipts'[k].plan = p
    BY <1>1, <1>2
  <2>3. IsPlan(plan)'
    BY <1>7, <2>1
  <2>4. /\ receipts' = receipts /\ IsList(receipts) /\ Len(receipts) = 1 /\ stage' = "held"
        /\ ~Active' /\ verdict' = "none"
    BY <1>1, <1>2 DEF StageInv, Active
  <2>5. receipts'[1].plan.structural.intake = p.structural.intake
    BY <1>2, <1>3, <1>4, <2>4
  <2> QED BY <1>5, <1>6, <2>1, <2>2, <2>3, <2>4, <2>5 DEF StageInv, RepeatCount
<1>9. VerdictIsEarned'
  BY <1>1, <1>2 DEF VerdictIsEarned
<1> QED BY <1>1, <1>2, <1>8, <1>9, StageMoves

\* The first of a list, and the rest of it.
LEMMA HeadAndTail ==
  ASSUME NEW s, IsList(s), Len(s) >= 1
  PROVE  /\ Len(s) \in Nat /\ DOMAIN s = 1..Len(s)
         /\ Head(s) = s[1] /\ Len(Tail(s)) = Len(s) - 1 /\ DOMAIN Tail(s) = 1..(Len(s) - 1)
         /\ \A k \in 1..(Len(s) - 1) : Tail(s)[k] = s[k + 1]
<1> DEFINE S == ToSet(s)
<1>1. s \in Seq(S)
  BY DEF IsList
<1> HIDE DEF S
<1>2. Len(s) \in Nat /\ DOMAIN s = 1..Len(s) /\ s # << >>
  BY <1>1
<1>3. Head(s) = s[1] /\ Tail(s) \in Seq(S) /\ Len(Tail(s)) = Len(s) - 1
      /\ \A k \in 1..(Len(s) - 1) : Tail(s)[k] = s[k + 1]
  BY <1>1, <1>2, HeadTailProperties
<1> QED BY <1>2, <1>3

\* What _classify finds.
LEMMA ClassificationMeans ==
  ASSUME NEW public, NEW held
  PROVE  LET all == {public} \cup ToSet(held)
             failed == \E r \in ToSet(held) : r.status # "checks_passed"
             doubtful == Len(held) # RepeatCount \/ \E r \in all : Unsettled(r) \/ ~r.cleaned
             varied == Cardinality({RunOutcome(r) : r \in ToSet(held)}) > 1
         IN /\ Classification(public, held) = "passed" =>
                 public.status = "checks_passed" /\ ~failed /\ ~doubtful
            /\ Classification(public, held) = "failed" =>
                 /\ ~doubtful
                 /\ public.status # "checks_passed" \/ failed \/ varied
<1> DEFINE all == {public} \cup ToSet(held)
           failed == \E r \in ToSet(held) : r.status # "checks_passed"
           doubtful == Len(held) # RepeatCount \/ \E r \in all : Unsettled(r) \/ ~r.cleaned
           varied == Cardinality({RunOutcome(r) : r \in ToSet(held)}) > 1
           open == public.status # "checks_passed"
           diverged == failed /\ public.status = "checks_passed"
           flags == AdversarialFailures(public, held)
           h == [public_check_failed |-> open, adversarial_evidence_uncertain |-> doubtful,
                 held_out_check_failed |-> failed, repeat_verification_failed |-> failed,
                 public_private_outcome_diverged |-> diverged, nondeterministic_outcome |-> varied]
<1>1. flags = {code \in DOMAIN h : h[code]}
  BY DEF AdversarialFailures
<1>2. /\ open \in BOOLEAN /\ doubtful \in BOOLEAN /\ failed \in BOOLEAN /\ diverged \in BOOLEAN
      /\ varied \in BOOLEAN
  OBVIOUS
<1>3. diverged <=> failed /\ ~open
  OBVIOUS
<1>4. /\ Classification(public, held) = "passed" => flags = {}
      /\ Classification(public, held) = "failed" =>
           flags # {} /\ "adversarial_evidence_uncertain" \notin flags
  BY DEF Classification
<1>5. /\ flags = {} <=> ~(open \/ doubtful \/ failed \/ failed \/ diverged \/ varied)
      /\ "adversarial_evidence_uncertain" \in flags <=> doubtful
  <2> HIDE DEF open, doubtful, failed, diverged, varied, flags
  <2>1. PICK a \in BOOLEAN, b \in BOOLEAN, c \in BOOLEAN, d \in BOOLEAN, v \in BOOLEAN :
          a = open /\ b = doubtful /\ c = failed /\ d = diverged /\ v = varied
    BY <1>2
  <2>2. PICK x : x = [public_check_failed |-> a, adversarial_evidence_uncertain |-> b,
                      held_out_check_failed |-> c, repeat_verification_failed |-> c,
                      public_private_outcome_diverged |-> d, nondeterministic_outcome |-> v]
    OBVIOUS
  <2>3. PICK y : y = flags
    OBVIOUS
  <2>4. y = {code \in DOMAIN x : x[code]}
    BY <1>1, <2>1, <2>2, <2>3
  <2>5. /\ y = {} <=> ~(a \/ b \/ c \/ c \/ d \/ v)
        /\ "adversarial_evidence_uncertain" \in y <=> b
    <3>1. DOMAIN x = {"public_check_failed", "adversarial_evidence_uncertain",
                      "held_out_check_failed", "repeat_verification_failed",
                      "public_private_outcome_diverged", "nondeterministic_outcome"}
      BY <2>2
    <3>2. /\ x["public_check_failed"] = a /\ x["adversarial_evidence_uncertain"] = b
          /\ x["held_out_check_failed"] = c /\ x["repeat_verification_failed"] = c
          /\ x["public_private_outcome_diverged"] = d /\ x["nondeterministic_outcome"] = v
      BY <2>2
    <3>3. /\ "public_check_failed" \in y <=> a
          /\ "adversarial_evidence_uncertain" \in y <=> b
          /\ "held_out_check_failed" \in y <=> c
          /\ "repeat_verification_failed" \in y <=> c
          /\ "public_private_outcome_diverged" \in y <=> d
          /\ "nondeterministic_outcome" \in y <=> v
      BY <2>4, <3>1, <3>2
    <3>4. \A code \in y : code \in DOMAIN x
      BY <2>4
    <3> QED BY <3>1, <3>3, <3>4
  <2> QED BY <2>1, <2>3, <2>5
<1> HIDE DEF doubtful, failed, diverged, varied, flags
<1>6. /\ Classification(public, held) = "passed" => ~open /\ ~failed /\ ~doubtful
      /\ Classification(public, held) = "failed" => ~doubtful /\ (open \/ failed \/ varied)
  BY <1>3, <1>4, <1>5
<1> QED BY <1>6 DEF doubtful, failed, varied

\* A run that failed, and was not in doubt, was told against or altered.
LEMMA FailedWasTold ==
  ASSUME NEW k, NEW r, ReceiptInv(k, r), r.status # "checks_passed", ~Unsettled(r)
  PROVE  Counts(r.ws) \/ r.codes \cap AlteredCodes # {}
<1>1. /\ r.codes \subseteq Codes /\ r.status = CheckStatus(r.codes) /\ r.ws = k
      /\ r.codes \cap Telling # {} => Told(k, ended)
  BY DEF ReceiptInv
<1>2. r.codes \cap Doubts = {} /\ "check_timeout" \notin r.codes /\ r.codes # {}
  BY <1>1 DEF CheckStatus, Unsettled, Doubts
<1>3. r.codes \cap Telling # {} \/ r.codes \cap AlteredCodes # {}
  BY <1>1, <1>2 DEF Codes, AlteredCodes, Telling, Doubts
<1> QED BY <1>1, <1>3 DEF Told, Counts

\* The status of a receipt, read back.
LEMMA PassedMeans ==
  ASSUME NEW codes
  PROVE  CheckStatus(codes) = "checks_passed" <=> codes = {}
BY DEF CheckStatus

\* Runs of one check that passed have the same outcome.
LEMMA PassedAlike ==
  ASSUME ChecksInv, stage = "held", NEW k \in 2..Len(receipts),
         receipts[k].status = "checks_passed"
  PROVE  RunOutcome(receipts[k]) = <<{}, [j \in 1..1 |-> <<"zero", {}>>]>>
<1>1. StageInv /\ \A j \in 1..Len(receipts) : ReceiptInv(j, receipts[j])
  BY DEF ChecksInv
<1>2. Len(receipts) \in Nat
  BY <1>1, Appended DEF StageInv
<1>r. PICK r : r = receipts[k]
  OBVIOUS
<1>3. ReceiptInv(k, r) /\ r.plan = plan /\ Len(plan.checks) = 1
  BY <1>1, <1>2, <1>r DEF StageInv
<1>4. r.codes = {}
  BY <1>3, <1>r, PassedMeans DEF ReceiptInv
<1>5. DOMAIN r.results = 1..Len(r.results)
  BY <1>3, Appended DEF ReceiptInv
<1>6. /\ DOMAIN r.results = 1..1
      /\ \A j \in 1..1 : r.results[j].exit = "zero" /\ r.results[j].failures = {}
  BY <1>3, <1>4, <1>5 DEF ReceiptInv
<1>7. [j \in DOMAIN r.results |-> <<r.results[j].exit, r.results[j].failures>>]
        = [j \in 1..1 |-> <<"zero", {}>>]
  BY <1>6
<1> QED BY <1>4, <1>7, <1>r DEF RunOutcome

\* The verdict of the loop, and one more run of it.
LEMMA HeldOutLoopPreserves ==
  ASSUME ChecksInv, HeldOutLoop
  PROVE  ChecksInv'
<1>1. /\ StageInv /\ stage = "held" /\ ~Active /\ verdict = "none"
      /\ \A k \in 1..Len(receipts) : ReceiptInv(k, receipts[k])
      /\ UNCHANGED <<plan, receipts, container, ended, spoiled>>
  BY DEF ChecksInv, StageInv, HeldOutLoop, At, Active
<1>2. /\ IsList(receipts) /\ Len(receipts) >= 1 /\ Len(receipts) <= 1 + RepeatCount
      /\ receipts[1].plan.structural.intake = plan.structural.intake
      /\ \A k \in 2..Len(receipts) : receipts[k].plan = plan
      /\ HeldOutPath \in DOMAIN plan.structural.tree
  BY <1>1 DEF StageInv
<1> DEFINE held == Tail(receipts)
<1>3. /\ Len(receipts) \in Nat /\ DOMAIN receipts = 1..Len(receipts)
      /\ Head(receipts) = receipts[1] /\ Len(held) = Len(receipts) - 1
      /\ DOMAIN held = 1..(Len(receipts) - 1)
      /\ \A k \in 1..(Len(receipts) - 1) : held[k] = receipts[k + 1]
  BY <1>2, HeadAndTail
<1>4. ASSUME NEW v, verdict' = v, stage' = "done", UNCHANGED <<run, workspace>>,
             VerdictIsEarned'
      PROVE  ChecksInv'
  <2>1. StageInv'
    BY <1>1, <1>4 DEF StageInv, Active, IsPlan
  <2> QED BY <1>1, <1>4, <2>1, StageMoves
<1>5. ASSUME verdict' = verdict, stage' = "done", UNCHANGED <<run, workspace>>
      PROVE  ChecksInv'
  <2>1. VerdictIsEarned'
    BY <1>1, <1>5 DEF VerdictIsEarned
  <2> QED BY <1>4, <1>5, <2>1
<1>6. ASSUME Len(held) # RepeatCount,
             RunIsAccepted(plan, plan.structural.contract, plan.structural.exec,
                           plan.structural.intake),
             Begin(plan, plan.structural.contract, plan.structural.intake),
             UNCHANGED <<stage, verdict>>
      PROVE  ChecksInv'
  <2>1. TreeIsValid(plan.structural.tree)
    <3>1. IsPlan(plan)
      BY <1>1 DEF StageInv
    <3> DEFINE s == plan.structural
    <3>2. s.tree = Overlay(s.contract.base, s.intake.payload)
      <4>1. s = StructuralReceipt(s.contract, s.exec, s.intake)
        BY <3>1 DEF IsPlan
      <4> HIDE DEF s
      <4>2. \A x, y, z : StructuralReceipt(x, y, z).tree = Overlay(x.base, z.payload)
        BY DEF StructuralReceipt
      <4> QED BY <4>1, <4>2
    <3> QED BY <1>6, <3>2 DEF RunIsAccepted
  <2>2. Len(receipts) < 1 + RepeatCount
    BY <1>2, <1>3, <1>6 DEF RepeatCount
  <2> QED BY <1>1, <1>6, <2>1, <2>2, RunBegins
<1>7. ASSUME verdict' = Classification(Head(receipts), held), stage' = "done",
             UNCHANGED <<run, workspace>>
      PROVE  ChecksInv'
  <2> DEFINE all == {Head(receipts)} \cup ToSet(held)
             failed == \E r \in ToSet(held) : r.status # "checks_passed"
             doubtful == Len(held) # RepeatCount \/ \E r \in all : Unsettled(r) \/ ~r.cleaned
             varied == Cardinality({RunOutcome(r) : r \in ToSet(held)}) > 1
  <2>1. /\ verdict' = "passed" =>
             Head(receipts).status = "checks_passed" /\ ~failed /\ ~doubtful
        /\ verdict' = "failed" =>
             ~doubtful /\ (Head(receipts).status # "checks_passed" \/ failed \/ varied)
    BY <1>7, ClassificationMeans
  <2>2. /\ all = ToSet(receipts) /\ ToSet(held) = {receipts[k] : k \in 2..Len(receipts)}
    <3>1. \A k \in 1..Len(receipts) : k = 1 \/ (k - 1 \in DOMAIN held /\ held[k - 1] = receipts[k])
      BY <1>3
    <3>2. ToSet(held) = {receipts[k] : k \in 2..Len(receipts)}
      <4> HIDE DEF held
      <4>1. \A k \in 2..Len(receipts) : receipts[k] \in ToSet(held)
        BY <1>3, <3>1 DEF ToSet
      <4>2. \A k \in DOMAIN held : k + 1 \in 2..Len(receipts) /\ held[k] = receipts[k + 1]
        BY <1>3
      <4>3. \A r \in ToSet(held) : \E k \in 2..Len(receipts) : r = receipts[k]
        BY <4>2 DEF ToSet
      <4> QED BY <4>1, <4>3
    <3>3. ToSet(receipts) = {receipts[k] : k \in 1..Len(receipts)}
      BY <1>3 DEF ToSet
    <3>4. 1..Len(receipts) = {1} \cup 2..Len(receipts)
      BY <1>2, <1>3
    <3> QED BY <1>3, <3>2, <3>3, <3>4
  <2>3. ASSUME verdict' = "passed"
        PROVE  /\ Len(receipts) = 1 + RepeatCount
               /\ \A k, l \in DOMAIN receipts :
                    /\ receipts[k].status = "checks_passed"
                    /\ k # l => receipts[k].ws # receipts[l].ws
                    /\ receipts[k].plan.structural.intake = receipts[l].plan.structural.intake
               /\ \A k \in DOMAIN held : HeldOutPath \in DOMAIN held[k].plan.structural.tree
    <3>1. Len(receipts) = 1 + RepeatCount
      BY <1>3, <2>1, <2>3 DEF RepeatCount
    <3>2. \A k \in 1..Len(receipts) :
            /\ receipts[k].status = "checks_passed" /\ receipts[k].ws = k
            /\ receipts[k].plan.structural.intake = plan.structural.intake
      <4> TAKE k \in 1..Len(receipts)
      <4>1. ReceiptInv(k, receipts[k])
        BY <1>1
      <4>2. k = 1 \/ k \in 2..Len(receipts)
        BY <1>3
      <4> HIDE DEF held
      <4> QED BY <1>2, <1>3, <2>1, <2>2, <2>3, <4>1, <4>2 DEF ReceiptInv
    <3>3. \A k \in DOMAIN held : HeldOutPath \in DOMAIN held[k].plan.structural.tree
      <4> TAKE k \in DOMAIN held
      <4>1. k + 1 \in 2..Len(receipts) /\ held[k] = receipts[k + 1]
        BY <1>3
      <4> QED BY <1>2, <4>1
    <3> QED BY <1>3, <3>1, <3>2, <3>3
  <2>4. ASSUME verdict' = "failed"
        PROVE  \E r \in ToSet(receipts) :
                 Counts(r.ws) \/ r.codes \cap AlteredCodes # {}
    <3>1. \A r \in ToSet(receipts) : ~Unsettled(r)
      BY <2>1, <2>2, <2>4
    <3>2. ASSUME NEW r \in ToSet(receipts), r.status # "checks_passed"
          PROVE  Counts(r.ws) \/ r.codes \cap AlteredCodes # {}
      <4>1. PICK k \in 1..Len(receipts) : r = receipts[k]
        BY <1>3 DEF ToSet
      <4>2. ReceiptInv(k, r)
        BY <1>1, <4>1
      <4> QED BY <3>1, <3>2, <4>2, FailedWasTold
    <3>3. \E r \in ToSet(receipts) : r.status # "checks_passed"
      <4> SUFFICES ASSUME \A r \in ToSet(receipts) : r.status = "checks_passed"
                   PROVE  FALSE
        OBVIOUS
      <4>1. varied
        <5>1. Head(receipts) \in all /\ ToSet(held) \subseteq all
          OBVIOUS
        <5> QED BY <2>1, <2>2, <2>4, <5>1
      <4> DEFINE x == <<{}, [j \in 1..1 |-> <<"zero", {}>>]>>
                 outcomes == {RunOutcome(r) : r \in ToSet(held)}
      <4>2. outcomes \subseteq {x}
        <5> SUFFICES ASSUME NEW r \in ToSet(held) PROVE RunOutcome(r) = x
          OBVIOUS
        <5> HIDE DEF held, x
        <5>1. PICK k \in 2..Len(receipts) : r = receipts[k]
          BY <2>2
        <5>2. r.status = "checks_passed"
          BY <2>2
        <5> QED BY <1>1, <5>1, <5>2, PassedAlike DEF x
      <4> HIDE DEF x, outcomes
      <4>3. Cardinality(outcomes) <= 1 /\ Cardinality(outcomes) \in Nat
        <5>1. IsFiniteSet({x}) /\ Cardinality({x}) = 1
          BY FS_Singleton
        <5>2. IsFiniteSet(outcomes) /\ Cardinality(outcomes) <= Cardinality({x})
          BY <4>2, <5>1, FS_Subset
        <5> QED BY <5>1, <5>2, FS_CardinalityType
      <4> QED BY <4>1, <4>3 DEF outcomes
    <3> QED BY <3>2, <3>3
  <2>5. VerdictIsEarned'
    <3>1. \A w : Counts(w)' <=> Counts(w)
      BY <1>1 DEF Counts
    <3>2. receipts' = receipts
      BY <1>1
    <3> HIDE DEF held
    <3> QED BY <2>3, <2>4, <3>1, <3>2 DEF VerdictIsEarned, held
  <2> QED BY <1>4, <1>7, <2>5
<1> QED BY <1>5, <1>6, <1>7 DEF HeldOutLoop

\* Nothing was verified yet.
LEMMA ChecksBegin ==
  ASSUME CheckInit
  PROVE  ChecksInv
<1>1. stage = "idle" /\ verdict = "none" /\ receipts = << >> /\ ~Active
  BY DEF CheckInit, NoRun, Active
<1>2. StageInv
  <2>1. IsList(receipts) /\ Len(receipts) = 0
    BY <1>1 DEF IsList
  <2> QED BY <1>1, <2>1 DEF StageInv, RepeatCount
<1>3. WorldInv
  BY DEF CheckInit, WorldInv, ContainerStates, Exits
<1>4. FutureInv
  <2>1. \A w \in Workspaces, k \in 1..MaxChecks : container[<<w, k>>] = "absent"
    BY NameParts DEF CheckInit, Names
  <2> QED BY <2>1 DEF FutureInv, CheckInit
<1>5. VerdictIsEarned
  BY <1>1 DEF VerdictIsEarned
<1> QED BY <1>1, <1>2, <1>3, <1>4, <1>5 DEF ChecksInv

\* Every step of the verification, the daemon and the other processes.
LEMMA ChecksInductive ==
  ASSUME ChecksInv, [CheckNext]_checkVars
  PROVE  ChecksInv'
<1>1. CASE UNCHANGED checkVars
  <2> USE <1>1 DEF checkVars
  <2>1. StageInv' /\ WorldInv' /\ FutureInv' /\ VerdictIsEarned'
    <3>1. StageInv'
      BY DEF ChecksInv, StageInv, Active
    <3>2. WorldInv' /\ FutureInv'
      BY DEF ChecksInv, WorldInv, FutureInv, Active
    <3>3. \A w : Counts(w)' <=> Counts(w)
      BY DEF Counts
    <3>4. VerdictIsEarned'
      BY <3>3 DEF ChecksInv, VerdictIsEarned
    <3> QED BY <3>1, <3>2, <3>4
  <2>2. Active' => RunShape' /\ CurrentInv' /\ RunInv' /\ SpoiledInv'
    BY DEF ChecksInv, Active, RunShape, CurrentInv, RunInv, SpoiledInv, ResultInv, Name, Clean
  <2>3. \A k \in 1..Len(receipts') : ReceiptInv(k, receipts[k])'
    BY DEF ChecksInv, ReceiptInv, IsPlan
  <2> QED BY <2>1, <2>2, <2>3 DEF ChecksInv
<1>2. ASSUME NEW c \in Contracts, NEW e \in WorkerReceipts, NEW i \in ArtifactIntakes,
             \/ \E checks \in CheckLists : CreatePlan(c, e, i, checks)
             \/ RunTrustedChecks(c, e, i)
      PROVE  ChecksInv'
  BY <1>2, CreatePlanPreserves, RunTrustedChecksPreserves
<1>3. ASSUME NEW e \in WorkerReceipts, NEW i \in ArtifactIntakes, RunAdversarial(e, i)
      PROVE  ChecksInv'
  BY <1>3, RunAdversarialPreserves
<1>4. CASE CheckStep
  BY <1>4, MaterializePreserves, InspectImagePreserves, CreatePreserves,
     InspectAndStartPreserves, CollectPreserves, SettlePreserves, StopInFinallyPreserves,
     CleanUpPreserves, ObservePreserves, RemoveWorkspacePreserves, HeldOutLoopPreserves
     DEF CheckStep
<1>5. ASSUME NEW n \in DOMAIN container, DaemonStep(n) PROVE ChecksInv'
  BY <1>5, DaemonPreserves
<1>6. ASSUME NEW w \in Exposed, Alter(w) PROVE ChecksInv'
  BY <1>6, AlterPreserves
<1> QED BY <1>1, <1>2, <1>3, <1>4, <1>5, <1>6 DEF CheckNext, CheckRequest

\* Every state of a verification satisfies the invariant: whatever the daemon
\* delays, loses or carries out late, and whoever writes the workspaces,
\* run_trusted_checks and the held-out loop know no more than is true.
THEOREM ChecksInvariant == CheckSpec => []ChecksInv
<1>1. CheckInit => ChecksInv
  BY ChecksBegin
<1>2. ChecksInv /\ [CheckNext]_checkVars => ChecksInv'
  BY ChecksInductive
<1> QED BY <1>1, <1>2, PTL DEF CheckSpec

\* A finite set, listed.
LEMMA Listed ==
  ASSUME NEW S, IsFiniteSet(S)
  PROVE  SetToSeq(S) \in Seq(S) /\ ToSet(SetToSeq(S)) = S
<1> DEFINE n == Cardinality(S)
           f == SetToSeq(S)
<1>1. n \in Nat /\ ExistsBijection(1..n, S)
  BY FS_CardinalityType
<1>2. \E g \in [1..n -> S] : IsInjective(g)
  BY <1>1 DEF ExistsBijection, Bijection, Injection
<1>3. f \in [1..n -> S] /\ IsInjective(f)
  BY <1>2 DEF SetToSeq
<1> HIDE DEF f
<1>4. f \in Injection(1..n, S)
  BY <1>3 DEF Injection
<1>5. Cardinality(1..n) = n
  <2> HIDE DEF n
  <2>1. n \in Int /\ 1 \in Int
    BY <1>1
  <2> QED BY <1>1, <2>1, FS_Interval
<1>6. f \in Surjection(1..n, S)
  BY <1>4, <1>5, FS_Injection
<1>7. ToSet(f) = S
  BY <1>3, <1>6 DEF ToSet, Surjection
<1>8. f \in Seq(S)
  <2> HIDE DEF n
  <2> QED BY <1>1, <1>3, SeqDef
<1> QED BY <1>7, <1>8 DEF f

\* What a candidate without structural failures is.
LEMMA StructureMeans ==
  ASSUME NEW c, NEW e, NEW i \in ArtifactIntakes, StructuralFailures(c, e, i) = {}
  PROVE  LET changed == Changed(c.base, i.payload) IN
         /\ i.payload = i.recorded
         /\ DOMAIN i.payload \subseteq c.allowed
         /\ DOMAIN i.payload \cap c.protected = {}
         /\ c.required \subseteq changed
         /\ \A p \in changed, q \in Protected : Fold[p] # Fold[q]
<1> DEFINE changed == Changed(c.base, i.payload)
           list == SetToSeq(changed)
           admitted == AdmitChangedPaths(list, c.id, e.request, Absent, Absent)
           codes == {"quarantine_payload_digest_mismatch", "artifact_path_not_allowed",
                     "protected_path_modified", "required_change_missing"}
           Holds(code) ==
             CASE code = "quarantine_payload_digest_mismatch" -> i.payload # i.recorded
               [] code = "artifact_path_not_allowed" -> ~(DOMAIN i.payload \subseteq c.allowed)
               [] code = "protected_path_modified" -> DOMAIN i.payload \cap c.protected # {}
               [] code = "required_change_missing" -> ~(c.required \subseteq changed)
<1>1. {code \in codes : Holds(code)} = {} /\ AdmissionFailures(admitted) = {}
  BY DEF StructuralFailures
<1>2. \A code \in codes : ~Holds(code)
  <2> HIDE DEF Holds
  <2> QED BY <1>1
<1>3. /\ Holds("quarantine_payload_digest_mismatch") <=> i.payload # i.recorded
      /\ Holds("artifact_path_not_allowed") <=> ~(DOMAIN i.payload \subseteq c.allowed)
      /\ Holds("protected_path_modified") <=> DOMAIN i.payload \cap c.protected # {}
      /\ Holds("required_change_missing") <=> ~(c.required \subseteq changed)
  <2> HIDE DEF changed
  <2> QED OBVIOUS
<1>4. IsFiniteSet(changed) /\ changed \subseteq Paths
  <2>1. changed \subseteq DOMAIN i.payload
    BY DEF Changed
  <2> HIDE DEF changed
  <2>2. IsFiniteSet(DOMAIN i.payload) /\ DOMAIN i.payload \subseteq Paths
    BY ChecksAssumption
  <2> QED BY <2>1, <2>2, FS_Subset
<1>5. \A p \in changed, q \in Protected : Fold[p] # Fold[q]
  <2>1. admitted.status = "ordinary"
    BY <1>1 DEF AdmissionFailures
  <2> HIDE DEF changed
  <2>2. list \in Seq(changed) /\ ToSet(list) = changed
    BY <1>4, Listed
  <2> HIDE DEF list
  <2> DEFINE decision == Evaluate(IF list = Absent THEN << >> ELSE list)
  <2>3. AdmissionStatus(list, decision, c.id, e.request, Absent, Absent) = "ordinary"
    BY <2>1 DEF AdmitChangedPaths
  <2> HIDE DEF decision
  <2>4. list # Absent /\ decision.outcome = "ordinary"
    BY <2>3, OrdinaryAdmission
  <2>5. Evaluate(list).outcome = "ordinary"
    BY <2>4 DEF decision
  <2>6. list \in Seq(Paths)
    BY <1>4, <2>2
  <2> QED BY <2>2, <2>5, <2>6, OrdinaryIsSafe
<1> HIDE DEF Holds, changed
<1>6. /\ i.payload = i.recorded /\ DOMAIN i.payload \subseteq c.allowed
      /\ DOMAIN i.payload \cap c.protected = {} /\ c.required \subseteq changed
  BY <1>2, <1>3
<1> QED BY <1>5, <1>6 DEF changed

\* A receipt of the history, by its place.
LEMMA ReceiptFacts ==
  ASSUME ChecksInv, NEW r \in ToSet(receipts)
  PROVE  \E k \in 1..Len(receipts) : k \in Workspaces /\ ReceiptInv(k, r)
<1>1. /\ IsList(receipts) /\ Len(receipts) <= 1 + RepeatCount
      /\ \A k \in 1..Len(receipts) : ReceiptInv(k, receipts[k])
  BY DEF ChecksInv, StageInv
<1>2. DOMAIN receipts = 1..Len(receipts) /\ Len(receipts) \in Nat
  BY <1>1, Appended
<1>3. PICK k \in 1..Len(receipts) : r = receipts[k]
  BY <1>2 DEF ToSet
<1> QED BY <1>1, <1>2, <1>3 DEF Workspaces, RepeatCount

\* The receipts' cleanup claims, from the invariant.
LEMMA CleanupFollows ==
  ASSUME ChecksInv
  PROVE  CleanupClaimsAreTrue
<1> SUFFICES ASSUME NEW r \in ToSet(receipts)
             PROVE  /\ \A k \in DOMAIN r.results :
                         r.results[k].cleaned => container[<<r.ws, k>>] = "absent"
                    /\ r.status # "checks_uncertain" =>
                         /\ \A k \in 1..MaxChecks : container[<<r.ws, k>>] = "absent"
                         /\ workspace[r.ws] = "none"
  BY DEF CleanupClaimsAreTrue
<1>1. PICK w \in Workspaces : ReceiptInv(w, r)
  BY ReceiptFacts
<1>2. r.status # "checks_uncertain" => r.codes \cap Doubts = {}
  BY <1>1 DEF ReceiptInv, CheckStatus, Doubts
<1> QED BY <1>1, <1>2 DEF ReceiptInv

\* A passed receipt, from the invariant and the policy's admission.
LEMMA PassedFollows ==
  ASSUME ChecksInv
  PROVE  PassedIsEarned
<1> SUFFICES ASSUME NEW r \in ToSet(receipts), r.status = "checks_passed"
             PROVE  LET s == r.plan.structural IN
                    /\ \A k \in DOMAIN r.plan.checks : <<<<r.ws, k>>, "zero">> \in ended
                    /\ r.ws \notin spoiled
                    /\ s.intake.exec = s.exec.id /\ s.exec.request = s.contract.request
                    /\ s.tree = Overlay(s.contract.base, s.intake.recorded)
                    /\ s.contract.required \subseteq s.changed
                    /\ s.changed \subseteq s.contract.allowed
                    /\ s.changed \cap s.contract.protected = {}
                    /\ \A p \in s.changed,
                          q \in Protected \cup (s.contract.protected \cap DOMAIN s.tree) :
                         Fold[p] # Fold[q]
  BY DEF PassedIsEarned
<1>1. PICK w \in Workspaces : ReceiptInv(w, r)
  BY ReceiptFacts
<1>2. r.codes = {} /\ r.ws = w
  BY <1>1, PassedMeans DEF ReceiptInv
<1>3. r.ws \notin spoiled /\ \A k \in DOMAIN r.plan.checks : <<<<r.ws, k>>, "zero">> \in ended
  <2>1. DOMAIN r.results = 1..Len(r.results)
    BY <1>1, Appended DEF ReceiptInv
  <2>2. DOMAIN r.plan.checks = DOMAIN r.results
    BY <1>1, <1>2, <2>1 DEF ReceiptInv, IsPlan
  <2> QED BY <1>1, <1>2, <2>2 DEF ReceiptInv
<1> DEFINE s == r.plan.structural
           c == s.contract
           e == s.exec
           i == s.intake
<1>4. /\ i \in ArtifactIntakes /\ Verifiable(c, e, i) /\ s.failures = {}
      /\ s = StructuralReceipt(c, e, i) /\ TreeIsValid(s.tree)
  BY <1>1 DEF ReceiptInv, IsPlan
<1>5. /\ s.changed = Changed(c.base, i.payload) /\ s.tree = Overlay(c.base, i.payload)
      /\ StructuralFailures(c, e, i) = {}
  <2>1. \A x, y, z : /\ StructuralReceipt(x, y, z).changed = Changed(x.base, z.payload)
                     /\ StructuralReceipt(x, y, z).tree = Overlay(x.base, z.payload)
                     /\ StructuralReceipt(x, y, z).failures = StructuralFailures(x, y, z)
    BY DEF StructuralReceipt
  <2> HIDE DEF s, c, e, i
  <2> QED BY <1>4, <2>1
<1> HIDE DEF s, c, e, i
<1>6. i.exec = e.id /\ e.request = c.request
  BY <1>4 DEF Verifiable, EvidenceIsBound
<1>7. /\ i.payload = i.recorded /\ DOMAIN i.payload \subseteq c.allowed
      /\ DOMAIN i.payload \cap c.protected = {} /\ c.required \subseteq s.changed
      /\ \A p \in s.changed, q \in Protected : Fold[p] # Fold[q]
  BY <1>4, <1>5, StructureMeans
<1>8. s.changed \subseteq DOMAIN i.payload /\ s.changed \subseteq DOMAIN s.tree
  BY <1>5 DEF Changed, Overlay
<1>9. \A p \in s.changed, q \in c.protected \cap DOMAIN s.tree : Fold[p] # Fold[q]
  BY <1>4, <1>7, <1>8 DEF TreeIsValid, NoCaseCollision
<1>10. s.tree = Overlay(c.base, i.recorded)
  BY <1>5, <1>7
<1> QED BY <1>3, <1>6, <1>7, <1>8, <1>9, <1>10 DEF s, c, e, i

\* For plans of any length and however late the daemon acts: a container whose
\* cleanup a result of check_runtime.py confirms is gone for good, and a receipt
\* of run_trusted_checks that is not uncertain leaves no container and no
\* workspace behind.
THEOREM CleanupsOfChecks == CheckSpec => []CleanupClaimsAreTrue
BY ChecksInvariant, CleanupFollows, PTL

\* For any contracts, evidence and checks: a receipt of run_trusted_checks says
\* checks_passed only when every check of the plan exited with 0 on the
\* candidate's own bytes, and the candidate is the trusted base with the admitted
\* artifacts of this execution, inside the contract and outside the registry.
THEOREM PassesAreEarned == CheckSpec => []PassedIsEarned
BY ChecksInvariant, PassedFollows, PTL

\* run_adversarial_verification reports passed only after the public check and
\* every repetition of the held-out one passed, on the same artifacts, and failed
\* only when a container told against the candidate or its tree was altered.
THEOREM VerdictsAreEarned == CheckSpec => []VerdictIsEarned
<1>1. ChecksInv => VerdictIsEarned
  BY DEF ChecksInv
<1> QED BY <1>1, ChecksInvariant, PTL
==============================================================================
