------------------------------ MODULE TrustChain ------------------------------
(***************************************************************************)
(* From an execution receipt to a trust-chain proof: the stdout bridge of  *)
(* artifact_output.py and the intake of worker_artifact.py over the shared *)
(* staging directory, the blast-radius gate, the candidate verifier, and   *)
(* build_trust_chain_proof, called with evidence of any mixture of         *)
(* executions.                                                             *)
(*                                                                         *)
(* Receipts are content addressed, so a receipt is the record of what it   *)
(* is about, and two receipts with the same digest are equal records.  The *)
(* gates, the verifier and the supervisor are pure: their receipts can be  *)
(* had at any time and are not state.  What is state is what is read from  *)
(* or written to the file system, and the proof accepted.                  *)
(***************************************************************************)
EXTENDS Supervision, FiniteSets

CONSTANTS
  Executions,    \* executions that return a receipt
  ExecutionIds,  \* names of staging directories
  ExecutionId,   \* the execution_id a caller gave each execution
  Observed,      \* the receipts executions may return
  Outputs,       \* artifact sets: functions from some paths to bytes
  Secret,        \* bytes the secret scan recognises
  Tasks,         \* fixture task contracts
  Allowed,       \* allowed_paths of each task
  MaxCount,      \* max_artifact_count of each task
  Base,          \* base_fixture of each task
  Expected,      \* expected_artifacts of each task
  None,          \* no directory, no result, no receipt
  Unusable       \* a stdout without a usable envelope

ASSUME ChainAssumption ==
  /\ ExecutionId \in [Executions -> ExecutionIds]
  /\ Observed \subseteq Receipts
  /\ None \notin Outputs
  /\ Unusable \notin Outputs
  /\ None # Unusable

VARIABLES
  receipt,      \* the execution receipt of each execution
  stdout,       \* the artifacts in its complete stdout, or Unusable
  staging,      \* content of each directory under ARTIFACT_INTAKE_ROOT
  bridge,       \* where bridge_execution_stdout_to_artifact_intake is
  provenance,   \* the provenance receipts issued
  proof         \* latest proof classified contained_verified_candidate

vars == <<receipt, stdout, staging, bridge, provenance, proof>>

NoReceipt == [final |-> "none"]

Returned(x) == receipt[x] # NoReceipt

\* intake_worker_artifacts of an execution that returned.  Whoever may write
\* the staging directory can have any artifacts taken in, at any time and from
\* several contents in one walk, so every result can be held at every moment.
IntakeResults ==
  [exec: {x \in Executions : Returned(x)}, artifacts: Outputs]

TypeOK ==
  /\ receipt \in [Executions -> Observed \cup {NoReceipt}]
  /\ stdout \in [Executions -> Outputs \cup {Unusable}]
  /\ staging \in [ExecutionIds -> Outputs \cup {None}]
  /\ bridge \in [Executions -> {"idle", "staged"}]
  /\ provenance \subseteq IntakeResults
  /\ proof \in [task: Tasks, exec: Executions, artifacts: Outputs] \cup {None}

Init ==
  /\ receipt = [x \in Executions |-> NoReceipt]
  /\ stdout = [x \in Executions |-> Unusable]
  /\ staging = [n \in ExecutionIds |-> None]
  /\ bridge = [x \in Executions |-> "idle"]
  /\ provenance = {}
  /\ proof = None

------------------------------------------------------------------------------
(* Receipts and artifacts. *)

\* DockerWorkerRuntime.execute returns.  Unusable stands for a stdout that is
\* empty, truncated in the receipt, malformed, or bound to another attempt.
Execute(x, r, out) ==
  /\ ~Returned(x)
  /\ receipt' = [receipt EXCEPT ![x] = r]
  /\ stdout' = [stdout EXCEPT ![x] = out]
  /\ UNCHANGED <<staging, bridge, provenance, proof>>

\* Another process of the same user writes or removes a staging directory.
WriteStaging(n, content) ==
  /\ staging' = [staging EXCEPT ![n] = content]
  /\ UNCHANGED <<receipt, stdout, bridge, provenance, proof>>

HasSecret(a) == \E p \in DOMAIN a : a[p] \in Secret

Status(a) == IF HasSecret(a) THEN "rejected_secret_material"
             ELSE "quarantined_untrusted"

\* _validate_execution, _decode_envelope, _safe_root and _stage; anything
\* else raises and leaves no directory of its own.
BridgeStage(x) ==
  /\ bridge[x] = "idle"
  /\ Returned(x)
  /\ ~Uncertain(receipt[x])
  /\ stdout[x] # Unusable
  /\ staging[ExecutionId[x]] = None
  /\ staging' = [staging EXCEPT ![ExecutionId[x]] = stdout[x]]
  /\ bridge' = [bridge EXCEPT ![x] = "staged"]
  /\ UNCHANGED <<receipt, stdout, provenance, proof>>

\* The intake is not compared with the stdout it was staged from.
MatchesAlways(x, a) == TRUE

\* The quarantine package must be what stdout held; of rejected artifacts only
\* the totals are compared, of which the model keeps the count.
Matches(x, a) ==
  IF HasSecret(a) THEN Cardinality(DOMAIN a) = Cardinality(DOMAIN stdout[x])
  ELSE a = stdout[x]

\* The provenance receipt names the execution and the intake.
Issue(x, a) == [exec |-> x, artifacts |-> a]

\* intake_worker_artifacts on the staged directory, the comparison with
\* stdout, and the removal of the directory.  Either may fail, and a result
\* whose directory cannot be removed is lost in the exception.
BridgeIntake(x) ==
  LET a == staging[ExecutionId[x]] IN
  /\ bridge[x] = "staged"
  /\ bridge' = [bridge EXCEPT ![x] = "idle"]
  /\ \/ /\ a # None
        /\ Matches(x, a)
        /\ staging' = [staging EXCEPT ![ExecutionId[x]] = None]
        /\ provenance' = provenance \cup {Issue(x, a)}
     \/ /\ staging' = [staging EXCEPT ![ExecutionId[x]] = None]
        /\ UNCHANGED provenance
     \/ UNCHANGED <<staging, provenance>>
  /\ UNCHANGED <<receipt, stdout, proof>>

------------------------------------------------------------------------------
(* Evidence about an execution y, as whoever calls the builder may hold it. *)

\* supervise_execution of y, with an artifact intake of y or without one.  The
\* prior breaker does not matter: success closes it unless the kill switch is
\* engaged, and only a success is accepted.
Decision(y, obs, artifacts, kill) ==
  LET status == IF artifacts = None THEN "none" ELSE Status(artifacts)
      class == Classify(receipt[y], obs, status)
  IN [exec |-> y, artifacts |-> artifacts, class |-> class,
      uncertain |-> Uncertain(receipt[y]) \/ CleanupUncertain(receipt[y], status),
      open |-> NextBreaker(InitialBreaker(kill), class, kill).open]

Decisions ==
  UNION {{Decision(y, obs, artifacts, kill) :
            obs \in Observations, artifacts \in Outputs \cup {None},
            kill \in BOOLEAN} : y \in {x \in Executions : Returned(x)}}

\* The gates are called for quarantined artifacts only.
Quarantined == {i \in IntakeResults : ~HasSecret(i.artifacts)}

\* evaluate_blast_radius
Within(t, a) ==
  /\ DOMAIN a \subseteq Allowed[t]
  /\ Cardinality(DOMAIN a) <= MaxCount[t]

\* verify_candidate: the trusted base overlaid with the artifacts must hold
\* the expected bytes at every expected path.
Candidate(t, a) ==
  [p \in DOMAIN a \cup DOMAIN Base[t] |->
     IF p \in DOMAIN a THEN a[p] ELSE Base[t][p]]

Passes(t, a) ==
  \A p \in DOMAIN Expected[t] :
    /\ p \in DOMAIN Candidate(t, a)
    /\ Candidate(t, a)[p] = Expected[t][p]

BlastReceipt(t, i) == [task |-> t, intake |-> i, within |-> Within(t, i.artifacts)]

VerificationReceipt(t, i) ==
  [task |-> t, intake |-> i, passed |-> Passes(t, i.artifacts)]

\* _validate_inputs: the intake is of this execution, and the receipts of the
\* two gates are the ones that are derived again from the task and the intake.
GatesBound(t, x, i, b, v) ==
  /\ i.exec = x
  /\ b = BlastReceipt(t, i)
  /\ v = VerificationReceipt(t, i)

\* The rest of it: the decision and the provenance receipt, when there is one,
\* are of this execution and of this intake.
EvidenceBound(x, i, d, p) ==
  /\ d.exec = x
  /\ d.artifacts = i.artifacts
  /\ p # None => p = i

\* Acceptance that goes by the gates and not by the provenance.
AcceptsUnproven(d, i, b, v, p) ==
  /\ d.class = "succeeded"
  /\ ~d.uncertain
  /\ ~d.open
  /\ ~HasSecret(i.artifacts)
  /\ b.within
  /\ v.passed

\* _classify, for the one outcome that is not a rejection.
Accepts(d, i, b, v, p) ==
  /\ d.class = "succeeded"
  /\ ~d.uncertain
  /\ ~d.open
  /\ ~HasSecret(i.artifacts)
  /\ b.within
  /\ v.passed
  /\ p # None

\* build_trust_chain_proof for task t and execution x, with evidence of any
\* mixture of executions and tasks.  A rejection is a receipt that changes
\* nothing.
BuildProof(t, x) ==
  \E i \in IntakeResults, i3, i4 \in Quarantined, t3, t4 \in Tasks :
    LET b == BlastReceipt(t3, i3)
        v == VerificationReceipt(t4, i4)
    IN /\ Returned(x)
       /\ GatesBound(t, x, i, b, v)
       /\ \E d \in Decisions, p \in provenance \cup {None} :
            EvidenceBound(x, i, d, p) /\ Accepts(d, i, b, v, p)
       /\ proof' = [task |-> t, exec |-> x, artifacts |-> i.artifacts]
       /\ UNCHANGED <<receipt, stdout, staging, bridge, provenance>>

Next ==
  \/ \E x \in Executions :
       \/ \E r \in Observed, out \in Outputs \cup {Unusable} : Execute(x, r, out)
       \/ BridgeStage(x) \/ BridgeIntake(x)
  \/ \E n \in ExecutionIds, content \in Outputs \cup {None} :
       WriteStaging(n, content)
  \/ \E t \in Tasks, x \in Executions : BuildProof(t, x)

Spec == Init /\ [][Next]_vars

------------------------------------------------------------------------------

\* An accepted proof is sound, whatever evidence it was built from: the
\* execution ended by itself with success and left nothing behind, the
\* artifacts are the ones this execution wrote to its stdout and hold no
\* secret, they stay inside the task's fence and the candidate is correct.
AcceptedIsSound ==
  proof # None =>
    LET r == receipt[proof.exec] IN
    /\ r.final = "succeeded" /\ r.code = "zero" /\ ~r.timed /\ r.cleaned
    /\ proof.artifacts = stdout[proof.exec]
    /\ ~HasSecret(proof.artifacts)
    /\ Within(proof.task, proof.artifacts)
    /\ Passes(proof.task, proof.artifacts)

\* A provenance receipt is true: the quarantined artifacts it is bound to are
\* the bytes of this execution's stdout, even when the staging directory was
\* written by others between staging and intake.
ProvenanceIsTrue ==
  \A p \in provenance :
    ~HasSecret(p.artifacts) => p.artifacts = stdout[p.exec]
==============================================================================
