----------------------------- MODULE Supervision -----------------------------
(***************************************************************************)
(* The supervision policy of supervisor.py: what supervise_execution makes *)
(* of one execution receipt, an observation, the artifact intake of the    *)
(* execution and the circuit breaker the previous execution left.  It has  *)
(* no state of its own; ContainedWorker and TrustChain call it.            *)
(*                                                                         *)
(* A receipt is the part of WorkerExecutionReceipt the policy reads.  The  *)
(* seconds of an observation are reduced to the question asked of them:    *)
(* the worker was seen alive recently and made no progress for too long.   *)
(***************************************************************************)
EXTENDS Integers

CONSTANTS
  MaxRetryAttempts,        \* max_retry_attempts of the policy
  CircuitBreakerFailures   \* circuit_breaker_failures of the policy

ASSUME PolicyAssumption ==
  /\ MaxRetryAttempts \in 0..16
  /\ CircuitBreakerFailures \in 1..64

FinalStates == {"succeeded", "failed", "crashed", "timed_out", "cancelled",
                "termination_uncertain"}

ExitCodes == {"none", "zero", "nonzero"}

\* The part of WorkerExecutionReceipt that the policy reads.
Receipts == [final: FinalStates, code: ExitCodes, timed: BOOLEAN,
             cleaned: BOOLEAN]

\* termination_uncertain is set exactly with the final state of that name,
\* cancellation_confirmed exactly with "cancelled".
Uncertain(r) == r.final = "termination_uncertain"

Observations == [containment: BOOLEAN, stalling: BOOLEAN, deadline: BOOLEAN]

\* The artifact intake given to the supervisor: none, a quarantined package,
\* or artifacts rejected for secret material.
Intakes == {"none", "quarantined_untrusted", "rejected_secret_material"}

Retryable == {"failed", "crashed", "timed_out", "stalled"}

ImmediateOpen == {"termination_uncertain", "cleanup_uncertain",
                  "containment_violation", "artifact_security_rejected",
                  "unknown_failure"}

Settled == {"succeeded", "cancelled"}

Classes == Retryable \cup ImmediateOpen \cup Settled

TeardownUncertain(r) == ~r.cleaned \/ Uncertain(r)

\* Only the artifact intake's word on the teardown is asked for.
CleanupUncertainByIntake(r, intake) == intake # "none" /\ TeardownUncertain(r)

CleanupUncertain(r, intake) ==
  \/ ~r.cleaned
  \/ intake # "none" /\ TeardownUncertain(r)

Classify(r, obs, intake) ==
  IF obs.containment THEN "containment_violation"
  ELSE IF intake = "rejected_secret_material" THEN "artifact_security_rejected"
  ELSE IF Uncertain(r) THEN "termination_uncertain"
  ELSE IF CleanupUncertain(r, intake) THEN "cleanup_uncertain"
  ELSE IF r.final = "cancelled" THEN "cancelled"
  ELSE IF r.timed /\ obs.stalling THEN "stalled"
  ELSE IF r.timed \/ obs.deadline \/ r.final = "timed_out" THEN "timed_out"
  ELSE IF r.final = "crashed" THEN "crashed"
  ELSE IF r.final = "failed" \/ r.code = "nonzero" THEN "failed"
  ELSE IF r.final = "succeeded" /\ r.code = "zero" THEN "succeeded"
  ELSE "unknown_failure"

Breakers == [open: BOOLEAN, failures: 0..64, kill: BOOLEAN]

\* create_initial_circuit_breaker; kill is the policy the breaker is bound to.
InitialBreaker(kill) == [open |-> kill, failures |-> 0, kill |-> kill]

Failures(prior, class) ==
  IF class \in Settled THEN 0
  ELSE IF prior.failures < 64 THEN prior.failures + 1 ELSE 64

\* Only this execution's failures open the breaker.
NextBreakerForgets(prior, class, kill) ==
  [open |-> kill \/ class \in ImmediateOpen,
   failures |-> Failures(prior, class), kill |-> kill]

NextBreaker(prior, class, kill) ==
  [open |-> \/ kill
            \/ /\ class \notin Settled
               /\ \/ prior.open
                  \/ class \in ImmediateOpen
                  \/ Failures(prior, class) >= CircuitBreakerFailures,
   failures |-> Failures(prior, class),
   kill |-> kill]

RetryEligible(r, intake, class, breaker, retries) ==
  /\ class \in Retryable
  /\ retries < MaxRetryAttempts
  /\ ~breaker.open
  /\ ~CleanupUncertain(r, intake)
  /\ ~Uncertain(r)
==============================================================================
