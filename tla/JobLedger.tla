------------------------------ MODULE JobLedger ------------------------------
(***************************************************************************)
(* The GP-D durable job ledger of one job: the append-only files of        *)
(* gpd_job_store.py, the reducer of gpd_job_state.py that derives the job  *)
(* state from the event log, and the retry gate of gpd_side_effect.py that *)
(* gpd_recovery.py evaluates after a restart.                              *)
(*                                                                         *)
(* The reducer is a fold over the log, so the ledger keeps the fold's      *)
(* accumulator, derived, instead of the log: appending an event advances   *)
(* it by the body of the reducer's loop, and logs have any length.  The    *)
(* ledger launches nothing, so every caller is possible: an action appends *)
(* any record the factories build, and the guards are those of the store   *)
(* alone.                                                                  *)
(***************************************************************************)
EXTENDS Naturals

CONSTANTS MaxAttempts,    \* bound on the attempt ledger
          CallersCheck    \* callers use assert_transition_allowed first

ASSUME MaxAttemptsAssumption == MaxAttempts \in Nat \ {0}
ASSUME CallersCheckAssumption == CallersCheck \in BOOLEAN

VARIABLES
  header,     \* header.json exists
  derived,    \* accumulator of reduce_job_state over events.jsonl
  attempts,   \* attempts in attempts.jsonl, numbered 1..attempts
  leases,     \* rows of leases.jsonl
  uncertain,  \* side_effects.jsonl holds a requested effect of unknown outcome
  lastRecord, \* what the last row of reconciliations.jsonl says of a retry
  torn,       \* files that end in a partial line
  awaiting    \* history: unknown declared, no reconciliation event since

vars == <<header, derived, attempts, leases, uncertain, lastRecord, torn,
          awaiting>>

-----------------------------------------------------------------------------
(* The job state machine: tables of gpd_job_state.py                       *)

TerminalStates == {"cancelled", "terminal_success", "terminal_failure"}

JobStates ==
  {"created", "admitted", "ready", "leased", "running", "waiting",
   "checkpointed", "cancellation_requested", "cancelled", "stalled",
   "timed_out", "failed", "execution_unknown", "reconciling", "retryable",
   "terminal_success", "terminal_failure"}

\* TRANSITIONS; "none" is the state before the first event.
Transitions(s) ==
  CASE s = "none" -> {"created"}
    [] s = "created" -> {"admitted", "cancelled", "terminal_failure"}
    [] s = "admitted" -> {"ready", "cancelled", "terminal_failure"}
    [] s = "ready" -> {"leased", "cancellation_requested", "cancelled", "retryable"}
    [] s = "leased" -> {"running", "cancellation_requested", "stalled", "timed_out",
                        "execution_unknown", "cancelled"}
    [] s = "running" -> {"waiting", "checkpointed", "cancellation_requested",
                         "stalled", "timed_out", "failed", "execution_unknown"}
                        \cup TerminalStates
    [] s = "waiting" -> {"running", "checkpointed", "cancellation_requested",
                         "stalled", "timed_out", "execution_unknown", "cancelled"}
    [] s = "checkpointed" -> {"running", "waiting", "cancellation_requested",
                              "stalled", "timed_out", "failed",
                              "execution_unknown"} \cup TerminalStates
    [] s = "cancellation_requested" -> {"cancelled", "execution_unknown", "reconciling"}
    [] s \in {"stalled", "timed_out", "failed"} ->
         {"reconciling", "execution_unknown", "retryable", "cancelled", "terminal_failure"}
    [] s = "execution_unknown" -> {"reconciling", "cancelled", "terminal_failure"}
    [] s = "reconciling" -> {"retryable", "execution_unknown", "ready"} \cup TerminalStates
    [] s = "retryable" -> {"ready", "leased", "cancelled", "terminal_failure"}
    [] OTHER -> {}

\* NON_TRANSITION_KINDS, with the kinds that differ only in wording joined.
NonTransitionKinds == {"heartbeat", "attempt_started"}

\* EVENT_KIND_TO_STATE.  A kind is named by the state it maps to.
Kinds == JobStates \cup NonTransitionKinds

\* Attempts in the ledger, and attempt numbers; 0 is no attempt.
AttemptNumbers == 0..MaxAttempts

\* What create_job_event lets a caller build, as far as the reducer looks at it.
\* The reducer looks at the worker_claim flag, not at the actor.
Events ==
  {e \in [kind: Kinds, claim: BOOLEAN, proof: BOOLEAN,
          clears: BOOLEAN, attempt: AttemptNumbers] :
     /\ e.claim \/ e.proof => e.kind = "terminal_success"
     /\ e.clears => e.kind = "reconciling"
     /\ e.attempt # 0 => e.kind = "attempt_started"}

Unreduced == [state |-> "none", active |-> 0, cancel |-> FALSE, unknown |-> FALSE]

-----------------------------------------------------------------------------
(* Mutants: the tables and steps below with a plausible mistake in them.   *)

\* The gate forgets the uncertain side effects.
BlindRetryBlockedByState == derived.state = "execution_unknown"

-----------------------------------------------------------------------------
(* The reducer: one turn of the loop of reduce_job_state                   *)

\* The exceptions of the loop body.
RejectedByReducer(d, e) ==
  \/ d.state \in TerminalStates
  \/ e.kind = "attempt_started" /\ e.attempt = 0
  \/ e.kind = "terminal_success" /\ e.claim /\ ~e.proof
  \/ e.kind \notin NonTransitionKinds /\ e.kind \notin Transitions(d.state)

\* Once a prefix of the log is rejected the whole log is, for good.
Reduce(d, e) ==
  IF d.state = "rejected" \/ RejectedByReducer(d, e)
  THEN [Unreduced EXCEPT !.state = "rejected"]
  ELSE [state   |-> IF e.kind \in NonTransitionKinds THEN d.state ELSE e.kind,
        active  |-> IF e.kind = "attempt_started" THEN e.attempt ELSE d.active,
        cancel  |-> d.cancel \/ e.kind = "cancellation_requested",
        unknown |-> \/ e.kind = "execution_unknown"
                    \/ d.unknown /\ ~e.clears]

-----------------------------------------------------------------------------
(* The retry gate and what a restart reconstructs                          *)

\* reconstruct_job returns a view instead of raising.
Reconstructible ==
  /\ header
  /\ torn = {}
  /\ derived.state \notin {"none", "rejected"}

\* execution_unknown_blocks_blind_retry
BlindRetryBlocked == derived.state = "execution_unknown" \/ uncertain

\* retry_eligible of the reconstructed view: retry_eligibility, with the last
\* reconciliation record of the file
RetryEligible ==
  /\ Reconstructible
  /\ derived.state \notin TerminalStates
  /\ \/ BlindRetryBlocked /\ lastRecord = "grants"
     \/ /\ ~BlindRetryBlocked
        /\ derived.state \in {"retryable", "ready", "failed", "stalled", "timed_out"}

-----------------------------------------------------------------------------
(* Operations of JobLedgerStore                                            *)

\* The files reconstruct_job reads.  Rows of the heartbeat and checkpoint files
\* are appended without a check and no decision looks at them, so all that the
\* model keeps of them is whether they can still be read.
Files == {"events", "attempts", "leases", "heartbeats", "checkpoints",
          "side_effects", "reconciliations"}

Init ==
  /\ header = FALSE
  /\ derived = Unreduced
  /\ attempts = 0
  /\ leases = {}
  /\ uncertain = FALSE
  /\ lastRecord = "none"
  /\ torn = {}
  /\ awaiting = FALSE

\* write_header: temporary file and rename, refused when it would change.
WriteHeader ==
  /\ ~header
  /\ header' = TRUE
  /\ UNCHANGED <<derived, attempts, leases, uncertain, lastRecord, torn, awaiting>>

\* append_event: identity, sequence and digest chain are those of the file just
\* read; the transition is not checked here.
AppendEvent(e) ==
  /\ header
  /\ "events" \notin torn
  /\ CallersCheck => ~RejectedByReducer(derived, e)
  /\ derived' = Reduce(derived, e)
  /\ awaiting' = IF derived'.state = "rejected" THEN awaiting
                 ELSE (awaiting \/ e.kind = "execution_unknown") /\ e.kind # "reconciling"
  /\ UNCHANGED <<header, attempts, leases, uncertain, lastRecord, torn>>

\* append_attempt: assert_new_attempt_identity allows only the next number,
\* linked to the previous attempt and to the same header.
AppendAttempt ==
  /\ "attempts" \notin torn
  /\ attempts < MaxAttempts
  /\ attempts' = attempts + 1
  /\ UNCHANGED <<header, derived, leases, uncertain, lastRecord, torn, awaiting>>

Active(rows) == {row \in rows : ~row.released}

\* assert_single_active_lease over the file and the new row
MayLease(row) == ~row.released => Active(leases) = {}

AppendLease(row) ==
  /\ "leases" \notin torn
  /\ MayLease(row)
  /\ leases' = leases \cup {row}
  /\ UNCHANGED <<header, derived, attempts, uncertain, lastRecord, torn, awaiting>>

\* append_side_effect of an effect requested with unknown outcome; rows are
\* never updated, so it stays.
AppendUncertainSideEffect ==
  /\ "side_effects" \notin torn
  /\ uncertain' = TRUE
  /\ UNCHANGED <<header, derived, attempts, leases, lastRecord, torn, awaiting>>

\* append_reconciliation, of a record whose retry_eligible_after is retry.  The
\* file is not read first, so it may be torn.
AppendReconciliation(retry) ==
  /\ lastRecord' = IF retry THEN "grants" ELSE "refuses"
  /\ UNCHANGED <<header, derived, attempts, leases, uncertain, torn, awaiting>>

\* _append_jsonl is cut short: power fails or the disk fills inside the write.
\* One torn file is enough to lose the view, so the model stops at one.
TearAppend(f) ==
  /\ header
  /\ torn = {}
  /\ torn' = {f}
  /\ UNCHANGED <<header, derived, attempts, leases, uncertain, lastRecord, awaiting>>

LeaseRows == [attempt: 1..MaxAttempts, released: BOOLEAN]

Next ==
  \/ WriteHeader
  \/ \E e \in Events : AppendEvent(e)
  \/ AppendAttempt
  \/ \E row \in LeaseRows : AppendLease(row)
  \/ AppendUncertainSideEffect
  \/ \E retry \in BOOLEAN : AppendReconciliation(retry)
  \/ \E f \in Files : TearAppend(f)

Spec == Init /\ [][Next]_vars

-----------------------------------------------------------------------------
(* Properties                                                              *)

\* What a ReconciliationRecord can say of a retry.
Verdicts == {"none", "grants", "refuses"}

DerivedStates ==
  [state: JobStates \cup {"none", "rejected"}, active: AttemptNumbers,
   cancel: BOOLEAN, unknown: BOOLEAN]

\* Every variable has the type the record factories give it.
TypeOK ==
  /\ header \in BOOLEAN
  /\ derived \in DerivedStates
  /\ attempts \in AttemptNumbers
  /\ leases \subseteq LeaseRows
  /\ uncertain \in BOOLEAN
  /\ lastRecord \in Verdicts
  /\ torn \subseteq Files
  /\ awaiting \in BOOLEAN

\* States in which work may be under way, may start again, or has been
\* declared done.
Resumed == {"ready", "leased", "running", "waiting", "checkpointed", "retryable",
            "terminal_success"}

\* Lost contact is reconciled before anything else: between declaring
\* execution_unknown and any state in which the job is workable or succeeded
\* there is a reconciliation event, whatever the caller appends in between.
ReconciledBeforeResumed == derived.state \in Resumed => ~awaiting

\* A terminal job never becomes anything else: appending past the end makes the
\* log unreadable, loudly, and never reopens the job.
TerminalNeverReopens ==
  [][derived.state \in TerminalStates =>
       derived' = derived \/ derived'.state = "rejected"]_vars

\* One owner at a time: the lease file never holds two active rows.
OneActiveLease == \A a, b \in Active(leases) : a = b

\* No blind retry: while lost contact is not reconciled, or an external action
\* may have happened, the reconstructed view offers a retry only on a
\* reconciliation record that grants one, whatever events came in between.
NoBlindRetry == (awaiting \/ uncertain) /\ RetryEligible => lastRecord = "grants"

(* What the documentation says and the code does not do.                   *)

\* "History survives restart" (CONTINUOUS_BUILDER_GPD_DURABLE_JOB_LEDGER.md:86).
HistorySurvivesRestart == derived.state # "none" => Reconstructible
=============================================================================
