----------------------------- MODULE JobsProofs ------------------------------
(***************************************************************************)
(* Proofs about the durable job ledger, for any number of attempts and for *)
(* callers that check their events first as well as for callers that do    *)
(* not; about the side-effect ledger, for files of any length; about the   *)
(* capability build, for any reviewers, inputs and worker returns; and     *)
(* about the build job's file, for any number of sessions.                 *)
(***************************************************************************)
EXTENDS JobLedger, SideEffectLedger, CapabilityBuild, BuildJob, BuildScope, Integers, SequenceTheorems,
        WellFoundedInduction, TLAPS

------------------------------------------------------------------------------
(* The durable job ledger.                                                 *)

\* Lost contact that no reconciliation event has followed leaves the job where
\* it was declared, or ended, or with an unreadable log: the strengthening that
\* makes ReconciledBeforeResumed and NoBlindRetry inductive.
AwaitingIsParked ==
  awaiting => derived.state \in {"execution_unknown", "cancelled",
                                 "terminal_failure", "rejected"}

\* The inductive invariant.
IndInv == TypeOK /\ AwaitingIsParked /\ OneActiveLease

\* The accumulator before the first event and after a rejected one is well formed.
LEMMA UnreducedType ==
  /\ Unreduced \in DerivedStates
  /\ [Unreduced EXCEPT !.state = "rejected"] \in DerivedStates
<1>1. 0 \in AttemptNumbers
  BY MaxAttemptsAssumption DEF AttemptNumbers
<1>2. FALSE \in BOOLEAN
  OBVIOUS
<1>3. "none" \in JobStates \cup {"none", "rejected"}
      /\ "rejected" \in JobStates \cup {"none", "rejected"}
  OBVIOUS
<1>4. Unreduced \in DerivedStates
  BY <1>1, <1>2, <1>3 DEF Unreduced, DerivedStates
<1>5. [Unreduced EXCEPT !.state = "rejected"] \in DerivedStates
  BY <1>3, <1>4 DEF DerivedStates
<1> QED BY <1>4, <1>5

\* Reducing an event gives a derived state of the right type, whichever event
\* the factory built (reduce_job_state's loop body).
LEMMA ReduceType ==
  ASSUME NEW d \in DerivedStates, NEW e \in Events
  PROVE  Reduce(d, e) \in DerivedStates
<1>1. /\ d.state \in JobStates \cup {"none", "rejected"}
      /\ d.active \in AttemptNumbers
      /\ d.cancel \in BOOLEAN
      /\ d.unknown \in BOOLEAN
  BY DEF DerivedStates
<1>2. e.kind \in JobStates \cup NonTransitionKinds /\ e.attempt \in AttemptNumbers
  BY DEF Events, Kinds
<1>3. CASE d.state = "rejected" \/ RejectedByReducer(d, e)
  BY <1>3, UnreducedType DEF Reduce
<1>4. CASE ~(d.state = "rejected" \/ RejectedByReducer(d, e))
  <2> DEFINE state == IF e.kind \in NonTransitionKinds THEN d.state ELSE e.kind
             active == IF e.kind = "attempt_started" THEN e.attempt ELSE d.active
             cancel == d.cancel \/ e.kind = "cancellation_requested"
             unknown == e.kind = "execution_unknown" \/ (d.unknown /\ ~e.clears)
  <2>1. state \in JobStates \cup {"none", "rejected"}
    BY <1>1, <1>2
  <2>2. active \in AttemptNumbers
    BY <1>1, <1>2
  <2>3. cancel \in BOOLEAN /\ unknown \in BOOLEAN
    BY <1>1
  <2>4. Reduce(d, e) = [state |-> state, active |-> active, cancel |-> cancel,
                        unknown |-> unknown]
    BY <1>4 DEF Reduce
  <2> HIDE DEF state, active, cancel, unknown
  <2> QED BY <2>1, <2>2, <2>3, <2>4 DEF DerivedStates
<1> QED BY <1>3, <1>4

\* From execution_unknown the reducer only moves to reconciling, to an end or to
\* rejection, and ended jobs only to rejection (TRANSITIONS).
LEMMA ParkedStaysParked ==
  ASSUME NEW d \in DerivedStates, NEW e \in Events,
         d.state \in {"execution_unknown", "cancelled", "terminal_failure", "rejected"},
         e.kind # "reconciling"
  PROVE  Reduce(d, e).state \in {"execution_unknown", "cancelled",
                                 "terminal_failure", "rejected"}
<1>1. CASE d.state = "rejected" \/ RejectedByReducer(d, e)
  BY <1>1 DEF Reduce, Unreduced
<1>2. CASE ~(d.state = "rejected" \/ RejectedByReducer(d, e))
  <2>1. d.state = "execution_unknown"
    BY <1>2 DEF RejectedByReducer, TerminalStates
  <2>2. Transitions(d.state) = {"reconciling", "cancelled", "terminal_failure"}
    BY <2>1 DEF Transitions
  <2> QED BY <1>2, <2>1, <2>2 DEF Reduce, RejectedByReducer
<1> QED BY <1>1, <1>2

\* An event that declares execution_unknown leaves the job there or unreadable.
LEMMA UnknownParks ==
  ASSUME NEW d \in DerivedStates, NEW e \in Events, e.kind = "execution_unknown"
  PROVE  Reduce(d, e).state \in {"execution_unknown", "rejected"}
BY DEF Reduce, Unreduced, NonTransitionKinds

\* The ledger's invariant: whatever a caller appends, the derived state is well
\* formed, unreconciled loss of contact parks the job, and one lease is active.
THEOREM LedgerInvariance == Spec => []IndInv
<1>1. Init => IndInv
  <2> SUFFICES ASSUME Init PROVE IndInv
    OBVIOUS
  <2>1. 0 \in AttemptNumbers
    BY MaxAttemptsAssumption DEF AttemptNumbers
  <2>2. TypeOK
    BY <2>1, UnreducedType DEF Init, TypeOK, Verdicts
  <2>3. AwaitingIsParked /\ OneActiveLease
    BY DEF Init, AwaitingIsParked, OneActiveLease, Active
  <2> QED BY <2>2, <2>3 DEF IndInv
<1>2. IndInv /\ [Next]_vars => IndInv'
  <2> SUFFICES ASSUME IndInv, [Next]_vars PROVE IndInv'
    OBVIOUS
  <2> USE DEF IndInv
  <2>1. CASE WriteHeader
    BY <2>1 DEF WriteHeader, TypeOK, AwaitingIsParked, OneActiveLease, Active
  <2>2. ASSUME NEW e \in Events, AppendEvent(e) PROVE IndInv'
    <3>1. derived \in DerivedStates /\ derived' = Reduce(derived, e)
      BY <2>2 DEF TypeOK, AppendEvent
    <3>2. TypeOK'
      BY <2>2, <3>1, ReduceType DEF TypeOK, AppendEvent
    <3>3. AwaitingIsParked'
      <4> SUFFICES ASSUME awaiting', derived'.state # "rejected"
                   PROVE  derived'.state \in {"execution_unknown", "cancelled",
                                              "terminal_failure", "rejected"}
        BY DEF AwaitingIsParked
      <4>1. e.kind # "reconciling" /\ (awaiting \/ e.kind = "execution_unknown")
        BY <2>2 DEF AppendEvent
      <4>2. CASE awaiting
        BY <3>1, <4>1, <4>2, ParkedStaysParked DEF AwaitingIsParked
      <4>3. CASE e.kind = "execution_unknown"
        BY <3>1, <4>3, UnknownParks
      <4> QED BY <4>1, <4>2, <4>3
    <3>4. OneActiveLease'
      BY <2>2 DEF AppendEvent, OneActiveLease, Active
    <3> QED BY <3>2, <3>3, <3>4
  <2>3. CASE AppendAttempt
    BY <2>3, MaxAttemptsAssumption
       DEF AppendAttempt, AttemptNumbers, TypeOK, AwaitingIsParked, OneActiveLease, Active
  <2>4. ASSUME NEW row \in LeaseRows, AppendLease(row) PROVE IndInv'
    <3>1. TypeOK' /\ AwaitingIsParked'
      BY <2>4 DEF AppendLease, TypeOK, AwaitingIsParked
    <3>2. leases' = leases \cup {row} /\ MayLease(row)
      BY <2>4 DEF AppendLease
    <3>3. OneActiveLease'
      <4>1. CASE row.released
        BY <3>2, <4>1 DEF OneActiveLease, Active
      <4>2. CASE ~row.released
        BY <3>2, <4>2 DEF MayLease, OneActiveLease, Active
      <4> QED BY <4>1, <4>2
    <3> QED BY <3>1, <3>3
  <2>5. CASE AppendUncertainSideEffect
    BY <2>5 DEF AppendUncertainSideEffect, TypeOK, AwaitingIsParked, OneActiveLease,
                Active
  <2>6. ASSUME NEW retry \in BOOLEAN, AppendReconciliation(retry) PROVE IndInv'
    BY <2>6 DEF AppendReconciliation, Verdicts, TypeOK, AwaitingIsParked, OneActiveLease, Active
  <2>7. ASSUME NEW f \in Files, TearAppend(f) PROVE IndInv'
    BY <2>7 DEF TearAppend, TypeOK, AwaitingIsParked, OneActiveLease, Active
  <2>8. CASE UNCHANGED vars
    BY <2>8 DEF vars, TypeOK, AwaitingIsParked, OneActiveLease, Active
  <2> QED BY <2>1, <2>2, <2>3, <2>4, <2>5, <2>6, <2>7, <2>8 DEF Next
<1> QED BY <1>1, <1>2, PTL DEF Spec

\* Lost contact is reconciled before the job is workable or succeeded, for every
\* sequence of events a caller appends.
THEOREM ReconcileFirst == Spec => []ReconciledBeforeResumed
<1>1. IndInv => ReconciledBeforeResumed
  BY DEF IndInv, AwaitingIsParked, ReconciledBeforeResumed, Resumed
<1> QED BY <1>1, LedgerInvariance, PTL

\* The reconstructed view never offers a blind retry.
THEOREM BlindRetryNeverOffered == Spec => []NoBlindRetry
<1>1. IndInv => NoBlindRetry
  <2> SUFFICES ASSUME IndInv, awaiting \/ uncertain, RetryEligible
               PROVE  lastRecord = "grants"
    BY DEF NoBlindRetry
  <2>1. CASE uncertain
    BY <2>1 DEF RetryEligible, BlindRetryBlocked
  <2>2. CASE awaiting
    BY <2>2 DEF IndInv, AwaitingIsParked, RetryEligible, BlindRetryBlocked,
                Reconstructible, TerminalStates
  <2> QED BY <2>1, <2>2
<1> QED BY <1>1, LedgerInvariance, PTL

\* The lease file never holds two active rows.
THEOREM LeaseExclusion == Spec => []OneActiveLease
BY LedgerInvariance, PTL DEF IndInv

\* Every variable of the ledger keeps its type.
THEOREM LedgerTypes == Spec => []TypeOK
BY LedgerInvariance, PTL DEF IndInv

\* A terminal job keeps its derived state until the log is unreadable.
THEOREM TerminalIsFinal == Spec => TerminalNeverReopens
<1>1. ASSUME [Next]_vars, derived.state \in TerminalStates
      PROVE  derived' = derived \/ derived'.state = "rejected"
  <2>1. ASSUME NEW e \in Events, AppendEvent(e) PROVE derived'.state = "rejected"
    BY <1>1, <2>1 DEF AppendEvent, Reduce, RejectedByReducer, Unreduced
  <2> QED
    BY <1>1, <2>1
       DEF Next, vars, WriteHeader, AppendAttempt, AppendLease,
           AppendUncertainSideEffect, AppendReconciliation, TearAppend
<1> QED BY <1>1, PTL DEF Spec, TerminalNeverReopens

------------------------------------------------------------------------------
(* The side-effect ledger: an idempotency key stands for one request.      *)

\* A loop over indexes that stops at the first match stops at the least one.
LEMMA LeastIndex ==
  ASSUME NEW T, T \subseteq Nat, T # {}
  PROVE  \E i \in T : \A j \in T : ~(j < i)
<1>1. PICK i \in T : \A j \in T : ~(<<j, i>> \in OpToRel(<, Nat))
  BY NatLessThanWellFounded, WFMin, Zenon
<1>2. \A j \in T : j < i => <<j, i>> \in OpToRel(<, Nat)
  BY Zenon DEF OpToRel
<1> QED BY <1>1, <1>2

\* A candidate the loop does not refuse agrees with every row of its key: the
\* first row that decides is a replay, and all rows of a key agree already.
LEMMA AcceptedAgrees ==
  ASSUME EffectsTypeOK, KeyBindsOneRequest, NEW c \in Rows, ~Refused(c),
         NEW k \in 1..Len(effects), effects[k].key = c.key
  PROVE  effects[k].request = c.request
<1> DEFINE T == {i \in 1..Len(effects) : SameId(effects[i], c) \/ effects[i].key = c.key}
<1>1. T \subseteq Nat /\ k \in T
  BY DEF EffectsTypeOK
<1>2. PICK i \in T : \A j \in T : ~(j < i)
  BY <1>1, LeastIndex
<1>3. i \in 1..Len(effects) /\ (SameId(effects[i], c) \/ effects[i].key = c.key)
  BY <1>2
<1>4. \A j \in 1..(i - 1) : ~SameId(effects[j], c) /\ effects[j].key # c.key
  BY <1>2, <1>3 DEF EffectsTypeOK
<1> HIDE DEF T
<1>5. Decides(i, c)
  BY <1>3, <1>4 DEF Decides, Conflict, Replay
<1>6. ~SameId(effects[i], c) /\ ~Conflict(effects[i], c)
  BY <1>3, <1>5 DEF Refused
<1>7. effects[i].key = c.key /\ effects[i].request = c.request
  BY <1>3, <1>6 DEF Conflict
<1> QED BY <1>3, <1>7 DEF KeyBindsOneRequest

\* The file is well formed and a key stands for one request.
THEOREM IdempotencyKeys == EffectsSpec => [](EffectsTypeOK /\ KeyBindsOneRequest)
<1>1. EffectsInit => EffectsTypeOK /\ KeyBindsOneRequest
  BY MaxRowsAssumption DEF EffectsInit, EffectsTypeOK, KeyBindsOneRequest
<1>2. EffectsTypeOK /\ KeyBindsOneRequest /\ [EffectsNext]_effects => (EffectsTypeOK /\ KeyBindsOneRequest)'
  <2> SUFFICES ASSUME EffectsTypeOK, KeyBindsOneRequest, [EffectsNext]_effects
               PROVE  (EffectsTypeOK /\ KeyBindsOneRequest)'
    OBVIOUS
  <2>1. CASE UNCHANGED effects
    BY <2>1 DEF EffectsTypeOK, KeyBindsOneRequest
  <2>2. ASSUME NEW c \in Rows, AppendSideEffect(c)
        PROVE  (EffectsTypeOK /\ KeyBindsOneRequest)'
    <3>1. effects \in Seq(Rows) /\ effects' = Append(effects, c) /\ Len(effects) < MaxRows
          /\ ~Refused(c)
      BY <2>2 DEF EffectsTypeOK, AppendSideEffect
    <3>2. EffectsTypeOK'
      BY <3>1, MaxRowsAssumption DEF EffectsTypeOK
    <3>3. Len(effects') = Len(effects) + 1 /\ effects'[Len(effects) + 1] = c
          /\ \A i \in 1..Len(effects) : effects'[i] = effects[i]
      BY <3>1
    <3>4. \A k \in 1..Len(effects) : effects[k].key = c.key => effects[k].request = c.request
      BY <3>1, AcceptedAgrees
    <3>5. KeyBindsOneRequest'
      <4> SUFFICES ASSUME NEW i \in 1..Len(effects'), NEW j \in 1..Len(effects'),
                          effects'[i].key = effects'[j].key
                   PROVE  effects'[i].request = effects'[j].request
        BY DEF KeyBindsOneRequest
      <4>1. /\ i \in 1..Len(effects) \/ i = Len(effects) + 1
            /\ j \in 1..Len(effects) \/ j = Len(effects) + 1
        BY <3>1, <3>3
      <4> QED BY <3>3, <3>4, <4>1 DEF KeyBindsOneRequest
    <3> QED BY <3>2, <3>5
  <2> QED BY <2>1, <2>2 DEF EffectsNext
<1> QED BY <1>1, <1>2, PTL DEF EffectsSpec

------------------------------------------------------------------------------
(* The capability build, up to publication.                                *)

\* A stage is derived only after the one before it.
StagesInOrder ==
  /\ Made(start) => Made(request)
  /\ Made(creation) => Made(start)
  /\ Made(freeze) => Made(creation)
  /\ Made(brief) => Made(freeze)
  /\ Made(intake) => Made(brief)
  /\ Made(evidence) => Made(intake)
  /\ Made(bundle) => Made(evidence)
  /\ Made(handoff) => Made(bundle)
  /\ Made(package) => Made(handoff)
  /\ Made(rendering) => Made(package)
  /\ Made(review) => Made(rendering)
  /\ decisions # {} => Made(review)

\* A stage that advanced rests on the one before it, up to the worker's return.
BuildRests ==
  /\ start.done = "yes" => request.status = "ready_for_workflow"
  /\ creation.done = "yes" => start.done = "yes"
  /\ freeze.done = "yes" => creation.done = "yes"
  /\ brief.done = "yes" => freeze.done = "yes"
  /\ intake.done = "yes" =>
       brief.done = "yes" /\ intake.findings = Findings(freeze.scope, intake.files)
  /\ evidence.done = "yes" =>
       /\ intake.done = "yes"
       /\ ValidReport(intake.files, evidence.report)
       /\ evidence.status = EvidenceStatus(intake.files, evidence.report)

\* And from its evidence to the review.
ReviewRests ==
  /\ bundle.done = "yes" =>
       /\ evidence.done = "yes"
       /\ bundle.contents.findings = intake.findings
       /\ bundle.contents.status = evidence.status
  /\ handoff.done = "yes" =>
       /\ bundle.done = "yes"
       /\ handoff.approvable => ApprovalBlockers(bundle) = {}
  /\ package.done = "yes" =>
       /\ handoff.done = "yes" /\ ReachedStep(package.workflow, "handoff_created")
       /\ package.job = creation.job /\ package.base = creation.base
       /\ package.ready => handoff.approvable
  /\ rendering.done = "yes" =>
       /\ package.done = "yes" /\ rendering.workflow = package.workflow
       /\ rendering.disposition = "ready_for_human_review" => package.ready
  /\ review.done = "yes" =>
       /\ rendering.done = "yes"
       /\ review.workflow = RecordStep(rendering.workflow, "human_decision_pending")
       /\ "approve_for_pr" \in review.options => rendering.disposition = "ready_for_human_review"

\* What is published goes back to a recorded approval of the package.
PublicationRests ==
  /\ \A d \in decisions : d.eligible =>
       /\ review.done = "yes" /\ "approve_for_pr" \in review.options
       /\ d.decision = "approve_for_pr" /\ d.job = package.job /\ d.base = package.base
  /\ \A a \in authorizations : a.authorized => a.decision \in decisions /\ a.decision.eligible
  /\ \A x \in actions : x.prepared =>
       x.authorization \in authorizations /\ x.authorization.authorized
  /\ \A r \in results : r.status # "rejected" => r.action \in actions /\ r.action.prepared

\* The inductive invariant.
BuildInv == StagesInOrder /\ BuildRests /\ ReviewRests /\ PublicationRests

\* Nothing is derived at the start.
LEMMA BuildInitInv == BuildInit => BuildInv
<1> SUFFICES ASSUME BuildInit PROVE BuildInv
  OBVIOUS
<1>1. StagesInOrder
  BY DEF BuildInit, StagesInOrder, Unset, Made, None
<1>2. BuildRests
  BY DEF BuildInit, BuildRests, Unset, Made, None
<1>3. ReviewRests
  <2>1. /\ bundle.done # "yes" /\ handoff.done # "yes" /\ package.done # "yes"
        /\ rendering.done # "yes" /\ review.done # "yes"
    BY DEF BuildInit, Unset, None
  <2> QED BY ONLY <2>1 DEF ReviewRests
<1>4. PublicationRests
  BY DEF BuildInit, PublicationRests, Unset, Made, None
<1> QED BY <1>1, <1>2, <1>3, <1>4 DEF BuildInv

\* Every stage, and every refusal of one, preserves the invariant.
LEMMA BuildStep == BuildInv /\ [BuildNext]_buildVars => BuildInv'
<1> SUFFICES ASSUME BuildInv, [BuildNext]_buildVars PROVE BuildInv'
  OBVIOUS
<1> USE DEF BuildInv, StagesInOrder, BuildRests, ReviewRests, PublicationRests, Made, None
<1>1. ASSUME NEW text \in Texts, NEW undecided \in BOOLEAN, SubmitRequest(text, undecided)
      PROVE  BuildInv'
  BY <1>1 DEF SubmitRequest
<1>2. CASE StartWorkflow
  BY <1>2 DEF StartWorkflow, WorkflowStart, Result, NotDone
<1>3. ASSUME NEW binding \in Bindings, CreateJob(binding) PROVE BuildInv'
  BY <1>3 DEF CreateJob, JobCreation, JobInputsReady, Ready, NotDone
<1>4. ASSUME NEW input \in ScopeInputs, FreezeJobScope(input) PROVE BuildInv'
  BY <1>4 DEF FreezeJobScope, ScopeFreeze, CreationReady, Ready, NotDone
<1>5. ASSUME NEW valid \in BOOLEAN, RenderBrief(valid) PROVE BuildInv'
  BY <1>5 DEF RenderBrief, BriefReady, Ready, NotDone
<1>6. ASSUME NEW files \in Returns, NEW wellFormed \in BOOLEAN, CheckReturn(files, wellFormed)
      PROVE  BuildInv'
  BY <1>6 DEF CheckReturn, IntakeCheck, Ready, NotDone
<1>7. ASSUME NEW report \in Reports, AttachEvidence(report) PROVE BuildInv'
  BY <1>7 DEF AttachEvidence, EvidenceAttachment, IntakeAllowsEvidence, Ready, NotDone
<1>8. ASSUME NEW fits \in BOOLEAN, CreateBundle(fits) PROVE BuildInv'
  BY <1>8 DEF CreateBundle, BundleCreation, BundleContents, Ready, NotDone
<1>9. ASSUME NEW fits \in BOOLEAN, CreateHandoff(fits) PROVE BuildInv'
  BY <1>9 DEF CreateHandoff, HandoffCreation, HandoffPackage, Ready, NotDone
<1>10. ASSUME NEW fits \in BOOLEAN, CreatePackage(fits) PROVE BuildInv'
  BY <1>10 DEF CreatePackage, PackageCreation, PackageProposal, Ready, NotDone
<1>11. ASSUME NEW fits \in BOOLEAN, RenderPackage(fits) PROVE BuildInv'
  BY <1>11 DEF RenderPackage, PackageRendering, Disposition
<1>12. CASE EnterReview
  BY <1>12 DEF EnterReview, ReviewPending, Options
<1>13. ASSUME NEW supplied \in SuppliedDecisions, RecordDecision(supplied) PROVE BuildInv'
  <2> DEFINE e == DecisionRecording(supplied)
  <2>1. /\ e.decision = supplied.decision /\ e.job = supplied.job /\ e.base = supplied.base
        /\ e.eligible = (RecordableDecision(supplied) /\ supplied.decision = "approve_for_pr")
    BY DEF DecisionRecording
  <2> HIDE DEF e
  <2>2. e.eligible =>
          /\ review.done = "yes" /\ "approve_for_pr" \in review.options
          /\ e.decision = "approve_for_pr" /\ e.job = package.job /\ e.base = package.base
    BY <2>1 DEF RecordableDecision
  <2>3. /\ Made(review) /\ decisions' = decisions \cup {e}
        /\ UNCHANGED <<request, start, creation, freeze, brief, intake, evidence, bundle, handoff,
                       package, rendering, review, authorizations, actions, results>>
    BY <1>13 DEF RecordDecision, e
  <2>4. PublicationRests'
    BY <2>2, <2>3
  <2> QED BY <2>3, <2>4
<1>14. ASSUME NEW d \in decisions, NEW id \in AuthorizationIds, NEW wrong \in Fields \cup {None},
              Authorize(d, id, wrong)
       PROVE  BuildInv'
  <2> DEFINE b == Authorization(d, id, wrong)
  <2>1. b.decision = d /\ b.authorized = (d.eligible /\ wrong = None)
    BY DEF Authorization
  <2> HIDE DEF b
  <2>2. b.authorized => b.decision \in decisions /\ b.decision.eligible
    BY <2>1
  <2>3. /\ authorizations' = authorizations \cup {b}
        /\ UNCHANGED <<request, start, creation, freeze, brief, intake, evidence, bundle, handoff,
                       package, rendering, review, decisions, actions, results>>
    BY <1>14 DEF Authorize, b
  <2>4. PublicationRests'
    BY <2>2, <2>3
  <2> QED BY <2>3, <2>4
<1>15. ASSUME NEW a \in authorizations, Prepare(a) PROVE BuildInv'
  BY <1>15 DEF Prepare, PublicationAction
<1>16. ASSUME NEW x \in actions, NEW outcome \in Outcomes, NEW wrong \in Fields \cup {None},
              NEW canonical \in BOOLEAN, RecordResult(x, outcome, wrong, canonical)
       PROVE  BuildInv'
  BY <1>16 DEF RecordResult, PublicationResult
<1>17. CASE UNCHANGED buildVars
  BY <1>17 DEF buildVars
<1> QED BY <1>1, <1>2, <1>3, <1>4, <1>5, <1>6, <1>7, <1>8, <1>9, <1>10, <1>11, <1>12, <1>13,
           <1>14, <1>15, <1>16, <1>17 DEF BuildNext

\* The names of the workflow's steps.
AllSteps ==
  {"request_received", "job_created", "scope_frozen", "brief_ready", "worker_returned",
   "intake_checked", "evidence_attached", "bundle_created", "handoff_created",
   "human_decision_pending"}

\* A sequence is its first elements and the last one.
LEMMA InitThenLast ==
  ASSUME NEW S, NEW s \in Seq(S), NEW n \in Nat, Len(s) = n + 1
  PROVE  Len(SubSeq(s, 1, n)) = n /\ Append(SubSeq(s, 1, n), s[n + 1]) = s
<1> DEFINE most == SubSeq(s, 1, n)
           last == s[n + 1]
<1>1. last \in S
  OBVIOUS
<1>2. /\ most \in Seq(S) /\ Len(most) = n
      /\ \A i \in 1 .. n : most[i] = s[i]
  OBVIOUS
<1>0. last = s[n + 1]
  OBVIOUS
<1> HIDE DEF most, last
<1> DEFINE all == Append(most, last)
<1>3. /\ all \in Seq(S) /\ Len(all) = n + 1 /\ all[n + 1] = last
      /\ \A i \in 1 .. n : all[i] = most[i]
  BY <1>1, <1>2, AppendProperties
<1> HIDE DEF all
<1>4. \A i \in 1 .. n + 1 : all[i] = s[i]
  <2> TAKE i \in 1 .. n + 1
  <2>1. i = n + 1 \/ i \in 1 .. n
    OBVIOUS
  <2> QED BY <1>0, <1>2, <1>3, <2>1
<1>5. all = s
  BY <1>3, <1>4
<1> QED BY <1>2, <1>5 DEF most, last, all

\* Recording the last step after the handoff completes the workflow, in order.
LEMMA LastStep ==
  ASSUME NEW w, ReachedStep(w, "handoff_created")
  PROVE  RecordStep(w, "human_decision_pending").completed = WORKFLOW_STEPS
<1>1. StepIndex("handoff_created") = 9 /\ StepIndex("human_decision_pending") = 10
  BY DEF StepIndex, WORKFLOW_STEPS
<1>2. w.completed = SubSeq(WORKFLOW_STEPS, 1, 9)
  BY <1>1 DEF ReachedStep
<1>3. Len(w.completed) = 9 /\ Append(w.completed, "human_decision_pending") = WORKFLOW_STEPS
  <2>0. Len(WORKFLOW_STEPS) = 10
    BY DEF WORKFLOW_STEPS
  <2>5. WORKFLOW_STEPS[10] = "human_decision_pending"
    BY DEF WORKFLOW_STEPS
  <2>6. WORKFLOW_STEPS \in Seq(AllSteps)
    BY DEF WORKFLOW_STEPS, AllSteps
  <2>7. "human_decision_pending" \in AllSteps
    BY DEF AllSteps
  <2>1. /\ WORKFLOW_STEPS \in Seq(AllSteps) /\ Len(WORKFLOW_STEPS) = 10
        /\ WORKFLOW_STEPS[10] = "human_decision_pending"
    BY <2>0, <2>5, <2>6
  <2> HIDE DEF AllSteps
  <2>8. \A n \in Nat : n = 9 =>
          Len(w.completed) = n /\ Append(w.completed, "human_decision_pending") = WORKFLOW_STEPS
    <3> TAKE n \in Nat
    <3> HAVE n = 9
    <3>1. w.completed = SubSeq(WORKFLOW_STEPS, 1, n)
      BY <1>2
    <3>2. n + 1 = 10
      OBVIOUS
    <3>3. Len(WORKFLOW_STEPS) = n + 1 /\ WORKFLOW_STEPS[n + 1] = "human_decision_pending"
      BY <2>1, <3>2
    <3> QED BY <2>1, <3>1, <3>3, InitThenLast
  <2> QED BY <2>8, 9 \in Nat
<1> QED BY <1>1, <1>3 DEF RecordStep

\* A return without findings is clean.
LEMMA NoFindings ==
  ASSUME NEW scope, NEW files, Findings(scope, files) = {}
  PROVE  \A i \in DOMAIN files :
           /\ Decision(scope, files[i].path, files[i].operation) = "allowed"
           /\ files[i].content \cap SafetyRules = {}
           /\ \A j \in DOMAIN files : Identity(files[j].path) = Identity(files[i].path) => i = j
<1> SUFFICES ASSUME NEW i \in DOMAIN files
             PROVE  /\ Decision(scope, files[i].path, files[i].operation) = "allowed"
                    /\ files[i].content \cap SafetyRules = {}
                    /\ \A j \in DOMAIN files :
                         Identity(files[j].path) = Identity(files[i].path) => i = j
  OBVIOUS
<1>1. DuplicateFindings(files) = {}
  BY DEF Findings
<1>2. Decision(scope, files[i].path, files[i].operation) = "allowed"
  BY DEF Findings
<1>3. SafetyFindings(files[i]) = {}
  BY DEF Findings
<1>4. files[i].content \cap SafetyRules = {}
  BY <1>3 DEF SafetyFindings
<1>5. \A j \in DOMAIN files : Identity(files[j].path) = Identity(files[i].path) => i = j
  BY <1>1 DEF DuplicateFindings
<1> QED BY <1>2, <1>4, <1>5

\* Evidence that passed is a passed report of every planned command.
LEMMA PassedEvidence ==
  ASSUME NEW files, NEW report, ValidReport(files, report), EvidenceStatus(files, report) = "passed"
  PROVE  /\ \A c \in PlannedCommands(files) : \E i \in DOMAIN report : report[i].name = c
         /\ \A i \in DOMAIN report : report[i].status = "passed"
<1> DEFINE statuses == {report[i].status : i \in DOMAIN report}
           reported == {report[i].name : i \in DOMAIN report}
<1>1. /\ "blocked" \notin statuses /\ "failed" \notin statuses /\ "not_run" \notin statuses
      /\ reported = PlannedCommands(files)
  BY DEF EvidenceStatus
<1>2. statuses \subseteq EvidenceStatuses
  BY DEF ValidReport
<1> QED BY <1>1, <1>2 DEF EvidenceStatuses

\* The inductive invariant implies the property.
LEMMA ReviewedInv == BuildInv => PublishedWasReviewed
<1> SUFFICES ASSUME BuildInv,
                    \/ \E x \in actions : x.prepared
                    \/ \E r \in results : r.status # "rejected"
             PROVE  PublishedWasReviewed
  BY DEF PublishedWasReviewed
<1>1. PICK d \in decisions : d.eligible
  BY DEF BuildInv, PublicationRests
<1>2. /\ review.done = "yes" /\ "approve_for_pr" \in review.options
      /\ d.decision = "approve_for_pr" /\ d.job = package.job /\ d.base = package.base
  BY <1>1 DEF BuildInv, PublicationRests
<1>3. /\ rendering.done = "yes" /\ package.done = "yes" /\ handoff.done = "yes"
      /\ bundle.done = "yes" /\ evidence.done = "yes"
      /\ review.workflow = RecordStep(package.workflow, "human_decision_pending")
      /\ ReachedStep(package.workflow, "handoff_created")
      /\ d.job = creation.job /\ d.base = creation.base
      /\ ApprovalBlockers(bundle) = {}
      /\ bundle.contents.findings = intake.findings /\ bundle.contents.status = evidence.status
  BY <1>2 DEF BuildInv, ReviewRests
<1>4. intake.findings = {} /\ evidence.status = "passed"
  BY <1>3 DEF ApprovalBlockers
<1>5. /\ request.status = "ready_for_workflow"
      /\ Findings(freeze.scope, intake.files) = {}
      /\ ValidReport(intake.files, evidence.report)
      /\ EvidenceStatus(intake.files, evidence.report) = "passed"
  BY <1>3, <1>4 DEF BuildInv, BuildRests
<1>6. review.workflow.completed = WORKFLOW_STEPS
  BY <1>3, LastStep
<1> QED BY <1>1, <1>2, <1>3, <1>5, <1>6, NoFindings, PassedEvidence DEF PublishedWasReviewed

\* Nothing is published that was not reviewed: a prepared or reported pull
\* request has a ready request, files inside the frozen scope, passed checks, all
\* ten steps in order and a human's approval of this job at this base behind it
\* (pr_publication_authorization.py, pr_publication_action.py).
THEOREM PublicationIsReviewed == BuildSpec => []PublishedWasReviewed
BY BuildInitInv, BuildStep, ReviewedInv, PTL DEF BuildSpec

------------------------------------------------------------------------------
(* The build job and its file.                                             *)

\* A whole job.json is the text of a save that reached its end; a torn one, of
\* a session that died or that another one overtook, is never whole.
FileInv ==
  /\ DOMAIN held = Sessions
  /\ file.whole \in BOOLEAN
  /\ file.whole => file.text \in written

\* The invariant of the file holds of every job.
THEOREM FileInvariant == JobSpec => []FileInv
<1>1. JobInit => FileInv
  BY DEF JobInit, FileInv, Absent
<1>2. FileInv /\ [JobNext]_jobVars => FileInv'
  <2> SUFFICES ASSUME FileInv, [JobNext]_jobVars PROVE FileInv'
    OBVIOUS
  <2>1. CASE UNCHANGED jobVars
    BY <2>1 DEF FileInv, jobVars
  <2>2. CASE JobNext
    <3> PICK s \in Sessions :
            \/ NewJob(s)
            \/ \E new \in BUILD_JOB_STATES : Transition(s, new)
            \/ \E reason \in {"verification_failure", "blocking_finding"} : Retry(s, reason)
            \/ BeginSave(s)
            \/ EndSave(s)
            \/ Load(s)
            \/ CreateWorkspace(s)
            \/ Exit(s)
      BY <2>2 DEF JobNext
    <3>1. CASE NewJob(s) \/ Load(s) \/ CreateWorkspace(s) \/ Exit(s)
      BY <3>1 DEF FileInv, NewJob, Load, CreateWorkspace, Exit
    <3>2. CASE \E new \in BUILD_JOB_STATES : Transition(s, new)
      BY <3>2 DEF FileInv, Transition, WithEvent
    <3>3. CASE \E reason \in {"verification_failure", "blocking_finding"} : Retry(s, reason)
      BY <3>3 DEF FileInv, Retry, WithEvent
    <3>4. CASE BeginSave(s)
      BY <3>4 DEF FileInv, BeginSave, Torn
    <3>5. CASE EndSave(s)
      <4>1. DOMAIN held' = Sessions
        BY <3>5 DEF FileInv, EndSave
      <4>2. CASE file' = Torn(s, held[s])
        BY <4>1, <4>2 DEF FileInv, Torn
      <4>3. CASE file' = Whole(s, held[s]) /\ written' = written \cup {held[s]}
        BY <4>1, <4>3 DEF FileInv, Whole
      <4> QED BY <3>5, <4>2, <4>3 DEF EndSave
    <3> QED BY <3>1, <3>2, <3>3, <3>4, <3>5
  <2> QED BY <2>1, <2>2
<1> QED BY <1>1, <1>2, PTL DEF JobSpec

\* A session that comes to hold a job made it anew or read the text of a save
\* that was completed, however many sessions overwrite job.json in place and
\* wherever one of them dies (save_job and load_job of job.py).
THEOREM LoadsWereSaved == JobSpec => LoadedWasSaved
<1> DEFINE Taken(s) ==
      (held[s] = NoJob /\ held'[s] # NoJob) => held'[s] = <<FirstEvent>> \/ held'[s] \in written
<1>1. FileInv /\ [JobNext]_jobVars => [\A s \in Sessions : Taken(s)]_jobVars
  <2> SUFFICES ASSUME FileInv, JobNext, NEW s \in Sessions, held[s] = NoJob, held'[s] # NoJob
               PROVE  held'[s] = <<FirstEvent>> \/ held'[s] \in written
    OBVIOUS
  <2> PICK t \in Sessions :
          \/ NewJob(t)
          \/ \E new \in BUILD_JOB_STATES : Transition(t, new)
          \/ \E reason \in {"verification_failure", "blocking_finding"} : Retry(t, reason)
          \/ BeginSave(t)
          \/ EndSave(t)
          \/ Load(t)
          \/ CreateWorkspace(t)
          \/ Exit(t)
    BY DEF JobNext
  <2>1. CASE NewJob(t)
    BY <2>1 DEF FileInv, NewJob
  <2>2. CASE Load(t)
    BY <2>2 DEF FileInv, Load
  <2>3. CASE \E new \in BUILD_JOB_STATES : Transition(t, new)
    <3>1. held[t] # NoJob /\ \A r \in Sessions \ {t} : held'[r] = held[r]
      BY <2>3 DEF FileInv, Transition, WithEvent
    <3> QED BY <3>1
  <2>4. CASE \E reason \in {"verification_failure", "blocking_finding"} : Retry(t, reason)
    <3>1. held[t] # NoJob /\ \A r \in Sessions \ {t} : held'[r] = held[r]
      BY <2>4 DEF FileInv, Retry, WithEvent
    <3> QED BY <3>1
  <2>5. CASE BeginSave(t) \/ EndSave(t) \/ CreateWorkspace(t)
    BY <2>5 DEF BeginSave, EndSave, CreateWorkspace
  <2>6. CASE Exit(t)
    BY <2>6 DEF FileInv, Exit
  <2> QED BY <2>1, <2>2, <2>3, <2>4, <2>5, <2>6
<1> QED BY <1>1, FileInvariant, PTL DEF JobSpec, LoadedWasSaved

------------------------------------------------------------------------------
(* A pattern against a segment (fnmatchcase, as scope.py uses it).         *)

\* One line of the table that Glob fills in, from the line after it.
GlobLine(c, j, next) ==
  IF j > Len(c[2]) THEN {Len(c[1]) + 1}
  ELSE IF c[2][j] = "*"
  THEN {i \in 1..(Len(c[1]) + 1) : \E k \in next : i <= k}
  ELSE {i \in 1..Len(c[1]) : c[1][i] = c[2][j] /\ i + 1 \in next}

Globs == INSTANCE RecursionTheorems WITH Value <- GlobLine

\* The table.
GlobTable(s, p) == CHOOSE m : Globs!Leads(m, <<s, p>>, Len(p))

\* What Glob computes is the first line of the table.
LEMMA GlobIsTable == ASSUME NEW s, NEW p PROVE Glob(s, p) <=> 1 \in GlobTable(s, p)[1]
<1>1. <<s, p>>[1] = s /\ <<s, p>>[2] = p
  OBVIOUS
<1> QED BY <1>1, Zenon DEF Glob, GlobTable, GlobLine, Globs!Leads

\* So Glob's table has its lines.
LEMMA GlobTableLines ==
  ASSUME NEW C, NEW s \in Seq(C), NEW p \in Seq(C)
  PROVE  \A j \in 1..(Len(p) + 1) :
           GlobTable(s, p)[j] = GlobLine(<<s, p>>, j, GlobTable(s, p)[j + 1])
<1>1. \A v, w : GlobLine(<<s, p>>, Len(p) + 1, v) = GlobLine(<<s, p>>, Len(p) + 1, w)
  BY DEF GlobLine
<1>2. \E m : Globs!Leads(m, <<s, p>>, Len(p))
  <2>1. Len(p) \in Nat
    OBVIOUS
  <2> QED BY <1>1, <2>1, Globs!Descent, Zenon
<1>3. Globs!Leads(GlobTable(s, p), <<s, p>>, Len(p))
  BY <1>2, Zenon DEF GlobTable
<1> QED BY <1>3 DEF Globs!Leads

\* A place from which the pattern matches is a place of the segment, or its end.
LEMMA GlobPlaces ==
  ASSUME NEW C, NEW s \in Seq(C), NEW p \in Seq(C), NEW j \in 1..(Len(p) + 1)
  PROVE  GlobTable(s, p)[j] \subseteq 1..(Len(s) + 1)
<1>1. GlobTable(s, p)[j] = GlobLine(<<s, p>>, j, GlobTable(s, p)[j + 1])
  BY GlobTableLines
<1> QED BY <1>1 DEF GlobLine

\* What each line says of the next one.
LEMMA GlobNext ==
  ASSUME NEW C, NEW s \in Seq(C), NEW p \in Seq(C), NEW j \in 1..Len(p),
         NEW i \in GlobTable(s, p)[j]
  PROVE  /\ p[j] = "*" => \E k \in GlobTable(s, p)[j + 1] : i <= k
         /\ p[j] # "*" => i \in 1..Len(s) /\ s[i] = p[j] /\ i + 1 \in GlobTable(s, p)[j + 1]
<1>0. j \in 1..(Len(p) + 1)
  OBVIOUS
<1>1. GlobTable(s, p)[j] = GlobLine(<<s, p>>, j, GlobTable(s, p)[j + 1])
  BY <1>0, GlobTableLines
<1>2. ~(j > Len(p))
  OBVIOUS
<1> QED BY <1>1, <1>2 DEF GlobLine

\* At the end of the pattern only the end of the segment is left.
LEMMA GlobEnd ==
  ASSUME NEW C, NEW s \in Seq(C), NEW p \in Seq(C)
  PROVE  GlobTable(s, p)[Len(p) + 1] = {Len(s) + 1}
<1>1. GlobTable(s, p)[Len(p) + 1] =
        GlobLine(<<s, p>>, Len(p) + 1, GlobTable(s, p)[(Len(p) + 1) + 1])
  BY GlobTableLines
<1> QED BY <1>1 DEF GlobLine

\* There is no star in a pattern from j on.
Plain(p, j) == \A k \in j..Len(p) : p[k] # "*"

\* The segment from i on is the pattern from j on.
SameRest(s, p, i, j) ==
  /\ i \in 1..(Len(s) + 1) /\ Len(s) - i = Len(p) - j
  /\ \A x \in 0..(Len(p) - j) : s[i + x] = p[j + x]

\* After its last star a pattern matches only its own characters.
LEMMA GlobTail ==
  ASSUME NEW C, NEW s \in Seq(C), NEW p \in Seq(C),
         NEW j \in 1..(Len(p) + 1), Plain(p, j), NEW i \in GlobTable(s, p)[j]
  PROVE  SameRest(s, p, i, j)
<1> DEFINE N == Len(p)
           Good(h, t) == /\ t \in 1..(Len(s) + 1) /\ Len(s) - t = N - h
                         /\ \A x \in 0..(N - h) : s[t + x] = p[h + x]
           S == {d \in 0..N : N + 1 - d >= j => \A t \in GlobTable(s, p)[N + 1 - d] : Good(N + 1 - d, t)}
<1>0. N \in Nat /\ Len(s) \in Nat
  OBVIOUS
<1>1. 0 \in S
  <2>1. N + 1 - 0 = Len(p) + 1
    BY <1>0
  <2>2. ASSUME NEW t \in GlobTable(s, p)[N + 1 - 0] PROVE Good(N + 1 - 0, t)
    <3>1. t = Len(s) + 1
      BY <2>1, GlobEnd
    <3> QED BY <1>0, <3>1
  <2> QED BY <1>0, <2>2
<1>2. ASSUME NEW d \in 0..N, d < N, d \in S PROVE d + 1 \in S
  <2> DEFINE h == N - d
  <2>1. h \in 1..N /\ h + 1 = N + 1 - d /\ h = N + 1 - (d + 1)
    BY <1>0, <1>2
  <2>2. ASSUME h >= j, NEW t \in GlobTable(s, p)[h] PROVE Good(h, t)
    <3>1. p[h] # "*"
      BY <2>1, <2>2 DEF Plain
    <3>2. t \in 1..Len(s) /\ s[t] = p[h] /\ t + 1 \in GlobTable(s, p)[h + 1]
      BY <2>1, <2>2, <3>1, GlobNext
    <3>3. Good(h + 1, t + 1)
      <4> HIDE DEF Good, h
      <4>1. N + 1 - d >= j
        BY <2>1, <2>2, <1>0
      <4>2. \A u \in GlobTable(s, p)[N + 1 - d] : Good(N + 1 - d, u)
        BY <1>2, <4>1
      <4> QED BY <2>1, <3>2, <4>2
    <3>4. ASSUME NEW x \in 0..(N - h) PROVE s[t + x] = p[h + x]
      <4>1. CASE x = 0
        BY <4>1, <3>2, <2>1
      <4>2. CASE x # 0
        <5>1. x - 1 \in 0..(N - (h + 1)) /\ (t + 1) + (x - 1) = t + x /\ (h + 1) + (x - 1) = h + x
          BY <4>2, <2>1, <3>2, <1>0
        <5>2. s[(t + 1) + (x - 1)] = p[(h + 1) + (x - 1)]
          BY <3>3, <5>1
        <5> QED BY <5>1, <5>2
      <4> QED BY <4>1, <4>2
    <3> QED BY <1>0, <2>1, <3>2, <3>3, <3>4
  <2> HIDE DEF Good
  <2> QED BY <1>0, <1>2, <2>1, <2>2
<1>3. \A d \in 0..N : d \in S
  <2> HIDE DEF S
  <2> QED BY <1>0, <1>1, <1>2, Globs!Induction
<1>4. N + 1 - j \in 0..N /\ N + 1 - (N + 1 - j) = j
  BY <1>0
<1>5. N + 1 - j \in S
  BY <1>3, <1>4
<1>6. \A t \in GlobTable(s, p)[j] : Good(j, t)
  <2> HIDE DEF Good
  <2> QED BY <1>4, <1>5, <1>0
<1> QED BY <1>6 DEF SameRest

\* A pattern without a star matches itself only.
LEMMA GlobLiteral ==
  ASSUME NEW C, NEW s \in Seq(C), NEW p \in Seq(C), Glob(s, p), Stars(p) = {}
  PROVE  s = p
<1>1. 1 \in GlobTable(s, p)[1]
  BY GlobIsTable
<1>2. Plain(p, 1) /\ 1 \in 1..(Len(p) + 1)
  BY DEF Stars, Plain
<1>3. SameRest(s, p, 1, 1)
  BY <1>1, <1>2, GlobTail
<1>4. Len(s) - 1 = Len(p) - 1 /\ \A x \in 0..(Len(p) - 1) : s[1 + x] = p[1 + x]
  BY <1>3 DEF SameRest
<1>5. Len(s) = Len(p)
  BY <1>4
<1>6. ASSUME NEW k \in 1..Len(p) PROVE s[k] = p[k]
  <2>1. k - 1 \in 0..(Len(p) - 1) /\ 1 + (k - 1) = k
    OBVIOUS
  <2> QED BY <1>4, <2>1
<1> QED BY <1>5, <1>6, SeqEqual

\* Before its first star a pattern matches only its own characters.
LEMMA GlobHead ==
  ASSUME NEW C, NEW s \in Seq(C), NEW p \in Seq(C), Glob(s, p),
         NEW n \in 0..Len(p), \A k \in 1..n : p[k] # "*"
  PROVE  n <= Len(s) /\ \A k \in 1..n : s[k] = p[k]
<1> DEFINE S == {m \in 0..n : m + 1 \in GlobTable(s, p)[m + 1] /\ m <= Len(s) /\ \A k \in 1..m : s[k] = p[k]}
<1>0. n \in Nat /\ Len(p) \in Nat /\ Len(s) \in Nat
  OBVIOUS
<1>1. 0 \in S
  BY <1>0, GlobIsTable
<1>2. ASSUME NEW m \in 0..n, m < n, m \in S PROVE m + 1 \in S
  <2>1. m + 1 \in 1..Len(p) /\ m + 1 \in 1..n /\ m + 1 \in 0..n
    BY <1>0, <1>2
  <2>2. p[m + 1] # "*"
    BY <2>1
  <2>3. m + 1 \in 1..Len(s) /\ s[m + 1] = p[m + 1] /\ (m + 1) + 1 \in GlobTable(s, p)[(m + 1) + 1]
    BY <1>2, <2>1, <2>2, GlobNext
  <2>4. \A k \in 1..(m + 1) : k = m + 1 \/ k \in 1..m
    BY <1>0
  <2> QED BY <1>2, <2>1, <2>3, <2>4
<1>3. \A m \in 0..n : m \in S
  <2> HIDE DEF S
  <2> QED BY <1>0, <1>1, <1>2, Globs!Induction
<1>4. n \in S
  BY <1>3, <1>0
<1> QED BY <1>4

\* A match goes through every place of the pattern.
LEMMA GlobReaches ==
  ASSUME NEW C, NEW s \in Seq(C), NEW p \in Seq(C), Glob(s, p), NEW n \in 0..Len(p)
  PROVE  GlobTable(s, p)[n + 1] # {}
<1> DEFINE S == {m \in 0..n : GlobTable(s, p)[m + 1] # {}}
<1>0. n \in Nat /\ Len(p) \in Nat
  OBVIOUS
<1>1. 0 \in S
  BY <1>0, GlobIsTable
<1>2. ASSUME NEW m \in 0..n, m < n, m \in S PROVE m + 1 \in S
  <2>1. m + 1 \in 1..Len(p) /\ m + 1 \in 0..n
    BY <1>0, <1>2
  <2>2. PICK i : i \in GlobTable(s, p)[m + 1]
    BY <1>2
  <2>3. GlobTable(s, p)[(m + 1) + 1] # {}
    BY <2>1, <2>2, GlobNext
  <2> QED BY <2>1, <2>3
<1>3. \A m \in 0..n : m \in S
  <2> HIDE DEF S
  <2> QED BY <1>0, <1>1, <1>2, Globs!Induction
<1> QED BY <1>3, <1>0

\* Where the first and the last star of a pattern are.
LEMMA StarsOfPattern ==
  ASSUME NEW C, NEW p \in Seq(C), Stars(p) # {}
  PROVE  /\ FirstStar(p) \in 1..Len(p) /\ \A k \in 1..(FirstStar(p) - 1) : p[k] # "*"
         /\ LastStar(p) \in 1..Len(p) /\ Plain(p, LastStar(p) + 1)
<1>0. Len(p) \in Nat /\ Stars(p) \subseteq 1..Len(p) /\ \A k \in 1..Len(p) : k \in Stars(p) <=> p[k] = "*"
  BY DEF Stars
<1>1. \E k \in Stars(p) : \A j \in Stars(p) : k <= j
  BY <1>0, Globs!LeastNumber
<1>2. FirstStar(p) \in Stars(p) /\ \A j \in Stars(p) : FirstStar(p) <= j
  BY <1>1, Zenon DEF FirstStar
<1>3. \E k \in Stars(p) : \A j \in Stars(p) : j <= k
  <2> DEFINE R == {Len(p) - k : k \in Stars(p)}
  <2>1. R \subseteq Nat /\ R # {}
    BY <1>0
  <2>2. PICK r \in R : \A q \in R : r <= q
    BY <2>1, Globs!LeastNumber
  <2>3. PICK k \in Stars(p) : r = Len(p) - k
    OBVIOUS
  <2>4. ASSUME NEW j \in Stars(p) PROVE j <= k
    <3>1. Len(p) - j \in R
      OBVIOUS
    <3>2. Len(p) - k <= Len(p) - j
      BY <2>2, <2>3, <3>1
    <3> QED BY <1>0, <3>2
  <2> QED BY <2>4
<1>4. LastStar(p) \in Stars(p) /\ \A j \in Stars(p) : j <= LastStar(p)
  BY <1>3, Zenon DEF LastStar
<1>5. \A k \in 1..(FirstStar(p) - 1) : k \in 1..Len(p) /\ k \notin Stars(p)
  BY <1>0, <1>2
<1>6. \A k \in (LastStar(p) + 1)..Len(p) : k \in 1..Len(p) /\ k \notin Stars(p)
  BY <1>0, <1>4
<1> QED BY <1>0, <1>2, <1>4, <1>5, <1>6 DEF Plain

\* What a pattern has before its first star, and after its last one.
Before(p) == SubSeq(p, 1, FirstStar(p) - 1)
After(p) == SubSeq(p, LastStar(p) + 1, Len(p))

\* A sequence that another one begins with, and one that it ends with.
Begins(s, a) == \A k \in 1..Len(a) : a[k] = s[k]
Ends(s, z) == \A k \in 1..Len(z) : z[k] = s[Len(s) - Len(z) + k]

\* Of two beginnings of one sequence, one begins with the other.
LEMMA Beginnings ==
  ASSUME NEW C, NEW s \in Seq(C), NEW a \in Seq(C), NEW b \in Seq(C), Len(a) <= Len(b),
         Begins(s, a), Begins(s, b)
  PROVE  StartsWith(b, a)
<1>1. SubSeq(b, 1, Len(a)) \in Seq(C) /\ Len(SubSeq(b, 1, Len(a))) = Len(a)
  OBVIOUS
<1>2. \A k \in 1..Len(a) : SubSeq(b, 1, Len(a))[k] = a[k]
  BY DEF Begins
<1>3. SubSeq(b, 1, Len(a)) = a
  BY <1>1, <1>2, SeqEqual
<1> QED BY <1>3 DEF StartsWith

\* And of two ends, one ends with the other.
LEMMA Endings ==
  ASSUME NEW C, NEW s \in Seq(C), NEW a \in Seq(C), NEW b \in Seq(C), Len(a) <= Len(b),
         Ends(s, a), Ends(s, b)
  PROVE  EndsWith(b, a)
<1> DEFINE c == SubSeq(b, Len(b) - Len(a) + 1, Len(b))
<1>0. Len(a) \in Nat /\ Len(b) \in Nat /\ Len(s) \in Nat
  OBVIOUS
<1>1. c \in Seq(C) /\ Len(c) = Len(a)
  BY <1>0
<1>2. ASSUME NEW k \in 1..Len(a) PROVE c[k] = a[k]
  <2>1. c[k] = b[Len(b) - Len(a) + k]
    BY <1>0
  <2>2. Len(b) - Len(a) + k \in 1..Len(b)
    BY <1>0
  <2>3. b[Len(b) - Len(a) + k] = s[Len(s) - Len(b) + (Len(b) - Len(a) + k)]
    BY <2>2 DEF Ends
  <2>4. Len(s) - Len(b) + (Len(b) - Len(a) + k) = Len(s) - Len(a) + k
    BY <1>0
  <2> QED BY <2>1, <2>3, <2>4 DEF Ends
<1> HIDE DEF c
<1>3. c = a
  BY <1>1, <1>2, SeqEqual
<1> QED BY <1>3 DEF EndsWith, c

\* A segment begins and ends like a pattern that matches it.
LEMMA GlobEnds ==
  ASSUME NEW C, NEW s \in Seq(C), NEW p \in Seq(C), Glob(s, p), Stars(p) # {}
  PROVE  /\ Before(p) \in Seq(C) /\ Begins(s, Before(p))
         /\ After(p) \in Seq(C) /\ Ends(s, After(p))
<1> DEFINE a == Before(p)
           z == After(p)
<1>0. Len(p) \in Nat /\ Len(s) \in Nat
  OBVIOUS
<1>1. PICK f : f = FirstStar(p) - 1
  OBVIOUS
<1>2. PICK l : l = LastStar(p)
  OBVIOUS
<1>3. f \in 0..Len(p) /\ \A k \in 1..f : p[k] # "*"
  BY <1>0, <1>1, StarsOfPattern
<1>4. l \in 1..Len(p) /\ Plain(p, l + 1)
  BY <1>2, StarsOfPattern
<1>5. a \in Seq(C) /\ Len(a) = f /\ \A k \in 1..f : a[k] = p[k]
  BY <1>0, <1>1, <1>3 DEF Before
<1>6. f <= Len(s) /\ \A k \in 1..f : s[k] = p[k]
  BY <1>3, GlobHead
<1>7. z \in Seq(C) /\ Len(z) = Len(p) - l /\ \A k \in 1..(Len(p) - l) : z[k] = p[l + k]
  BY <1>0, <1>2, <1>4 DEF After
<1>8. PICK i : i \in GlobTable(s, p)[l + 1]
  BY <1>0, <1>4, GlobReaches
<1>9. l + 1 \in 1..(Len(p) + 1)
  BY <1>0, <1>4
<1>10. SameRest(s, p, i, l + 1)
  BY <1>4, <1>8, <1>9, GlobTail
<1>11. ASSUME NEW k \in 1..Len(z) PROVE z[k] = s[Len(s) - Len(z) + k]
  <2>1. i \in 1..(Len(s) + 1) /\ Len(s) - i = Len(p) - (l + 1)
    BY <1>10 DEF SameRest
  <2>2. k - 1 \in 0..(Len(p) - (l + 1))
    BY <1>0, <1>4, <1>7
  <2>3. s[i + (k - 1)] = p[(l + 1) + (k - 1)]
    BY <1>10, <2>2 DEF SameRest
  <2>4. k \in 1..(Len(p) - l)
    BY <1>7
  <2>5. /\ i \in Nat /\ l \in Nat /\ k \in Nat /\ Len(p) \in Nat /\ Len(s) \in Nat
        /\ Len(z) = Len(p) - l
    BY <1>0, <1>4, <1>7, <2>1, <2>4
  <2>6. i + (k - 1) = Len(s) - Len(z) + k /\ (l + 1) + (k - 1) = l + k
    <3> HIDE DEF z
    <3> QED BY ONLY <2>1, <2>5
  <2> QED BY <1>7, <2>3, <2>4, <2>6
<1> QED BY <1>5, <1>6, <1>7, <1>11 DEF Begins, Ends

\* Two patterns that match one segment overlap.
LEMMA SegmentsOverlap ==
  ASSUME NEW C, NEW s \in Seq(C), NEW f \in Seq(C), NEW g \in Seq(C), Glob(s, f), Glob(s, g)
  PROVE  SegmentOverlap(f, g)
<1>1. CASE Stars(f) = {}
  <2>1. s = f
    BY <1>1, GlobLiteral
  <2> QED BY <1>1, <2>1 DEF SegmentOverlap
<1>2. CASE Stars(f) # {} /\ Stars(g) = {}
  <2>1. s = g
    BY <1>2, GlobLiteral
  <2> QED BY <1>2, <2>1 DEF SegmentOverlap
<1>3. CASE Stars(f) # {} /\ Stars(g) # {}
  <2>1. /\ Before(f) \in Seq(C) /\ Begins(s, Before(f))
        /\ After(f) \in Seq(C) /\ Ends(s, After(f))
    BY <1>3, GlobEnds
  <2>2. /\ Before(g) \in Seq(C) /\ Begins(s, Before(g))
        /\ After(g) \in Seq(C) /\ Ends(s, After(g))
    BY <1>3, GlobEnds
  <2>3. StartsWith(Before(f), Before(g)) \/ StartsWith(Before(g), Before(f))
    <3>1. Len(Before(f)) <= Len(Before(g)) \/ Len(Before(g)) <= Len(Before(f))
      BY <2>1, <2>2
    <3> QED BY <2>1, <2>2, <3>1, Beginnings
  <2>4. EndsWith(After(f), After(g)) \/ EndsWith(After(g), After(f))
    <3>1. Len(After(f)) <= Len(After(g)) \/ Len(After(g)) <= Len(After(f))
      BY <2>1, <2>2
    <3> QED BY <2>1, <2>2, <3>1, Endings
  <2> QED BY <1>3, <2>3, <2>4 DEF SegmentOverlap, Before, After
<1> QED BY <1>1, <1>2, <1>3

------------------------------------------------------------------------------
(* Rules against paths.                                                    *)

\* One line of the table that _matches fills in, from the line after it.
MatchLine(c, r, next) ==
  IF r > Len(c[1]) THEN {Len(c[2]) + 1}
  ELSE IF c[1][r] = AnySegments
  THEN {p \in 1..(Len(c[2]) + 1) : \E q \in next : p <= q}
  ELSE {p \in 1..Len(c[2]) : Glob(c[2][p], c[1][r]) /\ p + 1 \in next}

Lines == INSTANCE RecursionTheorems WITH Value <- MatchLine

\* The table.
MatchTable(rule, path) == CHOOSE m : Lines!Leads(m, <<rule, path>>, Len(rule))

\* _matches reads its answer in the first line.
LEMMA MatchesIsTable ==
  ASSUME NEW rule, NEW path PROVE Matches(rule, path) <=> 1 \in MatchTable(rule, path)[1]
<1>1. <<rule, path>>[1] = rule /\ <<rule, path>>[2] = path
  OBVIOUS
<1> QED BY <1>1, Zenon DEF Matches, MatchTable, MatchLine, Lines!Leads

\* The table has these lines.
LEMMA MatchTableLines ==
  ASSUME NEW C, NEW rule \in Seq(C), NEW path \in Seq(C)
  PROVE  \A r \in 1..(Len(rule) + 1) :
           MatchTable(rule, path)[r] = MatchLine(<<rule, path>>, r, MatchTable(rule, path)[r + 1])
<1>1. \A v, w : MatchLine(<<rule, path>>, Len(rule) + 1, v) = MatchLine(<<rule, path>>, Len(rule) + 1, w)
  BY DEF MatchLine
<1>2. \E m : Lines!Leads(m, <<rule, path>>, Len(rule))
  <2>1. Len(rule) \in Nat
    OBVIOUS
  <2> QED BY <1>1, <2>1, Lines!Descent, Zenon
<1>3. Lines!Leads(MatchTable(rule, path), <<rule, path>>, Len(rule))
  BY <1>2, Zenon DEF MatchTable
<1> QED BY <1>3 DEF Lines!Leads

\* At the end of the rule only the end of the path is left.
LEMMA MatchEnd ==
  ASSUME NEW C, NEW rule \in Seq(C), NEW path \in Seq(C)
  PROVE  MatchTable(rule, path)[Len(rule) + 1] = {Len(path) + 1}
<1>1. MatchTable(rule, path)[Len(rule) + 1] =
        MatchLine(<<rule, path>>, Len(rule) + 1, MatchTable(rule, path)[(Len(rule) + 1) + 1])
  BY MatchTableLines
<1> QED BY <1>1 DEF MatchLine

\* A place in a line, by the places in the next one.
LEMMA MatchNext ==
  ASSUME NEW C, NEW rule \in Seq(C), NEW path \in Seq(C), NEW r \in 1..Len(rule), NEW p
  PROVE  p \in MatchTable(rule, path)[r] <=>
           IF rule[r] = AnySegments
           THEN p \in 1..(Len(path) + 1) /\ \E q \in MatchTable(rule, path)[r + 1] : p <= q
           ELSE p \in 1..Len(path) /\ Glob(path[p], rule[r]) /\ p + 1 \in MatchTable(rule, path)[r + 1]
<1>1. MatchTable(rule, path)[r] = MatchLine(<<rule, path>>, r, MatchTable(rule, path)[r + 1])
  BY MatchTableLines
<1>2. ~(r > Len(rule))
  OBVIOUS
<1> QED BY <1>1, <1>2 DEF MatchLine

\* A place from which the rule matches is one of the path, or its end.
LEMMA MatchPlaces ==
  ASSUME NEW C, NEW rule \in Seq(C), NEW path \in Seq(C), NEW r \in 1..(Len(rule) + 1)
  PROVE  MatchTable(rule, path)[r] \subseteq 1..(Len(path) + 1)
<1>1. MatchTable(rule, path)[r] = MatchLine(<<rule, path>>, r, MatchTable(rule, path)[r + 1])
  BY MatchTableLines
<1> QED BY <1>1 DEF MatchLine

\* Where the path is at its end, the rest of the rule asks for nothing.
LEMMA MatchAtEnd ==
  ASSUME NEW C, NEW rule \in Seq(C), NEW path \in Seq(C), NEW r \in 1..(Len(rule) + 1),
         Len(path) + 1 \in MatchTable(rule, path)[r], NEW k \in r..Len(rule)
  PROVE  rule[k] = AnySegments
<1> DEFINE n == k - r
           E == Len(path) + 1
           S == {d \in 0..n : E \in MatchTable(rule, path)[r + d]}
<1>0. Len(rule) \in Nat /\ Len(path) \in Nat /\ n \in Nat /\ r \in Nat /\ r + n = k
  OBVIOUS
<1>1. 0 \in S
  BY <1>0
<1>2. ASSUME NEW d \in 0..n, r + d \in 1..Len(rule), d \in S
      PROVE  rule[r + d] = AnySegments /\ E \in MatchTable(rule, path)[(r + d) + 1]
  <2>1. rule[r + d] = AnySegments
    BY <1>0, <1>2, MatchNext
  <2>2. PICK q \in MatchTable(rule, path)[(r + d) + 1] : E <= q
    BY <1>2, <2>1, MatchNext
  <2>3. (r + d) + 1 \in 1..(Len(rule) + 1)
    BY <1>0, <1>2
  <2>4. q \in 1..E
    BY <2>2, <2>3, MatchPlaces
  <2>5. q = E
    BY <1>0, <2>2, <2>4
  <2> QED BY <2>1, <2>2, <2>5
<1>3. ASSUME NEW d \in 0..n, d < n, d \in S PROVE d + 1 \in S
  <2>1. r + d \in 1..Len(rule) /\ (r + d) + 1 = r + (d + 1) /\ d + 1 \in 0..n
    BY <1>0, <1>3
  <2>2. E \in MatchTable(rule, path)[(r + d) + 1]
    BY <1>2, <1>3, <2>1
  <2> QED BY <2>1, <2>2
<1>4. \A d \in 0..n : d \in S
  <2> HIDE DEF S, n
  <2> QED BY <1>0, <1>1, <1>3, Lines!Induction
<1>5. n \in 0..n /\ n \in S /\ r + n \in 1..Len(rule)
  <2>1. n \in 0..n
    BY ONLY <1>0
  <2>2. r + n \in 1..Len(rule)
    BY <1>0
  <2> HIDE DEF S, n
  <2> QED BY <1>4, <2>1, <2>2
<1>6. rule[r + n] = AnySegments
  BY <1>2, <1>5
<1> QED BY <1>0, <1>6

\* A rule without a pattern matches itself only.
LEMMA MatchLiteral ==
  ASSUME NEW C, NEW rule \in Seq(Seq(C)), NEW path \in Seq(Seq(C)),
         ~HasPattern(rule), Matches(rule, path)
  PROVE  path = rule
<1> DEFINE N == Len(rule)
           S == {m \in 0..N : m + 1 \in MatchTable(rule, path)[m + 1] /\ \A k \in 1..m : path[k] = rule[k]}
<1>0. N \in Nat /\ Len(path) \in Nat
  OBVIOUS
<1>1. 0 \in S
  BY <1>0, MatchesIsTable
<1>2. ASSUME NEW m \in 0..N, m < N, m \in S PROVE m + 1 \in S
  <2>1. m + 1 \in 1..Len(rule) /\ m + 1 \in 0..N
    BY <1>0, <1>2
  <2>2. rule[m + 1] \in Seq(C)
    BY <2>1
  <2>3. rule[m + 1] # AnySegments /\ Stars(rule[m + 1]) = {}
    <3>1. \A k \in DOMAIN rule[m + 1] : rule[m + 1][k] \notin {"*", "**"}
      BY <2>1 DEF HasPattern
    <3> QED BY <3>1 DEF AnySegments, Stars
  <2>4. m + 1 \in 1..Len(path) /\ Glob(path[m + 1], rule[m + 1]) /\ (m + 1) + 1 \in MatchTable(rule, path)[(m + 1) + 1]
    BY <1>2, <2>1, <2>3, MatchNext
  <2>5. path[m + 1] \in Seq(C)
    BY <2>4
  <2>6. path[m + 1] = rule[m + 1]
    BY <2>2, <2>3, <2>4, <2>5, GlobLiteral
  <2>7. \A k \in 1..(m + 1) : k = m + 1 \/ k \in 1..m
    BY <1>0
  <2> QED BY <1>2, <2>1, <2>4, <2>6, <2>7
<1>3. \A m \in 0..N : m \in S
  <2> HIDE DEF S
  <2> QED BY <1>0, <1>1, <1>2, Lines!Induction
<1>4. N \in S
  <2>1. N \in 0..N
    BY ONLY <1>0
  <2> HIDE DEF S, N
  <2> QED BY <1>3, <2>1
<1>5. N + 1 = Len(path) + 1
  BY <1>4, MatchEnd
<1>6. Len(path) = Len(rule)
  BY <1>0, <1>5
<1> QED BY <1>4, <1>6, SeqEqual

------------------------------------------------------------------------------
(* Two patterns against each other.                                        *)

\* The pairs of places in two patterns, their ends included.
Places(first, second) == (1..(Len(first) + 1)) \X (1..(Len(second) + 1))

\* What paths_overlap answers for two places, from the answers in m.
OverStep(first, second, m, at) ==
  LET i == at[1]
      j == at[2]
      inside == i <= Len(first) /\ j <= Len(second)
  IN  \/ i > Len(first) /\ \A k \in j..Len(second) : second[k] = AnySegments
      \/ i <= Len(first) /\ j > Len(second) /\ \A k \in i..Len(first) : first[k] = AnySegments
      \/ /\ inside /\ AnySegments \in {first[i], second[j]}
         /\ m[<<i + 1, j>>] \/ m[<<i, j + 1>>]
      \/ /\ inside /\ AnySegments \notin {first[i], second[j]}
         /\ SegmentOverlap(first[i], second[j]) /\ m[<<i + 1, j + 1>>]

\* The table of its answers.
IsOver(first, second, m) == m = [at \in Places(first, second) |-> OverStep(first, second, m, at)]
OverTable(first, second) == CHOOSE m : IsOver(first, second, m)

\* paths_overlap reads its answer at the two beginnings.
LEMMA OverlapIsTable ==
  ASSUME NEW first, NEW second PROVE PathsOverlap(first, second) <=> OverTable(first, second)[<<1, 1>>]
BY Zenon DEF PathsOverlap, OverTable, IsOver, OverStep, Places

\* An answer needs only the answers behind it.
LEMMA OverStepLooksBehind ==
  ASSUME NEW C, NEW first \in Seq(C), NEW second \in Seq(C), NEW m, NEW w,
         NEW i \in 1..(Len(first) + 1), NEW j \in 1..(Len(second) + 1),
         i <= Len(first) /\ j <= Len(second) =>
           /\ m[<<i + 1, j>>] = w[<<i + 1, j>>] /\ m[<<i, j + 1>>] = w[<<i, j + 1>>]
           /\ m[<<i + 1, j + 1>>] = w[<<i + 1, j + 1>>]
  PROVE  OverStep(first, second, m, <<i, j>>) = OverStep(first, second, w, <<i, j>>)
<1>0. Len(first) \in Nat /\ Len(second) \in Nat /\ <<i, j>>[1] = i /\ <<i, j>>[2] = j
  OBVIOUS
<1>1. CASE i > Len(first)
  BY <1>0, <1>1 DEF OverStep
<1>2. CASE i <= Len(first) /\ j > Len(second)
  BY <1>0, <1>2 DEF OverStep
<1>3. CASE i <= Len(first) /\ j <= Len(second)
  BY <1>0, <1>3 DEF OverStep
<1> QED BY <1>0, <1>1, <1>2, <1>3

\* The table exists: it is filled in from the two ends on.
LEMMA OverTableLines ==
  ASSUME NEW C, NEW first \in Seq(C), NEW second \in Seq(C)
  PROVE  \A i \in 1..(Len(first) + 1), j \in 1..(Len(second) + 1) :
           OverTable(first, second)[<<i, j>>] = OverStep(first, second, OverTable(first, second), <<i, j>>)
<1> DEFINE N == Len(first)
           M == Len(second)
           Z == N + M
           D == Places(first, second)
           I == 1..(N + 1)
           J == 1..(M + 1)
           Filled(m, d) == \A i \in I, j \in J :
               i + j >= Z + 2 - d => m[<<i, j>>] = OverStep(first, second, m, <<i, j>>)
           S == {d \in 0..Z : \E m : Filled(m, d)}
<1>0. N \in Nat /\ M \in Nat /\ Z \in Nat
  OBVIOUS
<1>1. 0 \in S
  <2> DEFINE m == [at \in D |-> OverStep(first, second, 0, at)]
  <2>1. ASSUME NEW i \in I, NEW j \in J, i + j >= Z + 2 - 0
        PROVE  m[<<i, j>>] = OverStep(first, second, m, <<i, j>>)
    <3>1. <<i, j>> \in D
      BY DEF Places
    <3>2. m[<<i, j>>] = OverStep(first, second, 0, <<i, j>>)
      BY <3>1
    <3>3. ~(i <= N /\ j <= M)
      BY <1>0, <2>1
    <3> HIDE DEF m
    <3>4. OverStep(first, second, 0, <<i, j>>) = OverStep(first, second, m, <<i, j>>)
      BY <3>3, OverStepLooksBehind
    <3> QED BY <3>2, <3>4
  <2> HIDE DEF m, I, J, N, M, D
  <2>2. Filled(m, 0)
    BY <2>1
  <2> HIDE DEF Filled, Z
  <2> QED BY <2>2, <1>0
<1>2. ASSUME NEW d \in 0..Z, d < Z, d \in S PROVE d + 1 \in S
  <2>1. PICK m : Filled(m, d)
    BY <1>2
  <2> DEFINE w == [at \in D |-> IF at[1] + at[2] = Z + 2 - (d + 1)
                                THEN OverStep(first, second, m, at) ELSE m[at]]
  <2>2. ASSUME NEW i \in I, NEW j \in J
        PROVE  w[<<i, j>>] = IF i + j = Z + 2 - (d + 1) THEN OverStep(first, second, m, <<i, j>>) ELSE m[<<i, j>>]
    BY DEF Places
  <2> HIDE DEF w
  <2>3. ASSUME NEW i \in I, NEW j \in J, i + j >= Z + 2 - (d + 1)
        PROVE  w[<<i, j>>] = OverStep(first, second, w, <<i, j>>)
    <3>1. ASSUME i <= N /\ j <= M
          PROVE  /\ m[<<i + 1, j>>] = w[<<i + 1, j>>] /\ m[<<i, j + 1>>] = w[<<i, j + 1>>]
                 /\ m[<<i + 1, j + 1>>] = w[<<i + 1, j + 1>>]
      <4>1. i + 1 \in I /\ j + 1 \in J /\ (i + 1) + j # Z + 2 - (d + 1) /\ i + (j + 1) # Z + 2 - (d + 1)
             /\ (i + 1) + (j + 1) # Z + 2 - (d + 1)
        BY <1>0, <2>3, <3>1
      <4> HIDE DEF I, J, Z
      <4> QED BY <4>1, <2>2
    <3>2. OverStep(first, second, m, <<i, j>>) = OverStep(first, second, w, <<i, j>>)
      BY <3>1, OverStepLooksBehind
    <3>3. CASE i + j = Z + 2 - (d + 1)
      BY <2>2, <3>2, <3>3
    <3>4. CASE i + j # Z + 2 - (d + 1)
      <4>1. i + j >= Z + 2 - d
        BY <1>0, <2>3, <3>4
      <4> HIDE DEF I, J, Z
      <4> QED BY <2>1, <2>2, <3>2, <3>4, <4>1
    <3> QED BY <3>3, <3>4
  <2>4. d + 1 \in 0..Z
    BY <1>0, <1>2
  <2> HIDE DEF I, J, N, M, D, Z
  <2>5. Filled(w, d + 1)
    BY <2>3
  <2> HIDE DEF Filled
  <2> QED BY <2>4, <2>5
<1>3. \A d \in 0..Z : d \in S
  <2> HIDE DEF S, Z
  <2> QED BY <1>0, <1>1, <1>2, Lines!Induction
<1>4. PICK m : Filled(m, Z)
  <2>1. Z \in 0..Z
    BY <1>0
  <2> HIDE DEF Filled, Z
  <2> QED BY <1>3, <2>1
<1> DEFINE t == [at \in D |-> m[at]]
<1>5. ASSUME NEW i \in I, NEW j \in J PROVE t[<<i, j>>] = m[<<i, j>>]
  BY DEF Places
<1>6. ASSUME NEW i \in I, NEW j \in J PROVE t[<<i, j>>] = OverStep(first, second, t, <<i, j>>)
  <2> HIDE DEF t
  <2>1. i + j >= Z + 2 - Z
    BY <1>0
  <2>2. m[<<i, j>>] = OverStep(first, second, m, <<i, j>>)
    BY <1>4, <2>1
  <2>3. i <= N /\ j <= M =>
           /\ m[<<i + 1, j>>] = t[<<i + 1, j>>] /\ m[<<i, j + 1>>] = t[<<i, j + 1>>]
           /\ m[<<i + 1, j + 1>>] = t[<<i + 1, j + 1>>]
    <3>1. i <= N /\ j <= M => i + 1 \in I /\ j + 1 \in J
      BY <1>0
    <3> HIDE DEF I, J
    <3> QED BY <3>1, <1>5
  <2>4. OverStep(first, second, m, <<i, j>>) = OverStep(first, second, t, <<i, j>>)
    BY <2>3, OverStepLooksBehind
  <2> QED BY <1>5, <2>2, <2>4
<1>7. IsOver(first, second, t)
  <2>1. ASSUME NEW at \in D PROVE t[at] = OverStep(first, second, t, at)
    <3>1. PICK i \in I, j \in J : at = <<i, j>>
      BY DEF Places
    <3> HIDE DEF t, I, J
    <3> QED BY <3>1, <1>6
  <2>2. t = [at \in D |-> t[at]]
    OBVIOUS
  <2> HIDE DEF t
  <2> QED BY <2>1, <2>2 DEF IsOver
<1>8. IsOver(first, second, OverTable(first, second))
  <2> HIDE DEF t
  <2> QED BY <1>7, Zenon DEF OverTable
<1>9. ASSUME NEW i \in I, NEW j \in J
      PROVE  OverTable(first, second)[<<i, j>>] = OverStep(first, second, OverTable(first, second), <<i, j>>)
  <2>1. <<i, j>> \in D
    BY DEF Places
  <2> HIDE DEF D
  <2> QED BY <1>8, <2>1 DEF IsOver, D
<1> QED BY <1>9

\* If both patterns match the path from p on, paths_overlap says so for i and j.
Agree(first, second, path, i, j, p) ==
  p \in MatchTable(first, path)[i] /\ p \in MatchTable(second, path)[j] =>
    OverTable(first, second)[<<i, j>>]

\* Agreement at two places follows from agreement behind them.
LEMMA AgreeStep ==
  ASSUME NEW C, NEW first \in Seq(Seq(C)), NEW second \in Seq(Seq(C)), NEW path \in Seq(Seq(C)),
         NEW i \in 1..(Len(first) + 1), NEW j \in 1..(Len(second) + 1), NEW p \in 1..(Len(path) + 1),
         i <= Len(first) => Agree(first, second, path, i + 1, j, p),
         j <= Len(second) => Agree(first, second, path, i, j + 1, p),
         p <= Len(path) => Agree(first, second, path, i, j, p + 1),
         i <= Len(first) /\ p <= Len(path) => Agree(first, second, path, i + 1, j, p + 1),
         j <= Len(second) /\ p <= Len(path) => Agree(first, second, path, i, j + 1, p + 1),
         i <= Len(first) /\ j <= Len(second) /\ p <= Len(path) => Agree(first, second, path, i + 1, j + 1, p + 1)
  PROVE  Agree(first, second, path, i, j, p)
<1> DEFINE N == Len(first)
           M == Len(second)
           L == Len(path)
           F == MatchTable(first, path)
           G == MatchTable(second, path)
           over == OverTable(first, second)
<1> SUFFICES ASSUME p \in F[i], p \in G[j] PROVE over[<<i, j>>]
  BY DEF Agree
<1>0. /\ N \in Nat /\ M \in Nat /\ L \in Nat /\ <<i, j>>[1] = i /\ <<i, j>>[2] = j
      /\ i \in 1..(N + 1) /\ j \in 1..(M + 1)
  OBVIOUS
<1>00. first \in Seq(Seq(C)) /\ second \in Seq(Seq(C)) /\ path \in Seq(Seq(C))
  OBVIOUS
<1>1. over[<<i, j>>] = OverStep(first, second, over, <<i, j>>)
  BY OverTableLines
<1>2. CASE i > N
  <2>1. i = N + 1
    BY <1>0, <1>2
  <2>2. p = L + 1
    BY <2>1, MatchEnd
  <2>3. \A k \in j..M : second[k] = AnySegments
    BY <2>2, MatchAtEnd
  <2> QED BY <1>0, <1>1, <1>2, <2>3 DEF OverStep
<1>3. CASE i <= N /\ j > M
  <2>1. j = M + 1
    BY ONLY <1>0, <1>3
  <2>2. p = L + 1
    BY <2>1, MatchEnd
  <2>3. \A k \in i..N : first[k] = AnySegments
    BY <2>2, MatchAtEnd
  <2> QED BY <1>0, <1>1, <1>3, <2>3 DEF OverStep
<1>4. CASE i <= N /\ j <= M
  <2>0. i \in 1..N /\ j \in 1..M
    BY <1>0, <1>4
  <2>1. ASSUME first[i] = AnySegments, p \notin F[i + 1] PROVE p <= L /\ p + 1 \in F[i]
    <3>1. PICK q \in F[i + 1] : p <= q
      BY <2>0, <2>1, MatchNext
    <3>2. i + 1 \in 1..(N + 1)
      BY <2>0, <1>0, SMTT(30)
    <3>3. q \in 1..(L + 1)
      BY <3>1, <3>2, MatchPlaces
    <3>4. p # q
      BY <2>1, <3>1
    <3>5. p + 1 <= q /\ p <= L /\ p + 1 \in 1..(L + 1)
      BY <3>1, <3>3, <3>4, <1>0
    <3> QED BY <2>0, <2>1, <3>1, <3>5, MatchNext
  <2>2. ASSUME second[j] = AnySegments, p \notin G[j + 1] PROVE p <= L /\ p + 1 \in G[j]
    <3>1. PICK q \in G[j + 1] : p <= q
      BY <2>0, <2>2, MatchNext
    <3>2. j + 1 \in 1..(M + 1)
      BY <2>0, <1>0, SMTT(30)
    <3>3. q \in 1..(L + 1)
      BY <3>1, <3>2, MatchPlaces
    <3>4. p # q
      BY <2>2, <3>1
    <3>5. p + 1 <= q /\ p <= L /\ p + 1 \in 1..(L + 1)
      BY <3>1, <3>3, <3>4, <1>0
    <3> QED BY <2>0, <2>2, <3>1, <3>5, MatchNext
  <2>3. first[i] # AnySegments => p \in 1..L /\ Glob(path[p], first[i]) /\ p + 1 \in F[i + 1]
    BY <2>0, MatchNext
  <2>4. second[j] # AnySegments => p \in 1..L /\ Glob(path[p], second[j]) /\ p + 1 \in G[j + 1]
    BY <2>0, MatchNext
  <2>5. p \in 1..L => p <= L
    BY <1>0
  <2>6. CASE AnySegments \in {first[i], second[j]}
    <3>1. over[<<i, j>>] \/ over[<<i + 1, j>>] \/ over[<<i, j + 1>>]
      BY <1>4, <2>1, <2>2, <2>3, <2>4, <2>5, <2>6 DEF Agree
    <3> QED BY <1>0, <1>1, <1>4, <2>6, <3>1 DEF OverStep
  <2>7. CASE AnySegments \notin {first[i], second[j]}
    <3>1. p \in 1..L /\ Glob(path[p], first[i]) /\ Glob(path[p], second[j])
      BY <2>3, <2>4, <2>7
    <3>2. over[<<i + 1, j + 1>>]
      BY <1>4, <2>3, <2>4, <2>5, <2>7 DEF Agree
    <3>3. path[p] \in Seq(C) /\ first[i] \in Seq(C) /\ second[j] \in Seq(C)
      <4>1. path[p] \in Seq(C)
        BY ONLY <1>00, <3>1, ElementOfSeq
      <4>2. first[i] \in Seq(C)
        BY ONLY <1>00, <2>0, ElementOfSeq
      <4>3. second[j] \in Seq(C)
        BY ONLY <1>00, <2>0, ElementOfSeq
      <4> QED BY <4>1, <4>2, <4>3
    <3>4. SegmentOverlap(first[i], second[j])
      BY <3>1, <3>3, SegmentsOverlap
    <3> QED BY <1>0, <1>1, <1>4, <2>7, <3>2, <3>4 DEF OverStep
  <2> QED BY <2>6, <2>7
<1> QED BY <1>0, <1>2, <1>3, <1>4

\* Two patterns that match one path overlap.
LEMMA PatternsMeet ==
  ASSUME NEW C, NEW first \in Seq(Seq(C)), NEW second \in Seq(Seq(C)), NEW path \in Seq(Seq(C)),
         Matches(first, path), Matches(second, path)
  PROVE  PathsOverlap(first, second)
<1> DEFINE N == Len(first)
           M == Len(second)
           L == Len(path)
           Z == N + M + L
           I == 1..(N + 1)
           J == 1..(M + 1)
           P == 1..(L + 1)
           A(i, j, p) == Agree(first, second, path, i, j, p)
           S == {d \in 0..Z : \A i \in I, j \in J, p \in P : i + j + p >= Z + 3 - d => A(i, j, p)}
<1>0. N \in Nat /\ M \in Nat /\ L \in Nat /\ Z \in Nat
  OBVIOUS
<1>1. ASSUME NEW e \in Nat, \A i \in I, j \in J, p \in P : i + j + p >= e + 1 => A(i, j, p)
      PROVE  \A i \in I, j \in J, p \in P : i + j + p >= e => A(i, j, p)
  <2> SUFFICES ASSUME NEW i \in I, NEW j \in J, NEW p \in P, i + j + p >= e PROVE A(i, j, p)
    OBVIOUS
  <2>1. i <= N => A(i + 1, j, p)
    <3>1. i <= N => i + 1 \in I /\ (i + 1) + j + p >= e + 1
      BY <1>0
    <3> HIDE DEF A, I, J, P
    <3> QED BY <1>1, <3>1
  <2>2. j <= M => A(i, j + 1, p)
    <3>1. j <= M => j + 1 \in J /\ i + (j + 1) + p >= e + 1
      BY <1>0
    <3> HIDE DEF A, I, J, P
    <3> QED BY <1>1, <3>1
  <2>3. p <= L => A(i, j, p + 1)
    <3>1. p <= L => p + 1 \in P /\ i + j + (p + 1) >= e + 1
      BY <1>0
    <3> HIDE DEF A, I, J, P
    <3> QED BY <1>1, <3>1
  <2>4. i <= N /\ p <= L => A(i + 1, j, p + 1)
    <3>1. i <= N /\ p <= L => i + 1 \in I /\ p + 1 \in P /\ (i + 1) + j + (p + 1) >= e + 1
      BY <1>0
    <3> HIDE DEF A, I, J, P
    <3> QED BY <1>1, <3>1
  <2>5. j <= M /\ p <= L => A(i, j + 1, p + 1)
    <3>1. j <= M /\ p <= L => j + 1 \in J /\ p + 1 \in P /\ i + (j + 1) + (p + 1) >= e + 1
      BY <1>0
    <3> HIDE DEF A, I, J, P
    <3> QED BY <1>1, <3>1
  <2>6. i <= N /\ j <= M /\ p <= L => A(i + 1, j + 1, p + 1)
    <3>1. i <= N /\ j <= M /\ p <= L =>
            i + 1 \in I /\ j + 1 \in J /\ p + 1 \in P /\ (i + 1) + (j + 1) + (p + 1) >= e + 1
      BY <1>0
    <3> HIDE DEF A, I, J, P
    <3> QED BY <1>1, <3>1
  <2> QED BY <2>1, <2>2, <2>3, <2>4, <2>5, <2>6, AgreeStep
<1>2. 0 \in S
  <2>1. \A i \in I, j \in J, p \in P : i + j + p >= (Z + 3) + 1 => A(i, j, p)
    BY <1>0
  <2>2. Z + 3 \in Nat /\ Z + 3 - 0 = Z + 3
    BY <1>0
  <2> HIDE DEF A, I, J, P, Z
  <2>3. \A i \in I, j \in J, p \in P : i + j + p >= Z + 3 => A(i, j, p)
    BY <1>1, <2>1, <2>2
  <2> QED BY <1>0, <2>2, <2>3
<1>3. ASSUME NEW d \in 0..Z, d < Z, d \in S PROVE d + 1 \in S
  <2>1. Z + 3 - (d + 1) \in Nat /\ (Z + 3 - (d + 1)) + 1 = Z + 3 - d /\ d + 1 \in 0..Z
    BY <1>0, <1>3
  <2> HIDE DEF A, I, J, P, Z
  <2>2. \A i \in I, j \in J, p \in P : i + j + p >= (Z + 3 - (d + 1)) + 1 => A(i, j, p)
    BY <1>3, <2>1
  <2>3. \A i \in I, j \in J, p \in P : i + j + p >= Z + 3 - (d + 1) => A(i, j, p)
    BY <1>1, <2>1, <2>2
  <2> QED BY <2>1, <2>3
<1>4. \A d \in 0..Z : d \in S
  <2> HIDE DEF S, Z
  <2> QED BY <1>0, <1>2, <1>3, Lines!Induction
<1>5. 1 \in I /\ 1 \in J /\ 1 \in P /\ 1 + 1 + 1 >= Z + 3 - Z /\ Z \in 0..Z
  BY <1>0
<1>6. A(1, 1, 1)
  <2> HIDE DEF A, I, J, P, Z
  <2> QED BY <1>4, <1>5
<1>7. 1 \in MatchTable(first, path)[1] /\ 1 \in MatchTable(second, path)[1]
  BY MatchesIsTable
<1> QED BY <1>6, <1>7, OverlapIsTable DEF Agree

------------------------------------------------------------------------------
(* Casefolding.                                                            *)

\* A folded segment, and the characters of one.
Folded(s) == [k \in DOMAIN s |-> Lower[s[k]]]
FoldedCharacters == {Lower[c] : c \in Characters}

\* A folded segment has the length and the stars of the segment.
LEMMA FoldedSegment ==
  ASSUME NEW s \in Seq(Characters)
  PROVE  /\ Folded(s) \in Seq(FoldedCharacters) /\ Len(Folded(s)) = Len(s)
         /\ \A k \in 1..Len(s) : Folded(s)[k] = Lower[s[k]] /\ (Folded(s)[k] = "*" <=> s[k] = "*")
         /\ Folded(s) = AnySegments <=> s = AnySegments
<1>0. Len(s) \in Nat /\ DOMAIN s = 1..Len(s)
  OBVIOUS
<1>1. ASSUME NEW k \in 1..Len(s)
      PROVE  Folded(s)[k] = Lower[s[k]] /\ s[k] \in Characters
  BY <1>0 DEF Folded
<1>2. Folded(s) \in Seq(FoldedCharacters) /\ Len(Folded(s)) = Len(s)
  BY <1>0, <1>1 DEF Folded, FoldedCharacters
<1>3. \A k \in 1..Len(s) : (Folded(s)[k] = "*" <=> s[k] = "*") /\ (Folded(s)[k] = "**" <=> s[k] = "**")
  BY <1>1, FoldAssumption
<1>4. \A C : \A t \in Seq(C) : t = AnySegments <=> Len(t) = 1 /\ t[1] = "**"
  BY DEF AnySegments
<1>5. Folded(s) = AnySegments <=> s = AnySegments
  BY <1>0, <1>2, <1>3, <1>4
<1> QED BY <1>1, <1>2, <1>3, <1>5

\* What matches still does when both are folded.
LEMMA GlobFolded ==
  ASSUME NEW s \in Seq(Characters), NEW p \in Seq(Characters), Glob(s, p)
  PROVE  Glob(Folded(s), Folded(p))
<1> DEFINE N == Len(p)
           fs == Folded(s)
           fp == Folded(p)
           T == GlobTable(s, p)
           U == GlobTable(fs, fp)
           S == {d \in 0..N : T[N + 1 - d] \subseteq U[N + 1 - d]}
<1>0. N \in Nat /\ Len(s) \in Nat
  OBVIOUS
<1>1. /\ fs \in Seq(FoldedCharacters) /\ Len(fs) = Len(s) /\ fp \in Seq(FoldedCharacters) /\ Len(fp) = Len(p)
      /\ \A k \in 1..Len(s) : fs[k] = Lower[s[k]]
      /\ \A k \in 1..Len(p) : fp[k] = Lower[p[k]] /\ (fp[k] = "*" <=> p[k] = "*")
  BY FoldedSegment
<1> HIDE DEF fs, fp
<1>2. 0 \in S
  <2>1. N + 1 - 0 = Len(p) + 1
    BY <1>0
  <2>2. T[Len(p) + 1] = {Len(s) + 1}
    BY GlobEnd
  <2>3. U[Len(fp) + 1] = {Len(fs) + 1}
    <3>1. fs \in Seq(FoldedCharacters) /\ fp \in Seq(FoldedCharacters)
      BY <1>1
    <3> QED BY ONLY <3>1, GlobEnd
  <2>4. T[N + 1 - 0] \subseteq U[N + 1 - 0]
    BY <1>1, <2>1, <2>2, <2>3
  <2> QED BY <1>0, <2>4
<1>3. ASSUME NEW d \in 0..N, d < N, d \in S PROVE d + 1 \in S
  <2> DEFINE h == N - d
  <2>1. h \in 1..N /\ h + 1 = N + 1 - d /\ h = N + 1 - (d + 1) /\ d + 1 \in 0..N
    <3> HIDE DEF N, S
    <3> QED BY ONLY <1>0, <1>3
  <2> HIDE DEF h
  <2>2. T[h + 1] \subseteq U[h + 1]
    BY <1>3, <2>1
  <2>3. ASSUME NEW i \in T[h] PROVE i \in U[h]
    <3>1. i \in 1..(Len(s) + 1)
      BY <2>1, <2>3, GlobPlaces
    <3>2. U[h] = GlobLine(<<fs, fp>>, h, U[h + 1])
      BY <1>1, <2>1, GlobTableLines
    <3>3. <<fs, fp>>[1] = fs /\ <<fs, fp>>[2] = fp /\ ~(h > Len(fp))
      BY <1>1, <2>1, <1>0
    <3>4. CASE p[h] = "*"
      <4>1. PICK k \in T[h + 1] : i <= k
        BY <2>1, <3>4, GlobNext
      <4> QED BY <1>1, <2>1, <2>2, <3>1, <3>2, <3>3, <3>4, <4>1 DEF GlobLine
    <3>5. CASE p[h] # "*"
      <4>1. i \in 1..Len(s) /\ s[i] = p[h] /\ i + 1 \in T[h + 1]
        BY <2>1, <3>5, GlobNext, SMTT(30)
      <4> QED BY <1>1, <2>1, <2>2, <3>2, <3>3, <3>5, <4>1 DEF GlobLine
    <3> QED BY <3>4, <3>5
  <2> QED BY <2>1, <2>3
<1>4. \A d \in 0..N : d \in S
  <2> HIDE DEF S, N
  <2> QED BY <1>0, <1>2, <1>3, Lines!Induction
<1>5. N \in 0..N /\ N + 1 - N = 1
  BY <1>0
<1>6. T[1] \subseteq U[1]
  BY <1>4, <1>5
<1> QED BY <1>6, GlobIsTable DEF fs, fp

\* A folded path has the length of the path, and its segments are folded.
LEMMA FoldedPath ==
  ASSUME NEW path \in Seq(Seq(Characters))
  PROVE  /\ Identity(path) \in Seq(Seq(FoldedCharacters)) /\ Len(Identity(path)) = Len(path)
         /\ \A i \in 1..Len(path) : Identity(path)[i] = Folded(path[i])
<1>0. Len(path) \in Nat /\ DOMAIN path = 1..Len(path)
  OBVIOUS
<1>1. Identity(path) = [i \in 1..Len(path) |-> Folded(path[i])]
  BY <1>0 DEF Identity, Folded
<1>2. \A i \in 1..Len(path) : Folded(path[i]) \in Seq(FoldedCharacters)
  BY FoldedSegment
<1> QED BY <1>0, <1>1, <1>2

\* A rule that matches a path matches every spelling of it, folded.
LEMMA MatchFolded ==
  ASSUME NEW rule \in Seq(Seq(Characters)), NEW path \in Seq(Seq(Characters)), Matches(rule, path)
  PROVE  Matches(Identity(rule), Identity(path))
<1> DEFINE N == Len(rule)
           fr == Identity(rule)
           fp == Identity(path)
           T == MatchTable(rule, path)
           U == MatchTable(fr, fp)
           S == {d \in 0..N : T[N + 1 - d] \subseteq U[N + 1 - d]}
<1>0. N \in Nat /\ Len(path) \in Nat
  OBVIOUS
<1>1. /\ fr \in Seq(Seq(FoldedCharacters)) /\ Len(fr) = Len(rule)
      /\ fp \in Seq(Seq(FoldedCharacters)) /\ Len(fp) = Len(path)
      /\ \A i \in 1..Len(rule) : fr[i] = Folded(rule[i])
      /\ \A i \in 1..Len(path) : fp[i] = Folded(path[i])
  BY FoldedPath
<1> HIDE DEF fr, fp
<1>2. 0 \in S
  <2>1. N + 1 - 0 = Len(rule) + 1
    BY <1>0
  <2>2. T[Len(rule) + 1] = {Len(path) + 1}
    BY MatchEnd
  <2>3. U[Len(fr) + 1] = {Len(fp) + 1}
    BY <1>1, MatchEnd
  <2>4. T[N + 1 - 0] \subseteq U[N + 1 - 0]
    BY <1>1, <2>1, <2>2, <2>3
  <2> QED BY <1>0, <2>4
<1>3. ASSUME NEW d \in 0..N, d < N, d \in S PROVE d + 1 \in S
  <2> DEFINE h == N - d
  <2>1. h \in 1..N /\ h + 1 = N + 1 - d /\ h = N + 1 - (d + 1) /\ d + 1 \in 0..N
    <3> HIDE DEF N, S
    <3> QED BY ONLY <1>0, <1>3
  <2> HIDE DEF h
  <2>2. T[h + 1] \subseteq U[h + 1]
    BY <1>3, <2>1
  <2>3. rule[h] \in Seq(Characters)
    BY <2>1
  <2>4. fr[h] = AnySegments <=> rule[h] = AnySegments
    BY <1>1, <2>1, <2>3, FoldedSegment
  <2>5. h \in 1..Len(fr)
    BY <1>1, <2>1
  <2>6. ASSUME NEW i \in T[h] PROVE i \in U[h]
    <3>1. CASE rule[h] = AnySegments
      <4>1. i \in 1..(Len(path) + 1) /\ \E q \in T[h + 1] : i <= q
        BY <2>1, <2>6, <3>1, MatchNext
      <4>2. i \in 1..(Len(fp) + 1) /\ \E q \in U[h + 1] : i <= q
        BY <1>1, <2>2, <4>1
      <4> QED BY <1>1, <2>4, <2>5, <3>1, <4>2, MatchNext
    <3>2. CASE rule[h] # AnySegments
      <4>1. i \in 1..Len(path) /\ Glob(path[i], rule[h]) /\ i + 1 \in T[h + 1]
        BY <2>1, <2>6, <3>2, MatchNext
      <4>2. path[i] \in Seq(Characters)
        BY <4>1
      <4>3. Glob(fp[i], fr[h])
        BY <1>1, <2>1, <2>3, <4>1, <4>2, GlobFolded
      <4>4. i \in 1..Len(fp) /\ i + 1 \in U[h + 1]
        BY <1>1, <2>2, <4>1
      <4> QED BY <1>1, <2>4, <2>5, <3>2, <4>3, <4>4, MatchNext
    <3> QED BY <3>1, <3>2
  <2> QED BY <2>1, <2>6
<1>4. \A d \in 0..N : d \in S
  <2> HIDE DEF S, N
  <2> QED BY <1>0, <1>2, <1>3, Lines!Induction
<1>5. N \in 0..N /\ N + 1 - N = 1
  BY <1>0
<1>6. T[1] \subseteq U[1]
  BY <1>4, <1>5
<1> QED BY <1>6, MatchesIsTable DEF fr, fp

\* Folding a rule keeps its wildcards.
LEMMA FoldedPattern ==
  ASSUME NEW rule \in Seq(Seq(Characters)), ~HasPattern(rule)
  PROVE  ~HasPattern(Identity(rule))
<1> SUFFICES ASSUME NEW i \in DOMAIN Identity(rule), NEW k \in DOMAIN Identity(rule)[i],
                    Identity(rule)[i][k] \in {"*", "**"}
             PROVE  FALSE
  BY DEF HasPattern
<1>1. i \in DOMAIN rule /\ Identity(rule)[i] = Folded(rule[i]) /\ rule[i] \in Seq(Characters)
  BY DEF Identity, Folded
<1>2. k \in DOMAIN rule[i] /\ Identity(rule)[i][k] = Lower[rule[i][k]] /\ rule[i][k] \in Characters
  BY <1>1 DEF Folded
<1>3. rule[i][k] \in {"*", "**"}
  BY <1>2, FoldAssumption
<1> QED BY <1>1, <1>2, <1>3 DEF HasPattern

\* The overlap test is as strong as the matching it stands for: two rules that
\* match one path, folded, overlap.
THEOREM OverlapIsSound ==
  ASSUME NEW f \in Seq(Seq(Characters)), NEW g \in Seq(Seq(Characters)), NEW x \in Seq(Seq(FoldedCharacters)),
         Matches(Identity(f), x), Matches(Identity(g), x)
  PROVE  PatternsOverlap(f, g)
<1>1. Identity(f) \in Seq(Seq(FoldedCharacters)) /\ Identity(g) \in Seq(Seq(FoldedCharacters))
  BY FoldedPath
<1>2. ~HasPattern(f) => x = Identity(f)
  BY <1>1, FoldedPattern, MatchLiteral
<1>3. ~HasPattern(g) => x = Identity(g)
  BY <1>1, FoldedPattern, MatchLiteral
<1>4. PathsOverlap(Identity(f), Identity(g))
  BY <1>1, PatternsMeet
<1> QED BY <1>2, <1>3, <1>4 DEF PatternsOverlap, MatchesAnyCase

\* A denied rule that does not overlap with an allowed one matches no path the
\* allowed one matches, but for the spellings of ".env.example".
LEMMA AllowedIsNotDenied ==
  ASSUME NEW a \in Seq(Seq(Characters)), NEW d \in Seq(Seq(Characters)), NEW p \in Seq(Seq(Characters)),
         ~AllowedDeniedOverlap(a, d), Matches(a, p), MatchesAnyCase(d, p)
  PROVE  Identity(p) = EnvExample
<1>1. Identity(p) \in Seq(Seq(FoldedCharacters)) /\ Identity(a) \in Seq(Seq(FoldedCharacters))
  BY FoldedPath
<1>2. Matches(Identity(a), Identity(p)) /\ Matches(Identity(d), Identity(p))
  BY MatchFolded DEF MatchesAnyCase
<1>3. PatternsOverlap(a, d)
  BY <1>1, <1>2, OverlapIsSound
<1>4. Identity(a) = EnvExample
  BY <1>3 DEF AllowedDeniedOverlap
<1> QED BY <1>1, <1>2, <1>4, ExampleAssumption, MatchLiteral

------------------------------------------------------------------------------
(* The life of a scope.                                                    *)

\* The fields of a draft are sets of rules, a frozen one is valid, and a path
\* found allowed is one that a rule of its operation matches.
ScopeInv ==
  /\ draft \in [new : SUBSET Rules, existing : SUBSET Rules, denied : SUBSET Rules,
                justified : SUBSET Rules]
  /\ answers \in [Operations -> SUBSET Paths]
  /\ Frozen => ValidScope(draft)
  /\ \A p \in answers["create"] : Frozen /\ \E r \in draft.new : Matches(r, p)
  /\ \A p \in answers["modify"] : Frozen /\ \E r \in draft.existing : Matches(r, p)

\* It holds at first.
LEMMA ScopeInvInit == ScopeInit => ScopeInv
BY DEF ScopeInit, ScopeInv, NoScope, NoAnswers, Operations, Frozen

\* Every step keeps it.
LEMMA ScopeInvNext == ScopeInv /\ [ScopeNext]_scopeVars => ScopeInv'
<1> SUFFICES ASSUME ScopeInv, [ScopeNext]_scopeVars PROVE ScopeInv'
  OBVIOUS
<1>0. /\ "create" \in Operations /\ "modify" \in Operations
      /\ DOMAIN draft = {"new", "existing", "denied", "justified"}
  BY DEF ScopeInv, Operations
<1>1. ASSUME NEW field \in {"new", "existing", "denied"}, NEW rule \in Rules, WriteRule(field, rule)
      PROVE  ScopeInv'
  <2>1. ~Frozen /\ ~Frozen' /\ answers' = answers /\ draft' = [draft EXCEPT ![field] = {rule}]
    BY <1>1 DEF WriteRule, Frozen
  <2>2. draft' \in [new : SUBSET Rules, existing : SUBSET Rules, denied : SUBSET Rules,
                    justified : SUBSET Rules]
    <3>1. CASE field = "new"
      BY <2>1, <3>1 DEF ScopeInv
    <3>2. CASE field = "existing"
      BY <2>1, <3>2 DEF ScopeInv
    <3>3. CASE field = "denied"
      BY <2>1, <3>3 DEF ScopeInv
    <3> QED BY <3>1, <3>2, <3>3
  <2>3. answers["create"] = {} /\ answers["modify"] = {}
    BY <2>1 DEF ScopeInv
  <2> QED BY <2>1, <2>2, <2>3 DEF ScopeInv
<1>2. ASSUME NEW justified \in {{}, draft.new \cup draft.existing}, FreezeScope(justified)
      PROVE  ScopeInv'
  <2>1. /\ ~Frozen /\ answers' = answers /\ draft' = [draft EXCEPT !.justified = justified]
        /\ Frozen' => ValidScope(draft')
    BY <1>2 DEF FreezeScope, Frozen
  <2>2. draft' \in [new : SUBSET Rules, existing : SUBSET Rules, denied : SUBSET Rules,
                    justified : SUBSET Rules]
    BY <2>1 DEF ScopeInv
  <2>3. answers["create"] = {} /\ answers["modify"] = {}
    BY <2>1 DEF ScopeInv
  <2> QED BY <2>1, <2>2, <2>3 DEF ScopeInv
<1>3. ASSUME NEW op \in Operations, AskPaths(op) PROVE ScopeInv'
  <2>1. /\ Frozen /\ Frozen' /\ draft' = draft
        /\ answers' = [answers EXCEPT ![op] = {p \in Paths : Decision(TheScope, p, op) = "allowed"}]
    BY <1>3 DEF AskPaths, Frozen
  <2>2. ASSUME NEW p, Decision(TheScope, p, op) = "allowed"
        PROVE  \E r \in (IF op = "create" THEN draft.new ELSE draft.existing) : Matches(r, p)
    <3>1. TheScope.new = draft.new /\ TheScope.existing = draft.existing
      BY DEF TheScope, Freeze
    <3> QED BY <2>2, <3>1 DEF Decision
  <2>3. answers' \in [Operations -> SUBSET Paths]
    BY <2>1 DEF ScopeInv
  <2>4. \A p \in answers'["create"] : \E r \in draft.new : Matches(r, p)
    BY <1>0, <2>1, <2>2 DEF ScopeInv
  <2>5. \A p \in answers'["modify"] : \E r \in draft.existing : Matches(r, p)
    BY <1>0, <2>1, <2>2 DEF ScopeInv
  <2> QED BY <2>1, <2>3, <2>4, <2>5 DEF ScopeInv, ValidScope
<1>4. CASE UNCHANGED scopeVars
  BY <1>4 DEF scopeVars, ScopeInv, Frozen, ValidScope
<1> QED BY <1>1, <1>2, <1>3, <1>4 DEF ScopeNext

\* A frozen scope means what its rules say.
LEMMA ScopeInvUnambiguous == ScopeInv => ScopeIsUnambiguous
<1> SUFFICES ASSUME ScopeInv, Frozen
             PROVE  /\ \A p \in answers["create"], q \in answers["modify"] : Identity(p) # Identity(q)
                    /\ \A p \in Paths :
                         (\E rule \in TheScope.new \cup TheScope.existing : Matches(rule, p)) =>
                           Identity(p) = EnvExample \/ ~Denied(TheScope, p)
  BY DEF ScopeIsUnambiguous
<1>0. /\ draft.new \subseteq Rules /\ draft.existing \subseteq Rules /\ draft.denied \subseteq Rules
      /\ answers["create"] \subseteq Paths /\ answers["modify"] \subseteq Paths
      /\ Rules \subseteq Seq(Seq(Characters)) /\ Paths \subseteq Seq(Seq(Characters))
  BY PathsAssumption DEF ScopeInv, Operations
<1>1. /\ \A n \in draft.new, e \in draft.existing : ~PatternsOverlap(n, e)
      /\ \A a \in draft.new \cup draft.existing, d \in WithDefaults(draft.denied) : ~AllowedDeniedOverlap(a, d)
  BY DEF ScopeInv, ValidScope
<1>2. TheScope.new = draft.new /\ TheScope.existing = draft.existing /\ TheScope.denied = WithDefaults(draft.denied)
  BY DEF TheScope, Freeze
<1>3. WithDefaults(draft.denied) \subseteq Seq(Seq(Characters))
  BY <1>0, DefaultsAssumption DEF WithDefaults
<1>4. ASSUME NEW p \in answers["create"], NEW q \in answers["modify"], Identity(p) = Identity(q)
      PROVE  FALSE
  <2>1. PICK n \in draft.new : Matches(n, p)
    BY DEF ScopeInv
  <2>2. PICK e \in draft.existing : Matches(e, q)
    BY DEF ScopeInv
  <2>3. /\ n \in Seq(Seq(Characters)) /\ e \in Seq(Seq(Characters))
        /\ p \in Seq(Seq(Characters)) /\ q \in Seq(Seq(Characters))
    BY <1>0
  <2>4. Matches(Identity(n), Identity(p)) /\ Matches(Identity(e), Identity(p))
    BY <1>4, <2>1, <2>2, <2>3, MatchFolded
  <2>5. Identity(p) \in Seq(Seq(FoldedCharacters))
    BY <2>3, FoldedPath
  <2>6. PatternsOverlap(n, e)
    BY <2>3, <2>4, <2>5, OverlapIsSound
  <2> QED BY <1>1, <2>6
<1>5. ASSUME NEW p \in Paths, NEW a \in TheScope.new \cup TheScope.existing, Matches(a, p),
             Denied(TheScope, p)
      PROVE  Identity(p) = EnvExample
  <2>1. PICK d \in WithDefaults(draft.denied) : MatchesAnyCase(d, p)
    BY <1>2, <1>5 DEF Denied
  <2>2. a \in Seq(Seq(Characters)) /\ d \in Seq(Seq(Characters)) /\ p \in Seq(Seq(Characters))
    BY <1>0, <1>2, <1>3
  <2>3. ~AllowedDeniedOverlap(a, d)
    BY <1>1, <1>2
  <2> QED BY <1>5, <2>1, <2>2, <2>3, AllowedIsNotDenied
<1> QED BY <1>4, <1>5

\* So does every scope that was ever frozen, for all rules, paths and
\* characters (scope.py:137-205, 312-327).
THEOREM ScopeMeansItsRules == ScopeSpec => []ScopeIsUnambiguous
BY ScopeInvInit, ScopeInvNext, ScopeInvUnambiguous, PTL DEF ScopeSpec
==============================================================================
