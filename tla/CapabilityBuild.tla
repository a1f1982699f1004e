-------------------------- MODULE CapabilityBuild ---------------------------
(***************************************************************************)
(* The offline capability build of scripts/capability_build/, from a       *)
(* request to the recorded outcome of a pull request.  Every stage is a    *)
(* function from the value of the stage before it, and from what a human   *)
(* or a worker supplies, to an immutable result that either advances the   *)
(* workflow or says why not; the constructor of every result derives it    *)
(* again and refuses a forged one.  One variable per stage holds its       *)
(* result.                                                                 *)
(*                                                                         *)
(* Texts are reduced to what the stages ask of them: whether they are      *)
(* acceptable, and whether the text a stage renders fits its byte bound.   *)
(***************************************************************************)
EXTENDS ScopeRules, FiniteSets, SequencesExt

CONSTANTS
    Bindings,           \* job bindings a human may supply: [faults, job, base]
    FullShas,           \* the base commits written with 40 digits or more
    Slug,               \* _slug of every job id: casefolded and cut
    ScopeInputs,        \* scopes a human may supply
    Returns,            \* returned packages: sequences of [path, operation, content]
    PythonPaths,        \* paths that end in .py
    TestPaths,          \* Python paths under tests/
    UnplannablePaths,   \* paths no verification command may name
    Reports,            \* evidence supplied: sequences of [name, status, of]
    DecisionIds, AuthorizationIds,
    Fields,             \* the fields an authorization or a result must echo
    MaxDecisions, MaxAuthorizations, MaxResults     \* bounds

VARIABLES
    request, start, creation, freeze, brief, intake, evidence, bundle, handoff,
    package, rendering, review,
    decisions, authorizations, actions, results

buildVars == <<request, start, creation, freeze, brief, intake, evidence, bundle, handoff,
               package, rendering, review, decisions, authorizations, actions, results>>

None == "none"
Unset == [done |-> None]
Made(stage) == stage.done # None

-----------------------------------------------------------------------------
(* workflow.py *)

WORKFLOW_STEPS ==
    <<"request_received", "job_created", "scope_frozen", "brief_ready", "worker_returned",
      "intake_checked", "evidence_attached", "bundle_created", "handoff_created",
      "human_decision_pending">>

StepIndex(step) == CHOOSE i \in DOMAIN WORKFLOW_STEPS : WORKFLOW_STEPS[i] = step
NewWorkflow == [completed |-> <<>>, blocked |-> None]

\* record_workflow_step raises for a step already taken and when all are.
Recordable(w, step) == StepIndex(step) > Len(w.completed)
RecordStep(w, step) ==
    IF StepIndex(step) = Len(w.completed) + 1
    THEN [completed |-> Append(w.completed, step), blocked |-> None]
    ELSE [w EXCEPT !.blocked = step]

\* The stages compare completed_steps with the exact prefix.
ReachedStep(w, step) == w.completed = SubSeq(WORKFLOW_STEPS, 1, StepIndex(step))

Result(w) == [done |-> "yes", workflow |-> w]
NotDone(w) == [done |-> "no", workflow |-> w]
Ready(stage, step) == stage.done = "yes" /\ ReachedStep(stage.workflow, step)

BuildInit ==
    /\ request = Unset /\ start = Unset /\ creation = Unset /\ freeze = Unset /\ brief = Unset
    /\ intake = Unset /\ evidence = Unset /\ bundle = Unset /\ handoff = Unset
    /\ package = Unset /\ rendering = Unset /\ review = Unset
    /\ decisions = {} /\ authorizations = {} /\ actions = {} /\ results = {}

-----------------------------------------------------------------------------
(* From the request to the worker's brief *)

\* What is wrong with a text or a list of a request: it is missing and required,
\* over its bound, or looks like a secret.
TextFaults == {"missing", "oversized", "secret"}

\* The texts of a request; one may hold a phrase that asks for authority, with
\* a word that negates it among the three before it.
Texts == [fault : {None} \cup TextFaults, phrase : BOOLEAN, negated : BOOLEAN]

\* _requested_phrase and _unsafe_authority_reasons
UnsafeAuthority(text) == text.fault = None /\ text.phrase /\ ~text.negated

\* CapabilityBuildRequest: the status is derived from the reasons found.
RequestStatus(text, undecided) ==
    CASE text.fault # None \/ UnsafeAuthority(text) -> "blocked"
      [] text.fault = None /\ ~UnsafeAuthority(text) /\ undecided -> "draft"
      [] OTHER -> "ready_for_workflow"

SubmitRequest(text, undecided) ==
    /\ ~Made(request)
    /\ request' = [done |-> "yes", status |-> RequestStatus(text, undecided)]
    /\ UNCHANGED <<start, creation, freeze, brief, intake, evidence, bundle, handoff, package,
                   rendering, review, decisions, authorizations, actions, results>>

\* RequestWorkflowStart: started exactly when the request is ready.
WorkflowStart ==
    IF request.status = "ready_for_workflow"
    THEN Result(RecordStep(NewWorkflow, "request_received"))
    ELSE NotDone(NewWorkflow)

\* start_workflow_from_request
StartWorkflow ==
    /\ Made(request) /\ ~Made(start)
    /\ start' = WorkflowStart
    /\ UNCHANGED <<request, creation, freeze, brief, intake, evidence, bundle, handoff, package,
                   rendering, review, decisions, authorizations, actions, results>>

\* The fields of a binding that can be missing, malformed or secret-like.
BindingFaults == {"job_id", "capability_id", "spec_sha256", "base_sha", "actor", "note"}

\* BuildJobBinding.ready_for_job_creation
BindingReady(binding) == binding.faults \cap BindingFaults = {}

\* _start_is_ready and _binding_is_ready
JobInputsReady(binding) == Ready(start, "request_received") /\ BindingReady(binding)

\* WorkflowJobCreation: the job is the drafted one of the binding.
JobCreation(binding) ==
    IF JobInputsReady(binding)
    THEN [done |-> "yes", workflow |-> RecordStep(start.workflow, "job_created"),
          job |-> binding.job, base |-> binding.base, state |-> "drafted"]
    ELSE NotDone(start.workflow)

\* create_job_from_workflow_start
CreateJob(binding) ==
    /\ Made(start) /\ ~Made(creation)
    /\ creation' = JobCreation(binding)
    /\ UNCHANGED <<request, start, freeze, brief, intake, evidence, bundle, handoff, package,
                   rendering, review, decisions, authorizations, actions, results>>

\* _creation_is_ready
CreationReady == Ready(creation, "job_created") /\ creation.state = "drafted"

\* WorkflowScopeFreeze
ScopeFreeze(input) ==
    IF CreationReady /\ ValidScope(input)
    THEN [done |-> "yes", workflow |-> RecordStep(creation.workflow, "scope_frozen"),
          scope |-> Freeze(input)]
    ELSE NotDone(creation.workflow)

\* freeze_scope_from_workflow_job
FreezeJobScope(input) ==
    /\ Made(creation) /\ ~Made(freeze)
    /\ freeze' = ScopeFreeze(input)
    /\ UNCHANGED <<request, start, creation, brief, intake, evidence, bundle, handoff, package,
                   rendering, review, decisions, authorizations, actions, results>>

\* render_worker_brief and _validate_brief_binding: the brief names the job and
\* every rule a worker may write under; the goal and the constraints must be text.
BriefText(valid) ==
    IF valid THEN [job |-> creation.job, base |-> creation.base, new |-> freeze.scope.new,
                   existing |-> freeze.scope.existing]
             ELSE [job |-> None]

\* WorkflowBriefReady
BriefReady(valid) ==
    IF Ready(freeze, "scope_frozen") /\ BriefText(valid).job # None
    THEN [done |-> "yes", workflow |-> RecordStep(freeze.workflow, "brief_ready"),
          text |-> BriefText(valid)]
    ELSE NotDone(freeze.workflow)

\* render_brief_from_workflow_scope
RenderBrief(valid) ==
    /\ Made(freeze) /\ ~Made(brief)
    /\ brief' = BriefReady(valid)
    /\ UNCHANGED <<request, start, creation, freeze, intake, evidence, bundle, handoff, package,
                   rendering, review, decisions, authorizations, actions, results>>

-----------------------------------------------------------------------------
(* What the worker returned, and its evidence *)

Touched(files) == {files[i].path : i \in DOMAIN files}

\* The content rules: secrets, access to data/, processes, Git, imports of
\* runtime authority.
SafetyRules == {"secret", "data_access", "process", "git", "runtime_authority"}

\* _safety_findings
SafetyFindings(file) == {<<rule, file.path>> : rule \in file.content \cap SafetyRules}

\* Two returned files under one identity, whatever their operations.
DuplicateFindings(files) ==
    {<<"duplicate", files[i].path>> : i \in {k \in DOMAIN files :
        \E j \in DOMAIN files \ {k} : Identity(files[j].path) = Identity(files[k].path)}}

\* validate_returned_files: duplicates, files outside the scope, unsafe content.
Findings(scope, files) ==
    DuplicateFindings(files)
    \cup {<<"scope", files[i].path>> : i \in {k \in DOMAIN files :
              Decision(scope, files[k].path, files[k].operation) # "allowed"}}
    \cup UNION {SafetyFindings(files[i]) : i \in DOMAIN files}

\* ReturnedFile, WorkerSummary, _coerce_returned_files and _returned_items: an
\* empty package and one over the bounds of files, bytes and lines raise.
Coerced(files, wellFormed) == wellFormed /\ files # <<>>

\* WorkflowIntakeCheck: both steps are recorded, with findings or without.
IntakeCheck(files, wellFormed) ==
    IF Ready(brief, "brief_ready") /\ Coerced(files, wellFormed)
    THEN [done |-> "yes",
          workflow |-> RecordStep(RecordStep(brief.workflow, "worker_returned"), "intake_checked"),
          files |-> files, findings |-> Findings(freeze.scope, files)]
    ELSE NotDone(brief.workflow)

\* check_returned_worker_from_workflow_brief
CheckReturn(files, wellFormed) ==
    /\ Made(brief) /\ ~Made(intake)
    /\ intake' = IntakeCheck(files, wellFormed)
    /\ UNCHANGED <<request, start, creation, freeze, brief, evidence, bundle, handoff, package,
                   rendering, review, decisions, authorizations, actions, results>>

\* build_default_verification_plan: files other than Python are reviewed by hand
\* only when the return holds no Python file.
PlannedCommands(files) ==
    LET touched == Touched(files) IN
    IF touched \cap PythonPaths = {}
    THEN {"manual-non-python-review"}
    ELSE {"python-syntax", "blocking-python-lint",
          IF touched \cap TestPaths # {} THEN "targeted-tests" ELSE "repository-tests"}

\* VerificationCommand refuses an argument that is a dangerous command or holds
\* a shell metacharacter, also when it is the name of a touched file.
Plannable(files) == Touched(files) \cap UnplannablePaths = {}

EvidenceStatuses == {"passed", "failed", "blocked", "not_run"}

\* EvidenceRecord and EvidenceBundle: records of unknown commands and second
\* records raise.
ValidReport(files, report) ==
    /\ \A i \in DOMAIN report :
           report[i].name \in PlannedCommands(files) /\ report[i].status \in EvidenceStatuses
    /\ \A i, j \in DOMAIN report : report[i].name = report[j].name => i = j

EvidenceStatus(files, report) ==
    LET statuses == {report[i].status : i \in DOMAIN report}
        reported == {report[i].name : i \in DOMAIN report}
    IN  CASE "blocked" \in statuses -> "blocked"
          [] "blocked" \notin statuses /\ "failed" \in statuses -> "failed"
          [] OTHER -> IF reported # PlannedCommands(files) \/ "not_run" \in statuses
                      THEN "incomplete" ELSE "passed"

\* _intake_is_checked and _intake_allows_evidence
IntakeAllowsEvidence == Ready(intake, "intake_checked") /\ intake.findings = {}

\* WorkflowEvidenceAttachment: evidence is attached whatever it says.
EvidenceAttachment(report) ==
    IF IntakeAllowsEvidence /\ Plannable(intake.files) /\ ValidReport(intake.files, report)
    THEN [done |-> "yes", workflow |-> RecordStep(intake.workflow, "evidence_attached"),
          report |-> report, status |-> EvidenceStatus(intake.files, report)]
    ELSE NotDone(intake.workflow)

\* attach_evidence_from_workflow_intake
AttachEvidence(report) ==
    /\ Made(intake) /\ ~Made(evidence)
    /\ evidence' = EvidenceAttachment(report)
    /\ UNCHANGED <<request, start, creation, freeze, brief, intake, bundle, handoff, package,
                   rendering, review, decisions, authorizations, actions, results>>

-----------------------------------------------------------------------------
(* The review bundle, the handoff, the pull request package *)

\* build_review_bundle: the summaries of the job, the scope, the intake, the
\* plan and the evidence a reviewer is shown.
BundleContents ==
    LET reported == {evidence.report[i].name : i \in DOMAIN evidence.report} IN
    [job |-> creation.job, base |-> creation.base, new |-> freeze.scope.new,
     touched |-> Touched(intake.files), findings |-> intake.findings,
     commands |-> PlannedCommands(intake.files), reported |-> reported,
     missing |-> PlannedCommands(intake.files) \ reported, status |-> evidence.status]

\* The summaries must agree with one another, command by command.
ConsistentBundle(c) ==
    /\ c.reported \cup c.missing = c.commands /\ c.reported \cap c.missing = {}
    /\ c.status = "passed" => c.missing = {}

\* BuildReviewBundle.readiness_status, for a bundle with plan and evidence.
Readiness(c) == IF c.findings # {} \/ c.status # "passed" THEN "blocked" ELSE "ready"

\* WorkflowBundleCreation; a bundle over its byte bound is refused.
BundleCreation(fits) ==
    IF Ready(evidence, "evidence_attached") /\ ConsistentBundle(BundleContents) /\ fits
    THEN [done |-> "yes", workflow |-> RecordStep(evidence.workflow, "bundle_created"),
          contents |-> BundleContents, readiness |-> Readiness(BundleContents)]
    ELSE NotDone(evidence.workflow)

\* create_bundle_from_workflow_evidence
CreateBundle(fits) ==
    /\ Made(evidence) /\ ~Made(bundle)
    /\ bundle' = BundleCreation(fits)
    /\ UNCHANGED <<request, start, creation, freeze, brief, intake, evidence, handoff, package,
                   rendering, review, decisions, authorizations, actions, results>>

\* _approval_blockers
ApprovalBlockers(b) ==
    (IF b.readiness # "ready" THEN {"bundle"} ELSE {})
    \cup (IF b.contents.findings # {} THEN {"intake"} ELSE {})
    \cup (IF b.contents.status # "passed" THEN {"evidence"} ELSE {})

\* HumanHandoffPackage: what the human is offered follows from the blockers.
HandoffPackage(b) ==
    [done |-> "yes", workflow |-> RecordStep(b.workflow, "handoff_created"),
     blockers |-> ApprovalBlockers(b), approvable |-> ApprovalBlockers(b) = {},
     touched |-> b.contents.touched]

\* WorkflowHandoffCreation
HandoffCreation(fits) ==
    IF Ready(bundle, "bundle_created") /\ fits
    THEN HandoffPackage(bundle)
    ELSE NotDone(bundle.workflow)

\* create_handoff_from_workflow_bundle
CreateHandoff(fits) ==
    /\ Made(bundle) /\ ~Made(handoff)
    /\ handoff' = HandoffCreation(fits)
    /\ UNCHANGED <<request, start, creation, freeze, brief, intake, evidence, bundle, package,
                   rendering, review, decisions, authorizations, actions, results>>

\* _changed_files: a file counts as created only when its path is, letter for
\* letter, a rule for new files.
ChangedFiles ==
    [p \in handoff.touched |-> IF p \in bundle.contents.new THEN "create" ELSE "modify"]

\* package_id: the folded job id, so that jobs may share one.
PackageId(job) == <<Slug[job], "pr-package">>

\* _authoritative_package and PRPackageProposal; the body tells the job, the
\* files, the evidence and the blockers.  No workflow step of its own.
PackageProposal ==
    [done |-> "yes", workflow |-> handoff.workflow,
     id |-> PackageId(creation.job), job |-> creation.job, base |-> creation.base,
     ready |-> handoff.approvable, blockers |-> handoff.blockers, files |-> ChangedFiles,
     report |-> evidence.report]

\* PRPackageProposal: no two changed files under one identity, and blocking
\* reasons exactly when it is not ready.
ValidProposal(p) ==
    /\ \A f, g \in DOMAIN p.files : Identity(f) = Identity(g) => f = g
    /\ p.ready <=> p.blockers = {}

\* WorkflowPRPackageCreation
PackageCreation(fits) ==
    IF Ready(handoff, "handoff_created") /\ ValidProposal(PackageProposal) /\ fits
    THEN PackageProposal
    ELSE NotDone(handoff.workflow)

\* create_pr_package_from_workflow_handoff
CreatePackage(fits) ==
    /\ Made(handoff) /\ ~Made(package)
    /\ package' = PackageCreation(fits)
    /\ UNCHANGED <<request, start, creation, freeze, brief, intake, evidence, bundle, handoff,
                   rendering, review, decisions, authorizations, actions, results>>

\* _expected_disposition: render_pr_package may exceed the bound of its text.
Disposition(fits) ==
    CASE package.done # "yes" \/ ~fits -> "not_rendered"
      [] package.done = "yes" /\ fits /\ package.ready -> "ready_for_human_review"
      [] OTHER -> "blocked_inspection_only"

\* render_pr_body: everything of the package a reader of the request will see.
RenderedBody == <<package.id, package.job, package.base, package.files, package.report, package.blockers>>

\* WorkflowPRPackageRendering
PackageRendering(fits) ==
    IF package.done = "yes" /\ fits
    THEN [done |-> "yes", workflow |-> package.workflow, body |-> RenderedBody,
          disposition |-> Disposition(fits)]
    ELSE [done |-> "no", workflow |-> package.workflow, disposition |-> Disposition(fits)]

\* render_pr_package_from_workflow_creation
RenderPackage(fits) ==
    /\ Made(package) /\ ~Made(rendering)
    /\ rendering' = PackageRendering(fits)
    /\ UNCHANGED <<request, start, creation, freeze, brief, intake, evidence, bundle, handoff,
                   package, review, decisions, authorizations, actions, results>>

\* _expected_options: a blocked package is shown, and cannot be approved.
Options(disposition) ==
    CASE disposition = "ready_for_human_review" -> {"approve_for_pr", "request_changes", "reject"}
      [] disposition = "blocked_inspection_only" -> {"request_changes", "reject"}
      [] OTHER -> {}

\* WorkflowPRReviewPending
ReviewPending ==
    IF rendering.done = "yes" /\ Recordable(rendering.workflow, "human_decision_pending")
    THEN [done |-> "yes", workflow |-> RecordStep(rendering.workflow, "human_decision_pending"),
          options |-> Options(rendering.disposition)]
    ELSE [done |-> "no", workflow |-> rendering.workflow, options |-> {}]

\* enter_human_review_pending
EnterReview ==
    /\ Made(rendering) /\ ~Made(review)
    /\ review' = ReviewPending
    /\ UNCHANGED <<request, start, creation, freeze, brief, intake, evidence, bundle, handoff,
                   package, rendering, decisions, authorizations, actions, results>>

-----------------------------------------------------------------------------
(* The human decision and the publication it may lead to *)

\* A mutant: the options of the review are not consulted.
RecordableAnyDecision(supplied) ==
    /\ review.done = "yes"
    /\ supplied.job = package.job /\ supplied.package = package.id /\ supplied.base = package.base

\* _reason of workflow_pr_decision.py
RecordableDecision(supplied) ==
    /\ review.done = "yes"
    /\ supplied.job = package.job /\ supplied.package = package.id /\ supplied.base = package.base
    /\ supplied.decision \in review.options

\* WorkflowPRDecisionRecording: only a recorded approval is eligible.
DecisionRecording(supplied) ==
    [id |-> supplied.id, job |-> supplied.job, package |-> supplied.package,
     base |-> supplied.base, decision |-> supplied.decision,
     recorded |-> RecordableDecision(supplied),
     eligible |-> RecordableDecision(supplied) /\ supplied.decision = "approve_for_pr"]

\* record_pr_review_decision: a review may be decided any number of times, and
\* the decisions need not agree.
RecordDecision(supplied) ==
    /\ Made(review) /\ Cardinality(decisions) < MaxDecisions
    /\ decisions' = decisions \cup {DecisionRecording(supplied)}
    /\ UNCHANGED <<request, start, creation, freeze, brief, intake, evidence, bundle, handoff,
                   package, rendering, review, authorizations, actions, results>>

\* PRPublicationAuthorizationInput wants a base commit of 40 digits, and the
\* expected input of an eligible decision is built with the package's: on a
\* short one the call raises.
InputsConstructible(d) == d.eligible => package.base \in FullShas

\* _mismatch and PRPublicationAuthorization: every bound field must be the one
\* of the decision chain.
Authorization(d, id, wrong) == [id |-> id, decision |-> d, authorized |-> d.eligible /\ wrong = None]

\* authorize_pr_publication
Authorize(d, id, wrong) ==
    /\ d \in decisions /\ Cardinality(authorizations) < MaxAuthorizations
    /\ InputsConstructible(d)
    /\ authorizations' = authorizations \cup {Authorization(d, id, wrong)}
    /\ UNCHANGED <<request, start, creation, freeze, brief, intake, evidence, bundle, handoff,
                   package, rendering, review, decisions, actions, results>>

\* PRPublicationAction: the authorization is derived again; the idempotency key
\* is the digest of the whole scope, authorization_id included.
PublicationAction(a) ==
    [authorization |-> a, prepared |-> a.authorized,
     key |-> IF a.authorized THEN <<a.id, a.decision.id, package.id, rendering.body>> ELSE <<>>]

\* prepare_pr_publication_action
Prepare(a) ==
    /\ a \in authorizations /\ PublicationAction(a) \notin actions
    /\ actions' = actions \cup {PublicationAction(a)}
    /\ UNCHANGED <<request, start, creation, freeze, brief, intake, evidence, bundle, handoff,
                   package, rendering, review, decisions, authorizations, results>>

\* PRPublicationResultInput: a created pull request has a number and an address,
\* a failure its classification, an attempt not made its reason.
Outcomes == {"created", "failed", "not_attempted"}

\* _mismatch and PRPublicationResult: the report must echo the action's fields,
\* and a created pull request must have the canonical address.
PublicationResult(x, outcome, wrong, canonical) ==
    [action |-> x,
     status |-> IF x.prepared /\ wrong = None /\ (outcome = "created" => canonical)
                THEN outcome ELSE "rejected"]

\* record_pr_publication_result
RecordResult(x, outcome, wrong, canonical) ==
    /\ x \in actions /\ Cardinality(results) < MaxResults
    /\ results' = results \cup {PublicationResult(x, outcome, wrong, canonical)}
    /\ UNCHANGED <<request, start, creation, freeze, brief, intake, evidence, bundle, handoff,
                   package, rendering, review, decisions, authorizations, actions>>

\* PRReviewDecisionInput
SuppliedDecisions ==
    [id : DecisionIds, job : {b.job : b \in Bindings}, package : {PackageId(b.job) : b \in Bindings},
     base : {b.base : b \in Bindings}, decision : {"approve_for_pr", "request_changes", "reject"}]

BuildNext ==
    \/ \E text \in Texts, undecided \in BOOLEAN : SubmitRequest(text, undecided)
    \/ StartWorkflow
    \/ \E binding \in Bindings : CreateJob(binding)
    \/ \E input \in ScopeInputs : FreezeJobScope(input)
    \/ \E valid \in BOOLEAN : RenderBrief(valid)
    \/ \E files \in Returns, wellFormed \in BOOLEAN : CheckReturn(files, wellFormed)
    \/ \E report \in Reports : AttachEvidence(report)
    \/ \E fits \in BOOLEAN : CreateBundle(fits) \/ CreateHandoff(fits) \/ CreatePackage(fits) \/ RenderPackage(fits)
    \/ EnterReview
    \/ \E supplied \in SuppliedDecisions : RecordDecision(supplied)
    \/ \E d \in decisions, id \in AuthorizationIds, wrong \in Fields \cup {None} : Authorize(d, id, wrong)
    \/ \E a \in authorizations : Prepare(a)
    \/ \E x \in actions, outcome \in Outcomes, wrong \in Fields \cup {None}, canonical \in BOOLEAN :
           RecordResult(x, outcome, wrong, canonical)

BuildSpec == BuildInit /\ [][BuildNext]_buildVars

-----------------------------------------------------------------------------
\* A pull request is prepared, and reported as created, only at the end of the
\* whole chain: the request was ready, every returned file is inside the frozen
\* scope for its operation, free of safety findings and not a second spelling
\* of another one, every planned check was reported as passed, all ten workflow
\* steps were taken in order, and a human approved this very package (the
\* gates are spread over request.py:375, intake.py:350, evidence.py:351,
\* bundle.py:448, handoff.py:153, workflow_pr_review.py:91,
\* workflow_pr_decision.py:39, pr_publication_authorization.py:122 and
\* pr_publication_action.py:26).
PublishedWasReviewed ==
    (\/ \E x \in actions : x.prepared
     \/ \E r \in results : r.status # "rejected") =>
        /\ request.status = "ready_for_workflow"
        /\ review.workflow.completed = WORKFLOW_STEPS
        /\ \A i \in DOMAIN intake.files :
               /\ Decision(freeze.scope, intake.files[i].path, intake.files[i].operation) = "allowed"
               /\ intake.files[i].content \cap SafetyRules = {}
               /\ \A j \in DOMAIN intake.files :
                      Identity(intake.files[j].path) = Identity(intake.files[i].path) => i = j
        /\ \A c \in PlannedCommands(intake.files) :
               \E i \in DOMAIN evidence.report : evidence.report[i].name = c
        /\ \A i \in DOMAIN evidence.report : evidence.report[i].status = "passed"
        /\ \E d \in decisions : d.decision = "approve_for_pr" /\ d.job = creation.job /\ d.base = creation.base

\* "Evidence from job A cannot be validated against job B"
\* (docs/CAPABILITY_BUILD_AUTOMATION.md:378): what is published was verified by
\* evidence gathered for its own return.  The records carry no job, return or
\* fix round (evidence.py:266-307), so the code cannot know.
EvidenceOfThisJob ==
    \A x \in actions : x.prepared => \A i \in DOMAIN evidence.report : evidence.report[i].of = creation.job
=============================================================================
