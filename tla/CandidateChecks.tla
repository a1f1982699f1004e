--------------------------- MODULE CandidateChecks ---------------------------
(***************************************************************************)
(* The verification of one quarantined candidate: its structure            *)
(* (verifier_core.py), the trusted checks run on it in containers          *)
(* (check_runner.py, check_runtime.py), and the held-out check repeated    *)
(* after them (adversarial_verifier.py).                                   *)
(*                                                                         *)
(* The Docker daemon carries out what it was asked even after the client   *)
(* gave up waiting, and another process of the user can write the          *)
(* workspace.  The daemon's commands are atomic; between them it may       *)
(* finish a late create or start, and a container may exit.                *)
(***************************************************************************)
EXTENDS TrustedPolicy

CONSTANTS
  Contracts,        \* what is proposed as a candidate contract
  WorkerReceipts,   \* worker execution receipts
  ArtifactIntakes,  \* artifact intake results
  CheckLists,       \* lists of checks proposed
  Unmountable,      \* paths the check runner does not write
  Directories,      \* the paths of the directories each path is in
  MaxChecks,
  Exposed           \* workspaces another process writes in

VARIABLES
  stage,      \* idle, planned, checked, held, done
  plan,       \* the check plan in force
  run,        \* the run_trusted_checks in progress
  receipts,   \* receipts of the runs that ended: public, then held-out
  verdict,    \* of the adversarial verification receipt, or none
  container,  \* the container of each workspace and check
  workspace,  \* none, empty, candidate, altered
  ended,      \* history: how containers ended, and output over the bound
  spoiled     \* history: workspaces a container saw altered

checkVars ==
  <<stage, plan, run, receipts, verdict, container, workspace, ended, spoiled>>

\* One public run and two held-out ones.
RepeatCount == 2
Workspaces == 1..(1 + RepeatCount)

\* What is handed in is a finite set of files under repository paths.
ASSUME ChecksAssumption ==
  /\ \A checks \in CheckLists : checks \in Seq(ToSet(checks))
  /\ MaxChecks \in Nat
  /\ Exposed \subseteq Workspaces
  /\ Directories \in [Paths -> SUBSET Paths]
  /\ \A i \in ArtifactIntakes :
       IsFiniteSet(DOMAIN i.payload) /\ DOMAIN i.payload \subseteq Paths

------------------------------------------------------------------------------
(* verifier_core.py *)

NoCaseCollision(paths) == \A p, q \in paths : Fold[p] = Fold[q] => p = q

\* TrustedCandidateContract
ContractIsValid(c) ==
  /\ \A paths \in {c.allowed, c.required, c.protected} : NoCaseCollision(paths)
  /\ c.required \subseteq c.allowed
  /\ c.allowed \cap c.protected = {}

\* _validate_execution and _validate_intake
EvidenceIsBound(e, i) ==
  /\ e.performed /\ ~e.uncertain
  /\ i.admitted
  /\ i.exec = e.id

Overlay(base, payload) ==
  [p \in DOMAIN base \cup DOMAIN payload |->
     IF p \in DOMAIN payload THEN payload[p] ELSE base[p]]

Changed(base, payload) ==
  {p \in DOMAIN payload : p \in DOMAIN base => base[p] # payload[p]}

\* What verify_candidate_structure needs to return a receipt at all; its
\* receipt refuses changed paths that collide by case.
Verifiable(c, e, i) ==
  /\ ContractIsValid(c)
  /\ EvidenceIsBound(e, i)
  /\ c.request = e.request
  /\ c.sha = e.sha
  /\ NoCaseCollision(Changed(c.base, i.payload))

\* The failure codes of verify_candidate_structure.
StructuralFailures(c, e, i) ==
  LET changed == Changed(c.base, i.payload) IN
  {code \in {"quarantine_payload_digest_mismatch", "artifact_path_not_allowed",
             "protected_path_modified", "required_change_missing"} :
     CASE code = "quarantine_payload_digest_mismatch" -> i.payload # i.recorded
       [] code = "artifact_path_not_allowed" -> ~(DOMAIN i.payload \subseteq c.allowed)
       [] code = "protected_path_modified" -> DOMAIN i.payload \cap c.protected # {}
       [] code = "required_change_missing" -> ~(c.required \subseteq changed)}
  \cup AdmissionFailures(
         AdmitChangedPaths(SetToSeq(changed), c.id, e.request, Absent, Absent))

StructuralReceipt(c, e, i) ==
  [contract |-> c, exec |-> e, intake |-> i,
   changed |-> Changed(c.base, i.payload),
   tree |-> Overlay(c.base, i.payload),
   failures |-> StructuralFailures(c, e, i)]

------------------------------------------------------------------------------
(* check_runner.py: plans *)

\* PROTECTED_CHECK_PATHS
CheckPaths == {"check_runner.py", "check_runtime.py", "verifier_core.py"}

\* TrustedCheckDefinition, as create_trusted_check makes it
TrustedCheck(id, tool, targets) == [id |-> id, tool |-> tool, targets |-> targets]

CheckIsValid(check) ==
  check.tool \in {"pytest", "flake8"} /\ check.targets # {}

\* TrustedCheckPlan.  Four checks of thirty seconds never exceed the total.
PlanIsValid(s, checks) ==
  /\ s.failures = {}
  /\ CheckPaths \subseteq s.contract.protected
  /\ Len(checks) \in 1..MaxChecks
  /\ \A k \in DOMAIN checks : CheckIsValid(checks[k])
  /\ \A k, l \in DOMAIN checks : checks[k].id = checks[l].id => k = l
  /\ \A k \in DOMAIN checks :
       checks[k].tool = "pytest" =>
         checks[k].targets \subseteq s.contract.protected \cap DOMAIN s.contract.base

\* _validate_tree.  No file may be a directory of another one, in any letter
\* case.
TreeIsValid(files) ==
  /\ DOMAIN files # {}
  /\ NoCaseCollision(DOMAIN files)
  /\ DOMAIN files \cap Unmountable = {}
  /\ \A p, q \in DOMAIN files : \A d \in Directories[p] : Fold[q] # Fold[d]

\* What _observe_tree and the comparison say of a tree that was written to: a
\* link, an unusual path or a file that is too large is invalid, and any other
\* change is another tree.
AlteredCodes == {"candidate_tree_digest_mismatch", "candidate_input_invalid"}

\* run_trusted_checks up to the workspace; anything else raises.
RunIsAccepted(p, c, e, i) ==
  /\ Verifiable(c, e, i)
  /\ StructuralReceipt(c, e, i) = p.structural
  /\ TreeIsValid(c.base)
  /\ TreeIsValid(Overlay(c.base, i.payload))
  /\ \A k \in DOMAIN p.checks :
       p.checks[k].targets \subseteq DOMAIN Overlay(c.base, i.payload)

------------------------------------------------------------------------------
(* adversarial_verifier.py: the value profile *)

ValuePath == "value.txt"
PublicPath == "test_public_value.py"
HeldOutPath == "test_exact_value.py"

ValueProtected ==
  CheckPaths \cup {"adversarial_verifier.py", PublicPath, HeldOutPath}

\* create_public_value_contract
ValueContract(request, sha) ==
  [id |-> "value", request |-> request, sha |-> sha,
   base |-> [p \in {ValuePath, PublicPath} |->
               IF p = ValuePath THEN "1" ELSE "public check"],
   allowed |-> {ValuePath}, required |-> {ValuePath},
   protected |-> ValueProtected]

PublicCheck == TrustedCheck("public-value", "pytest", {PublicPath})
HeldOutCheck == TrustedCheck("held-out-value", "pytest", {HeldOutPath})

\* create_public_value_plan, as HeldOutScenario compares it
IsValuePlan(p) ==
  /\ p.structural.contract =
       ValueContract(p.structural.contract.request, p.structural.contract.sha)
  /\ p.checks = <<PublicCheck>>

\* _prepare: the same payload on a base that also holds the held-out check
HeldOutContract(c) ==
  [c EXCEPT !.id = "value-held-out",
            !.base = Overlay(c.base, [p \in {HeldOutPath} |-> "held-out check"])]

HeldOutPlan(c, e, i) ==
  [structural |-> StructuralReceipt(HeldOutContract(c), e, i),
   checks |-> <<HeldOutCheck>>]
------------------------------------------------------------------------------
(* check_runtime.py: the containers of a run *)

Exits == {"zero", "low", "high", "oom"}   \* 0, 1 to 5, above, and 0 but OOMKilled

ContainerStates ==
  {"absent", "pending", "created", "starting", "running"} \cup Exits

\* The result of a check before anything is known about it.
Fresh ==
  [verified |-> FALSE, performed |-> FALSE, terminated |-> FALSE, cleaned |-> FALSE,
   complete |-> FALSE, exit |-> "none", failures |-> {}]

\* No run_trusted_checks in progress.
NoRun == [step |-> "none"]

At(step) == run.step = step

CheckInit ==
  /\ stage = "idle"
  /\ plan = Absent /\ run = NoRun /\ verdict = "none"
  /\ receipts = << >>
  /\ container = [n \in Workspaces \X (1..MaxChecks) |-> "absent"]
  /\ workspace = [w \in Workspaces |-> "none"]
  /\ ended = {} /\ spoiled = {}

\* create_trusted_check_plan
CreatePlan(c, e, i, checks) ==
  /\ stage = "idle"
  /\ Verifiable(c, e, i)
  /\ PlanIsValid(StructuralReceipt(c, e, i), checks)
  /\ plan' = [structural |-> StructuralReceipt(c, e, i), checks |-> checks]
  /\ stage' = "planned"
  /\ UNCHANGED <<run, receipts, verdict, container, workspace, ended, spoiled>>

\* The private workspace exists and the run goes on to fill it.
Begin(p, c, i) ==
  LET w == Len(receipts) + 1 IN
  /\ run' = [plan |-> p, ws |-> w, candidate |-> Overlay(c.base, i.payload),
             step |-> "materialize", index |-> 1, results |-> << >>, codes |-> {},
             cur |-> Fresh]
  /\ workspace' = [workspace EXCEPT ![w] = "empty"]

\* run_trusted_checks, called with any contract and evidence
RunTrustedChecks(c, e, i) ==
  /\ stage = "planned"
  /\ At("none")
  /\ RunIsAccepted(plan, c, e, i)
  /\ Begin(plan, c, i)
  /\ UNCHANGED <<stage, plan, receipts, verdict, container, ended, spoiled>>

Name == <<run.ws, run.index>>

\* The checks are over; what is left is to remove the workspace.
GiveUp(code) == run' = [run EXCEPT !.step = "remove", !.codes = @ \cup {code}]

\* This check has failed at this point; the finally block comes next.
FailCheck(step, code) ==
  run' = [run EXCEPT !.step = step, !.cur.failures = @ \cup {code}]

\* _materialize, which looks at the tree it wrote; somebody may have written
\* there, too.
Materialize ==
  /\ At("materialize")
  /\ \/ IF run.candidate = run.plan.structural.tree
        THEN /\ workspace' = [workspace EXCEPT ![run.ws] = "candidate"]
             /\ run' = [run EXCEPT !.step = "image"]
        ELSE GiveUp("candidate_tree_digest_mismatch") /\ UNCHANGED workspace
     \/ /\ run.ws \in Exposed
        /\ workspace' = [workspace EXCEPT ![run.ws] = "altered"]
        /\ \E code \in AlteredCodes : GiveUp(code)
     \/ /\ GiveUp("execution_uncertain")
        /\ UNCHANGED workspace
  /\ UNCHANGED <<stage, plan, receipts, verdict, container, ended, spoiled>>

\* _DockerCli and _image, which raise out of the generator
InspectImage ==
  /\ At("image")
  /\ \/ run' = [run EXCEPT !.step = "create"]
     \/ \E code \in {"execution_uncertain", "containment_unproven"} : GiveUp(code)
  /\ UNCHANGED <<stage, plan, receipts, verdict, container, workspace, ended, spoiled>>

\* docker create.  When it fails or times out the daemon may have made the
\* container, or make it later.
Create ==
  /\ At("create")
  /\ \/ FailCheck("stop", "check_timeout") /\ UNCHANGED container
     \/ /\ container' = [container EXCEPT ![Name] = "created"]
        /\ run' = [run EXCEPT !.step = "inspect", !.cur.verified = TRUE]
     \/ /\ \E s \in {"absent", "pending", "created"} :
             container' = [container EXCEPT ![Name] = s]
        /\ FailCheck("stop", "execution_uncertain")
  /\ UNCHANGED <<stage, plan, receipts, verdict, workspace, ended, spoiled>>

\* _inspect, _verify_container and the last look at the tree; then docker start
\* is sent, unless it cannot even be called.
InspectAndStart ==
  /\ At("inspect")
  /\ \/ /\ \E code \in {"execution_uncertain", "containment_unproven", "check_timeout"} :
             FailCheck("stop", code)
        /\ UNCHANGED container
     \/ /\ workspace[run.ws] # "candidate"
        /\ \E code \in AlteredCodes : FailCheck("stop", code)
        /\ UNCHANGED container
     \/ /\ workspace[run.ws] = "candidate"
        /\ FailCheck("settle", "execution_uncertain")
        /\ UNCHANGED container
     \/ /\ workspace[run.ws] = "candidate"
        /\ container' = [container EXCEPT ![Name] = "starting"]
        /\ run' = [run EXCEPT !.step = "collect"]
  /\ UNCHANGED <<stage, plan, receipts, verdict, workspace, ended, spoiled>>

\* _collect returns: the attached client ended, or was given up.  It ends with
\* the container's exit code, but also, with one of its own that is as low, when
\* its connection breaks, whatever the container does then, or when the start
\* was refused.
Collect ==
  /\ At("collect")
  /\ \/ /\ run' = [run EXCEPT !.step = "settle", !.cur.complete = TRUE]
        /\ UNCHANGED <<container, ended>>
     \/ /\ container[Name] = "starting"
        /\ container' = [container EXCEPT ![Name] = "created"]
        /\ run' = [run EXCEPT !.step = "settle", !.cur.complete = TRUE]
        /\ UNCHANGED ended
     \/ /\ \E code \in {"check_timeout", "execution_uncertain"} : FailCheck("settle", code)
        /\ UNCHANGED <<container, ended>>
     \/ /\ container[Name] \in {"running"} \cup Exits
        /\ FailCheck("settle", "output_bound_exceeded")
        /\ ended' = ended \cup {<<Name, "overflow">>}
        /\ UNCHANGED container
  /\ UNCHANGED <<stage, plan, receipts, verdict, workspace, spoiled>>

\* docker stop, then kill: a running container is ended by the signal or is not.
Stopped(s) == IF s = "running" THEN {"running", "high"} ELSE {s}

EndedWith(s) == IF s # container[Name] THEN {<<Name, s>>} ELSE {}

\* What the state of the container adds to the failures.
StateFailures(s) ==
  (IF s \notin {"zero", "low", "high"} THEN {"execution_uncertain"} ELSE {})
  \cup (IF s \in {"low", "high"} THEN {"check_nonzero_exit"} ELSE {})

\* After _collect: stop the container if that failed, and read how it ended.
\* Docker shows the exit code 0 for a container that has not ended.
Settle ==
  /\ At("settle")
  /\ \E s \in IF run.cur.failures = {} THEN {container[Name]} ELSE Stopped(container[Name]) :
       /\ container' = [container EXCEPT ![Name] = s]
       /\ ended' = ended \cup EndedWith(s)
       /\ \/ run' = [run EXCEPT
                       !.step = "stop",
                       !.cur.performed = s \in {"running"} \cup Exits,
                       !.cur.terminated = s \in Exits,
                       !.cur.exit = IF s \in {"low", "high"} THEN s ELSE "zero",
                       !.cur.failures = @ \cup StateFailures(s)]
          \/ FailCheck("stop", "execution_uncertain")
  /\ UNCHANGED <<stage, plan, receipts, verdict, workspace, spoiled>>

\* _stop in the finally block.  An OSError there leaves the finally block, and
\* no result is made of this check.
StopInFinally ==
  /\ At("stop")
  /\ \/ /\ run.cur.terminated
        /\ run' = [run EXCEPT !.step = "clean"]
        /\ UNCHANGED <<container, ended>>
     \/ /\ ~run.cur.terminated
        /\ \E s \in Stopped(container[Name]) :
             /\ container' = [container EXCEPT ![Name] = s]
             /\ ended' = ended \cup EndedWith(s)
             /\ \/ /\ s \in {"created", "starting"} \cup Exits
                   /\ run' = [run EXCEPT !.step = "clean", !.cur.terminated = TRUE]
                \/ FailCheck("clean", "execution_uncertain")
     \/ /\ ~run.cur.terminated
        /\ GiveUp("execution_uncertain")
        /\ UNCHANGED <<container, ended>>
  /\ UNCHANGED <<stage, plan, receipts, verdict, workspace, spoiled>>

\* TrustedCheckResult
ResultIsCoherent(r) ==
  /\ r.failures = {} =>
       r.performed /\ r.exit = "zero" /\ r.complete /\ r.terminated /\ r.cleaned
  /\ r.cleaned \/ "cleanup_uncertain" \in r.failures
  /\ r.terminated \/ "execution_uncertain" \in r.failures
  /\ r.complete \/ r.failures \cap {"output_bound_exceeded", "execution_uncertain",
                                    "check_timeout"} # {}

\* The result of this check, and whether there is a next one.
Report(cleaned) ==
  LET swept == run.cur.failures \cup (IF cleaned THEN {} ELSE {"cleanup_uncertain"})
      failures ==
        IF run.cur.complete \/ swept \cap {"check_timeout", "output_bound_exceeded",
                                           "execution_uncertain"} # {}
        THEN swept ELSE swept \cup {"execution_uncertain"}
      result == [run.cur EXCEPT !.cleaned = cleaned, !.failures = failures]
      last == failures # {} \/ run.index = Len(run.plan.checks)
  IN IF ~ResultIsCoherent(result) THEN GiveUp("invalid_plan")
     ELSE run' = [run EXCEPT !.results = Append(@, result),
                             !.codes = @ \cup failures,
                             !.index = IF last THEN @ ELSE @ + 1,
                             !.cur = Fresh,
                             !.step = IF last THEN "observe" ELSE "create"]

\* A listing without the container counts, whoever created it.
CleanUpByName ==
  /\ At("clean")
  /\ \/ /\ container[Name] \in {"absent", "pending"}
        /\ Report(TRUE) /\ UNCHANGED container
     \/ /\ container[Name] # "pending"
        /\ container' = [container EXCEPT ![Name] = "absent"]
        /\ Report(TRUE)
     \/ Report(FALSE) /\ UNCHANGED container
     \/ GiveUp("execution_uncertain") /\ UNCHANGED container
  /\ UNCHANGED <<stage, plan, receipts, verdict, workspace, ended, spoiled>>

\* _cleanup_container: removal is confirmed only when the create was.  As
\* before, an OSError leaves the finally block.
CleanUp ==
  /\ At("clean")
  /\ \/ /\ run.cur.verified
        /\ container' = [container EXCEPT ![Name] = "absent"]
        /\ Report(TRUE)
     \/ /\ \E s \in {container[Name]} \cup (IF container[Name] = "pending" THEN {} ELSE {"absent"}) :
             container' = [container EXCEPT ![Name] = s]
        /\ Report(FALSE)
     \/ GiveUp("execution_uncertain") /\ UNCHANGED container
  /\ UNCHANGED <<stage, plan, receipts, verdict, workspace, ended, spoiled>>

\* The tree is taken to be what it was before the checks.
ObserveNothing ==
  /\ At("observe")
  /\ run' = [run EXCEPT !.step = "remove"]
  /\ UNCHANGED <<stage, plan, receipts, verdict, container, workspace, ended, spoiled>>

\* The last _observe_tree of run_trusted_checks
Observe ==
  /\ At("observe")
  /\ \/ /\ workspace[run.ws] = "candidate"
        /\ run' = [run EXCEPT !.step = "remove"]
     \/ /\ workspace[run.ws] # "candidate"
        /\ \E code \in AlteredCodes : GiveUp(code)
     \/ GiveUp("execution_uncertain")
  /\ UNCHANGED <<stage, plan, receipts, verdict, container, workspace, ended, spoiled>>

\* _status
CheckStatus(codes) ==
  IF codes \cap {"execution_uncertain", "cleanup_uncertain", "containment_unproven"} # {}
  THEN "checks_uncertain"
  ELSE IF "check_timeout" \in codes THEN "checks_timed_out"
  ELSE IF codes # {} THEN "checks_failed" ELSE "checks_passed"

\* TrustedCheckExecutionReceipt
ExecutionReceipt(codes, removed) ==
  [plan |-> run.plan, ws |-> run.ws, results |-> run.results, codes |-> codes,
   status |-> CheckStatus(codes),
   cleaned |-> removed /\ \A k \in DOMAIN run.results : run.results[k].cleaned]

\* _remove_workspace and the receipt
RemoveWorkspace ==
  /\ At("remove")
  /\ \E removed \in BOOLEAN :
       LET found == run.codes \cup (IF removed THEN {} ELSE {"cleanup_uncertain"})
           codes == IF found = {} /\ Len(run.results) # Len(run.plan.checks)
                    THEN {"execution_uncertain"} ELSE found
       IN /\ workspace' = [workspace EXCEPT ![run.ws] = IF removed THEN "none" ELSE @]
          /\ receipts' = Append(receipts, ExecutionReceipt(codes, removed))
  /\ run' = NoRun
  /\ stage' = IF stage = "planned" THEN "checked" ELSE stage
  /\ UNCHANGED <<plan, verdict, container, ended, spoiled>>
------------------------------------------------------------------------------
(* adversarial_verifier.py: the held-out runs *)

Unsettled(r) == r.status \in {"checks_uncertain", "checks_timed_out"}

\* select_held_out_scenario and _prepare: the public receipt is of the value
\* profile, and the evidence is what it was about.
RunAdversarial(e, i) ==
  LET c == plan.structural.contract IN
  /\ stage = "checked"
  /\ IsValuePlan(plan)
  /\ Verifiable(c, e, i)
  /\ StructuralReceipt(c, e, i) = plan.structural
  /\ Verifiable(HeldOutContract(c), e, i)
  /\ PlanIsValid(HeldOutPlan(c, e, i).structural, <<HeldOutCheck>>)
  /\ plan' = HeldOutPlan(c, e, i)
  /\ stage' = "held"
  /\ UNCHANGED <<run, receipts, verdict, container, workspace, ended, spoiled>>

\* outcome_sha256
RunOutcome(r) ==
  <<r.codes, [k \in DOMAIN r.results |-> <<r.results[k].exit, r.results[k].failures>>]>>

\* The failure codes of _classify, of the public receipt and the held-out ones
AdversarialFailures(public, held) ==
  LET all == {public} \cup ToSet(held)
      failed == \E r \in ToSet(held) : r.status # "checks_passed"
      holds ==
        [public_check_failed |-> public.status # "checks_passed",
         adversarial_evidence_uncertain |->
           Len(held) # RepeatCount \/ \E r \in all : Unsettled(r) \/ ~r.cleaned,
         held_out_check_failed |-> failed,
         repeat_verification_failed |-> failed,
         public_private_outcome_diverged |-> failed /\ public.status = "checks_passed",
         nondeterministic_outcome |-> Cardinality({RunOutcome(r) : r \in ToSet(held)}) > 1]
  IN {code \in DOMAIN holds : holds[code]}

\* A classification that looks only at the runs there are.
ClassificationOfRuns(public, held) ==
  IF public.status = "checks_passed" /\ \A k \in DOMAIN held : held[k].status = "checks_passed"
  THEN "passed" ELSE "failed"

Classification(public, held) ==
  LET failures == AdversarialFailures(public, held) IN
  IF failures = {} THEN "passed"
  ELSE IF "adversarial_evidence_uncertain" \in failures THEN "uncertain" ELSE "failed"

\* The loop of run_adversarial_verification: another run, or the receipt.  A run
\* that is refused, or has no workspace, raises: no receipt is made of the rest.
HeldOutLoop ==
  LET held == Tail(receipts)
      s == plan.structural
      over == \/ Len(held) = RepeatCount
              \/ Unsettled(Last(receipts))
              \/ ~Head(receipts).cleaned
  IN /\ stage = "held"
     /\ At("none")
     /\ \/ /\ over
           /\ verdict' = Classification(Head(receipts), held)
           /\ stage' = "done"
           /\ UNCHANGED <<run, workspace>>
        \/ /\ ~over
           /\ RunIsAccepted(plan, s.contract, s.exec, s.intake)
           /\ Begin(plan, s.contract, s.intake)
           /\ UNCHANGED <<stage, verdict>>
        \/ /\ ~over
           /\ stage' = "done"
           /\ UNCHANGED <<verdict, run, workspace>>
     /\ UNCHANGED <<plan, receipts, container, ended, spoiled>>

------------------------------------------------------------------------------
(* The daemon, the containers and the other processes of the user. *)

\* A late create or start is carried out, and a running container ends.
DaemonStep(n) ==
  /\ \/ /\ container[n] = "pending"
        /\ container' = [container EXCEPT ![n] = "created"]
        /\ UNCHANGED <<ended, spoiled>>
     \/ /\ container[n] = "starting"
        /\ container' = [container EXCEPT ![n] = "running"]
        /\ spoiled' = spoiled \cup (IF workspace[n[1]] = "altered" THEN {n[1]} ELSE {})
        /\ UNCHANGED ended
     \/ /\ container[n] = "running"
        /\ \E x \in Exits :
             /\ container' = [container EXCEPT ![n] = x]
             /\ ended' = ended \cup {<<n, x>>}
        /\ UNCHANGED spoiled
  /\ UNCHANGED <<stage, plan, run, receipts, verdict, workspace>>

\* Somebody writes the workspace, once, and does not undo it.
Alter(w) ==
  /\ workspace[w] = "candidate"
  /\ workspace' = [workspace EXCEPT ![w] = "altered"]
  /\ spoiled' = spoiled \cup
       (IF \E k \in 1..MaxChecks : container[<<w, k>>] = "running" THEN {w} ELSE {})
  /\ UNCHANGED <<stage, plan, run, receipts, verdict, container, ended>>

CheckStep ==
  \/ Materialize \/ InspectImage \/ Create \/ InspectAndStart \/ Collect \/ Settle
  \/ StopInFinally \/ CleanUp \/ Observe \/ RemoveWorkspace \/ HeldOutLoop

\* What may be asked for, with anything at all as its arguments.
CheckRequest ==
  \/ /\ stage = "idle"
     /\ \E c \in Contracts, e \in WorkerReceipts, i \in ArtifactIntakes, checks \in CheckLists :
          CreatePlan(c, e, i, checks)
  \/ /\ stage = "planned" /\ At("none")
     /\ \E c \in Contracts, e \in WorkerReceipts, i \in ArtifactIntakes :
          RunTrustedChecks(c, e, i)
  \/ /\ stage = "checked"
     /\ \E e \in WorkerReceipts, i \in ArtifactIntakes : RunAdversarial(e, i)

CheckNext ==
  \/ CheckRequest
  \/ CheckStep
  \/ \E n \in DOMAIN container : DaemonStep(n)
  \/ \E w \in Exposed : Alter(w)

CheckSpec == CheckInit /\ [][CheckNext]_checkVars

------------------------------------------------------------------------------

\* The confirmed cleanup of a check, and a status that is not uncertain, are
\* true, then and later, although commands time out and are carried out late and
\* results are lost in the finally block: the container of a check whose cleanup is confirmed is gone and cannot
\* appear again, and a receipt that is not uncertain leaves no container of any
\* of its checks and no workspace.
CleanupClaimsAreTrue ==
  \A r \in ToSet(receipts) :
    /\ \A k \in DOMAIN r.results :
         r.results[k].cleaned => container[<<r.ws, k>>] = "absent"
    /\ r.status # "checks_uncertain" =>
         /\ \A k \in 1..MaxChecks : container[<<r.ws, k>>] = "absent"
         /\ workspace[r.ws] = "none"

\* checks_passed is earned: every check of the plan ran to the exit code 0 on
\* the candidate's own bytes, and the candidate is the trusted base with the
\* artifacts this worker execution handed in, all of them where the contract
\* allows, every required change among them; none is a file the contract
\* protects, nor one of the registry or a protected one of the tree in another
\* letter case.
PassedIsEarned ==
  \A r \in ToSet(receipts) :
    r.status = "checks_passed" =>
      LET s == r.plan.structural IN
      /\ \A k \in DOMAIN r.plan.checks : <<<<r.ws, k>>, "zero">> \in ended
      /\ r.ws \notin spoiled
      /\ s.intake.exec = s.exec.id /\ s.exec.request = s.contract.request
      /\ s.tree = Overlay(s.contract.base, s.intake.recorded)
      /\ s.contract.required \subseteq s.changed /\ s.changed \subseteq s.contract.allowed
      /\ s.changed \cap s.contract.protected = {}
      /\ \A p \in s.changed, q \in Protected \cup (s.contract.protected \cap DOMAIN s.tree) :
           Fold[p] # Fold[q]

\* How a container of this workspace ended that tells against the candidate.
Counts(w) ==
  \E k \in 1..MaxChecks, x \in {"low", "high", "overflow"} : <<<<w, k>>, x>> \in ended

\* The verdict rests on what the candidate did: it passed only when the public
\* check and both repetitions of the held-out check passed, each in a workspace
\* of its own on the same artifacts, and it failed only when a check that ran
\* told against it or its workspace was written to - never
\* for a daemon that was slow or a removal that failed.
VerdictIsEarned ==
  LET held == Tail(receipts) IN
  /\ verdict = "passed" =>
       /\ Len(receipts) = 1 + RepeatCount
       /\ \A k, l \in DOMAIN receipts :
            /\ receipts[k].status = "checks_passed"
            /\ k # l => receipts[k].ws # receipts[l].ws
            /\ receipts[k].plan.structural.intake = receipts[l].plan.structural.intake
       /\ \A k \in DOMAIN held : HeldOutPath \in DOMAIN held[k].plan.structural.tree
  /\ verdict = "failed" =>
       \E r \in ToSet(receipts) :
         Counts(r.ws) \/ r.codes \cap AlteredCodes # {}
==============================================================================
