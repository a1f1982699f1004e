----------------------------- MODULE Composition -----------------------------
(***************************************************************************)
(* A V0.4D composition mission (backend/composition_runtime.py and         *)
(* composition_receipt.py): a plan bound to the Tool Registry is run step  *)
(* by step, four reads of a database other people keep changing and one    *)
(* frozen write; a human decides that write later, when the registry may   *)
(* no longer be the planned one, and receipts may be drawn at any time.    *)
(*                                                                         *)
(* The decision itself is backend/tool_operations.py, of which             *)
(* ToolOperations shows that it implements OperationContract: here it is   *)
(* the contract's moves, with the version check of approve_operation.      *)
(* A project is a number, its place in the order of normalised names.      *)
(* Runs are never deleted, so a receipt always finds the read Runs.        *)
(***************************************************************************)
EXTENDS CompositionPlan, FiniteSetsExt

CONSTANTS Proposals,       \* mission id -> the proposal written down for it
          Releases,        \* tool name -> the definitions a release may ship
          FirstRegistry,   \* the registry of the first process
          ProjectNames,    \* the projects that may exist
          FirstProjects,   \* and the ones that do at first
          MaxEntries,      \* MAX_PROJECT_ENTRIES
          DefaultLimit,    \* TASKS_LIST_DEFAULT_LIMIT
          MaxOpen,         \* bound: open tasks of a project
          MaxTaskEvents,   \* bound: tasks and projects changed by others
          MaxDeploys       \* bound: registry changes

ASSUME CompositionAssumption ==
  /\ FirstProjects \subseteq ProjectNames /\ ProjectNames \subseteq Nat \ {0}
  /\ {MaxEntries, DefaultLimit, MaxOpen, MaxTaskEvents, MaxDeploys} \subseteq Nat

\* Every release of tasks.list declares limit as a bounded integer.
ListSchema(definition) ==
  "limit" \in DOMAIN definition.properties =>
    definition.properties["limit"] = "integer" /\ definition.maximum \in Nat

ASSUME RegistryAssumption ==
  /\ "tasks.list" \in DOMAIN FirstRegistry => ListSchema(FirstRegistry["tasks.list"])
  /\ "tasks.list" \in DOMAIN Releases => \A d \in Releases["tasks.list"] : ListSchema(d)

VARIABLES open,       \* existing project -> how many open tasks it has
          tools,      \* the registry: registered tool -> its definition
          mission,    \* the mission whose proposal exists, or "none"
          plan,       \* the tool facts it is bound to, or NoPlan
          run,        \* the mission run
          opStatus,   \* the write operation, as in OperationContract
          opWrites,   \* and how often its tool wrote
          operation,  \* its frozen call, or NoCall
          receipt,    \* the status the last receipt reported, or "none"
          seen,       \* history: the world at the reads, and what ran
          events, deploys

worldVars == <<open, events>>
planVars == <<mission, plan>>
operationVars == <<opStatus, opWrites, operation>>
compositionVars ==
  <<open, tools, mission, plan, run, opStatus, opWrites, operation, receipt,
    seen, events, deploys>>

Write == "tasks.create"

Queue == INSTANCE OperationContract WITH Ops <- {Write}, status <- opStatus, writes <- opWrites

\* A dictionary with an entry stored in it.
Put(f, key, value) == [k \in DOMAIN f \cup {key} |-> IF k = key THEN value ELSE f[k]]

NoPlan == <<"none">>
NoCall == [tool |-> "none"]

Idle ==
  [status |-> "none", step |-> 0, results |-> << >>, steps |-> << >>,
   processed |-> 0, executed |-> 0, counted |-> << >>,
   selected |-> 0, openCount |-> 0]

CompositionInit ==
  /\ open = [p \in FirstProjects |-> 0]
  /\ tools = FirstRegistry
  /\ mission = "none"
  /\ plan = NoPlan
  /\ run = Idle
  /\ Queue!Init
  /\ operation = NoCall
  /\ receipt = "none"
  /\ seen = [overview |-> << >>, list |-> 0, limit |-> 0, ran |-> NoCall]
  /\ events = 0
  /\ deploys = 0

----------------------------------------------------------------------------
(* Everybody else: tasks and projects change, releases replace tools.      *)

OpenTask(p) ==
  /\ events < MaxTaskEvents /\ open[p] < MaxOpen
  /\ open' = [open EXCEPT ![p] = @ + 1]
  /\ events' = events + 1
  /\ UNCHANGED <<tools, planVars, run, operationVars, receipt, seen, deploys>>

CloseTask(p) ==
  /\ events < MaxTaskEvents /\ open[p] > 0
  /\ open' = [open EXCEPT ![p] = @ - 1]
  /\ events' = events + 1
  /\ UNCHANGED <<tools, planVars, run, operationVars, receipt, seen, deploys>>

CreateProject(p) ==
  /\ events < MaxTaskEvents /\ p \notin DOMAIN open
  /\ open' = Put(open, p, 0)
  /\ events' = events + 1
  /\ UNCHANGED <<tools, planVars, run, operationVars, receipt, seen, deploys>>

Deploy(tool, definition) ==
  /\ deploys < MaxDeploys
  /\ tools' = Put(tools, tool, definition)
  /\ deploys' = deploys + 1
  /\ UNCHANGED <<worldVars, planVars, run, operationVars, receipt, seen>>

Unregister(tool) ==
  /\ deploys < MaxDeploys /\ tool \in DOMAIN tools
  /\ tools' = [t \in DOMAIN tools \ {tool} |-> tools[t]]
  /\ deploys' = deploys + 1
  /\ UNCHANGED <<worldVars, planVars, run, operationVars, receipt, seen>>

----------------------------------------------------------------------------
(* Planning.                                                               *)

\* The missions whose proposal can be built, now and each time a frozen
\* dataclass is built again to see whether it is authoritative.
Authoritative == {m \in DOMAIN Proposals : ProposalAccepted(Proposals[m])}

ProposeMission(m) ==
  /\ mission = "none"
  /\ m \in Authoritative
  /\ mission' = m
  /\ UNCHANGED <<worldVars, tools, plan, run, operationVars, receipt, seen, deploys>>

\* A plan that is not feasible is a value too; run_composition_mission
\* refuses it.
BindMission ==
  /\ mission # "none" /\ plan = NoPlan
  /\ plan' = BindFeasibility(Proposals[mission], tools).facts
  /\ UNCHANGED <<worldVars, tools, mission, run, operationVars, receipt, seen, deploys>>

StartMission ==
  /\ plan \notin {NoPlan, << >>} /\ run.status = "none"
  /\ run' = [Idle EXCEPT !.status = "running", !.step = 1]
  /\ UNCHANGED <<worldVars, tools, planVars, operationVars, receipt, seen, deploys>>

----------------------------------------------------------------------------
(* One step: its definition, its arguments, the budget.                    *)

Plan == [proposal |-> Proposals[mission], facts |-> plan]
Running == run.status = "running"
Proposed == Plan.proposal.steps[run.step]
Bound == plan[run.step]
IsWrite == run.step = Len(plan)

\* _select_project: most open tasks, then the first normalised name.
SelectProject(entries) ==
  LET greatest == Max({e.open : e \in entries}) IN
    Min({e.name : e \in {f \in entries : f.open = greatest}})

Transform(b, value) ==
  CASE b.transform = "exact_copy"      -> value
    [] b.transform = "select_project"  -> SelectProject(value)
    [] b.transform = "integer_to_text" -> <<"text", value>>
    [] b.transform = "fixed_title"     -> <<"follow up", run.selected, value>>

Argument(b) ==
  IF b.kind = "literal" THEN b.value ELSE Transform(b, run.results[b.step][b.field])

MaterializeArguments ==
  [a \in DOMAIN Proposed.bindings |-> Argument(Proposed.bindings[a])]

\* Reading a result that is not there, or an integer out of the schema's
\* range: validate_arguments raises.
ArgumentsAreValid ==
  \A a \in DOMAIN Proposed.bindings :
    LET b == Proposed.bindings[a] IN
      /\ b.kind = "result" => b.step \in DOMAIN run.results
      /\ Bound.properties[a] = "integer" => Argument(b) \in 1 .. Bound.maximum

\* allow_call: every tool is called once, so only the total can refuse.
BudgetAllows == run.processed < Plan.proposal.budget.calls

\* The risk of the step's tool is read again after this, and can no longer
\* differ: RegistryMatches compared it.
StepBlocked ==
  \/ ~RegistryMatches(Plan, tools)
  \/ ~ArgumentsAreValid
  \/ ~BudgetAllows

\* A step that reached the budget is recorded with its signature.
Recorded(outcome, performed) ==
  [run EXCEPT !.steps = Append(@, [status |-> outcome, performed |-> performed]),
              !.processed = @ + 1,
              !.executed = IF performed THEN @ + 1 ELSE @]

BlockMission ==
  /\ Running /\ StepBlocked
  /\ run' = IF RegistryMatches(Plan, tools) /\ ArgumentsAreValid
              THEN [Recorded("blocked", FALSE) EXCEPT !.status = "blocked"]
              ELSE [run EXCEPT !.status = "blocked"]
  /\ UNCHANGED <<worldVars, tools, planVars, operationVars, receipt, seen, deploys>>

----------------------------------------------------------------------------
(* The four reads.                                                         *)

Ready(tool) == Running /\ Proposed.tool = tool /\ ~StepBlocked

\* The executor raised: nothing was read and no Run of a success exists.
ReadFails ==
  /\ Running /\ ~StepBlocked /\ ~IsWrite
  /\ run' = [Recorded("failed", FALSE) EXCEPT !.status = "failed"]
  /\ UNCHANGED <<worldVars, tools, planVars, operationVars, receipt, seen, deploys>>

\* The tool succeeded; consistent says whether its result passed the checks.
ReadDone(result, consistent, checked) ==
  run' = IF consistent
           THEN [checked EXCEPT !.results = Put(@, Proposed.id, result), !.step = @ + 1]
           ELSE [Recorded("failed", TRUE) EXCEPT !.status = "failed"]

\* summarize_projects counts the tasks and lists the projects in separate
\* statements with no snapshot between them.
CountTasks ==
  /\ Ready("projects.overview") /\ run.counted = << >>
  /\ run' = [run EXCEPT !.counted = open]
  /\ seen' = [seen EXCEPT !.overview = open]
  /\ UNCHANGED <<worldVars, tools, planVars, operationVars, receipt, deploys>>

OverviewEntries ==
  {[name |-> p, open |-> IF p \in DOMAIN run.counted THEN run.counted[p] ELSE 0] :
     p \in DOMAIN open}

ReadOverview ==
  /\ Ready("projects.overview") /\ run.counted # << >>
  /\ LET entries == OverviewEntries
         truncated == Cardinality(entries) > MaxEntries
         selected == SelectProject(entries)
     IN ReadDone([projects |-> entries], ~truncated,
                 [Recorded("succeeded", TRUE) EXCEPT !.selected = selected])
  /\ UNCHANGED <<worldVars, tools, planVars, operationVars, receipt, seen, deploys>>

ProjectArgument == MaterializeArguments["project"]

\* _get_project_name raises for a project that does not exist.
ProjectExists == ProjectArgument \in DOMAIN open

ReadStatusSummary ==
  /\ Ready("tasks.status_summary") /\ ProjectExists
  /\ ReadDone([open |-> open[ProjectArgument]],
              ProjectArgument = run.selected,
              [Recorded("succeeded", TRUE) EXCEPT !.openCount = open[ProjectArgument]])
  /\ UNCHANGED <<worldVars, tools, planVars, operationVars, receipt, seen, deploys>>

LimitArgument ==
  IF "limit" \in DOMAIN MaterializeArguments
    THEN MaterializeArguments["limit"] ELSE DefaultLimit

UncheckedList(listed) == listed > 0 => ProjectArgument = run.selected

\* "task summary and list materially disagree"
ListAgrees(listed) ==
  /\ listed = run.openCount
  /\ listed > 0 => ProjectArgument = run.selected

\* Every proposal asks for the tasks of one project whose status is open.
ReadTaskList ==
  /\ Ready("tasks.list") /\ ProjectExists
  /\ LET listed == Min({open[ProjectArgument], LimitArgument}) IN
       ReadDone([count |-> listed], ListAgrees(listed), Recorded("succeeded", TRUE))
  /\ seen' = [seen EXCEPT !.list = open[ProjectArgument], !.limit = LimitArgument]
  /\ UNCHANGED <<worldVars, tools, planVars, operationVars, receipt, deploys>>

\* What memories there are decides nothing; the query must be the project.
ReadMemorySearch ==
  /\ Ready("memory.search")
  /\ ReadDone([count |-> 0], MaterializeArguments["query"] = run.selected,
              Recorded("succeeded", TRUE))
  /\ UNCHANGED <<worldVars, tools, planVars, operationVars, receipt, seen, deploys>>

----------------------------------------------------------------------------
(* The write, frozen for a human.                                          *)

\* The four columns the receipt binds, and the project the row is filed
\* under: arguments.get("project"), 0 when the call has none.
FrozenCall ==
  [tool |-> Proposed.tool, version |-> Bound.version,
   arguments |-> MaterializeArguments,
   project |-> IF "project" \in DOMAIN Proposed.bindings THEN ProjectArgument ELSE 0]

FreezeWrite ==
  /\ Ready(Write)
  /\ Queue!Move(Write, "absent", "pending")
  /\ operation' = FrozenCall
  /\ run' = [Recorded("pending", FALSE) EXCEPT !.status = "approval_pending"]
  /\ UNCHANGED <<worldVars, tools, planVars, receipt, seen, deploys>>

\* Mutant: the step that failed is not recorded.
FreezeFailsUnrecorded ==
  /\ Ready(Write)
  /\ run' = [run EXCEPT !.status = "failed"]
  /\ UNCHANGED <<worldVars, tools, planVars, operationVars, receipt, seen, deploys>>

FreezeFails ==
  /\ Ready(Write)
  /\ run' = [Recorded("failed", FALSE) EXCEPT !.status = "failed"]
  /\ UNCHANGED <<worldVars, tools, planVars, operationVars, receipt, seen, deploys>>

----------------------------------------------------------------------------
(* The decision, with the registry of that moment.                         *)

Decide(from, to) ==
  /\ Queue!Move(Write, from, to)
  /\ UNCHANGED <<worldVars, tools, planVars, run, operation, receipt, seen, deploys>>

RejectOrExpire == \E to \in {"rejected", "expired"} : Decide("pending", to)

ClaimWrite == Decide("pending", "executing")

LiveToolExists == operation.tool \in DOMAIN tools

LiveToolMatches ==
  /\ operation.tool \in DOMAIN tools
  /\ tools[operation.tool].version = operation.version

ExecuteWrite ==
  /\ Queue!Write(Write)
  /\ LiveToolMatches
  /\ seen' = [seen EXCEPT !.ran = tools[operation.tool]]
  /\ UNCHANGED <<worldVars, tools, planVars, run, operation, receipt, deploys>>

\* The tool is gone, has another version, or raised.
FailOperation == Decide("executing", "failed")

SucceedOperation ==
  /\ Queue!Succeed(Write)
  /\ UNCHANGED <<worldVars, tools, planVars, run, operation, receipt, seen, deploys>>

----------------------------------------------------------------------------
(* Receipts.                                                               *)

\* _OPERATION_TO_MISSION_STATUS
MissionStatus(s) ==
  [pending |-> "approval_pending", executing |-> "running",
   succeeded |-> "completed", rejected |-> "rejected", failed |-> "failed",
   expired |-> "expired"][s]

\* _validate_operation: the row is the one the run froze.  Its arguments are
\* only ever written by the freeze that gave the run their digest.
OperationIsBound ==
  /\ operation.tool = Write
  /\ operation.version = plan[Len(plan)].version
  /\ operation.project = run.selected

\* "terminal write Run is missing or inconsistent": the Run that an operation
\* which succeeded refers to is one of the planned version.  It had succeeded
\* before its operation could.
WriteRunIsBound ==
  opStatus[Write] = "succeeded" =>
    seen.ran # NoCall /\ seen.ran.version = plan[Len(plan)].version

CreateReceipt ==
  /\ run.status \in {"approval_pending", "blocked", "failed"}
  /\ run.status = "approval_pending" => OperationIsBound /\ WriteRunIsBound
  /\ receipt' = IF run.status = "approval_pending"
                  THEN MissionStatus(opStatus[Write]) ELSE run.status
  /\ UNCHANGED <<worldVars, tools, planVars, run, operationVars, seen, deploys>>

----------------------------------------------------------------------------

MissionStep ==
  \/ BlockMission \/ ReadFails \/ CountTasks \/ ReadOverview \/ ReadStatusSummary
  \/ ReadTaskList \/ ReadMemorySearch \/ FreezeWrite \/ FreezeFails

CompositionNext ==
  \/ \E p \in DOMAIN open : OpenTask(p) \/ CloseTask(p)
  \/ \E p \in ProjectNames : CreateProject(p)
  \/ \E t \in DOMAIN Releases : Unregister(t) \/ \E d \in Releases[t] : Deploy(t, d)
  \/ \E m \in DOMAIN Proposals : ProposeMission(m)
  \/ BindMission \/ StartMission \/ MissionStep
  \/ RejectOrExpire \/ ClaimWrite \/ ExecuteWrite \/ FailOperation \/ SucceedOperation
  \/ CreateReceipt

CompositionSpec == CompositionInit /\ [][CompositionNext]_compositionVars

----------------------------------------------------------------------------
(* Properties.                                                             *)

Ended == run.status \in {"approval_pending", "blocked", "failed"}

(* CompositionMissionRun checks itself when it is built, after the pending *)
(* operation has been committed: were the check ever to fail, the          *)
(* operation would be left with no run to name it.  Every way a mission    *)
(* ends satisfies it, so run_composition_mission never raises from there.  *)
RunAccountsForItsSteps ==
  Ended =>
    LET performed == {i \in DOMAIN run.steps : run.steps[i].performed}
        failed == \E i \in DOMAIN run.steps : run.steps[i].status = "failed" IN
      /\ run.processed = Len(run.steps)
      /\ run.executed = Cardinality(performed)
      /\ run.executed <= 4 /\ run.processed <= 5
      /\ run.status = "failed" <=> failed
      /\ run.status = "approval_pending" =>
           /\ run.processed = 5 /\ run.executed = 4
           /\ \A i \in 1 .. 4 : run.steps[i].status = "succeeded"
      /\ run.status = "approval_pending" <=> operation # NoCall

(* The write a human is asked to approve rests on what was really there:   *)
(* its mission selected a project no other one beat when the tasks were    *)
(* counted, and the number in its title was the number of open tasks when  *)
(* they were listed, whoever changed tasks in between -- except at the     *)
(* limit of the list, where more tasks than it can hold go unnoticed.      *)
FrozenWriteWasSeen ==
  operation # NoCall =>
    LET counted(p) == IF p \in DOMAIN seen.overview THEN seen.overview[p] ELSE 0 IN
      /\ \A p \in DOMAIN open : counted(p) <= counted(run.selected)
      /\ \/ seen.list = run.openCount
         \/ run.openCount = seen.limit /\ seen.list > seen.limit

(* Releases may come between any two steps of a mission and before its     *)
(* approval: what finally wrote is the version of tasks.create the plan    *)
(* was bound to.                                                           *)
OnlyPlannedVersionWrites ==
  opWrites[Write] > 0 => seen.ran.version = plan[Len(plan)].version
=============================================================================
