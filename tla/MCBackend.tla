------------------------------ MODULE MCBackend ------------------------------
(***************************************************************************)
(* ToolOperations, Composition and Startup for TLC, three parts of the     *)
(* backend that share no state: a behaviour is one of the approval queue,  *)
(* of a mission or of the database.                                        *)
(*                                                                         *)
(* ToolOperations: one operation, two racing requests, a changed tool      *)
(* version, a clock that passes the expiry, storage faults at every        *)
(* transaction and restarts.                                               *)
(*                                                                         *)
(* Composition: the ADR-040 mission, five departures from it that can be   *)
(* written down, and releases of the two tools that matter most.  The      *)
(* limit of tasks.list is 1, so that a project can have more tasks than    *)
(* it lists.  Startup: a process of the newest release and one of the      *)
(* release before it, on a new file or on one of the release before both.  *)
(***************************************************************************)
EXTENDS ToolOperations, Composition, Startup

VARIABLE part   \* which of the three this behaviour is about

MCProjectNames == {1, 2, 3}
MCFirstProjects == {1, 2}
MCBudget == [calls |-> 5, identical |-> 2, failures |-> 2]

Selected == ResultBinding("overview", "projects", "select_project")

MCStep(id, capability, tool, risk, bindings, prerequisites, outputs) ==
  [id |-> id, capability |-> capability, tool |-> tool, risk |-> risk,
   bindings |-> bindings, prerequisites |-> prerequisites, outputs |-> outputs]

Overview ==
  MCStep("overview", "projects.insight", "projects.overview", ReadOnly,
         << >>, {}, [projects |-> "array"])
Summary ==
  MCStep("summary", "tasks.status_insight", "tasks.status_summary", ReadOnly,
         [project |-> Selected], {"overview"}, [open |-> "integer"])
List ==
  MCStep("list", "tasks.manage", "tasks.list", ReadOnly,
         [project |-> Selected, limit |-> LiteralBinding(1, "integer")],
         {"overview", "summary"}, [count |-> "integer"])
Search ==
  MCStep("search", "memory.recall", "memory.search", ReadOnly,
         [query |-> Selected], {"overview", "list"}, << >>)
Create ==
  MCStep("create", "tasks.manage", "tasks.create", InternalWrite,
         [project |-> Selected, title |-> ResultBinding("summary", "open", "fixed_title")],
         {"overview", "summary", "search"}, << >>)

MCMission(steps) == [steps |-> steps, budget |-> MCBudget]

Baseline == MCMission(<<Overview, Summary, List, Search, Create>>)

\* The summary of a project the mission did not select.
OtherSummary ==
  MCMission(<<Overview, [Summary EXCEPT !.bindings = [project |-> LiteralBinding(2, "string")]],
              List, Search, Create>>)

\* A limit the schema does not allow: found out only when the step runs.
WideList ==
  MCMission(<<Overview, Summary,
              [List EXCEPT !.bindings.limit = LiteralBinding(3, "integer")],
              Search, Create>>)

\* A search for something else, and a task filed under no project.
OtherSearch ==
  MCMission(<<Overview, Summary, List,
              [Search EXCEPT !.bindings = [query |-> LiteralBinding(2, "string")]], Create>>)
Unfiled ==
  MCMission(<<Overview, Summary,
              [List EXCEPT !.bindings = [project |-> Selected]], Search,
              [Create EXCEPT !.bindings =
                 [title |-> ResultBinding("list", "count", "fixed_title")],
                 !.prerequisites = @ \cup {"list"}]>>)

\* An accepted proposal that no registry can bind: it declares no result.
Undeclared == MCMission(<<Overview, [Summary EXCEPT !.outputs = << >>], List, Search, Create>>)

\* Proposals that cannot exist.
Cyclic ==
  MCMission(<<[Overview EXCEPT !.prerequisites = {"create"}], Summary, List, Search, Create>>)
Unordered == MCMission(<<Overview, [Summary EXCEPT !.prerequisites = {}], List, Search, Create>>)
Unbudgeted == [Baseline EXCEPT !.budget.calls = 6]

MCProposals ==
  [baseline |-> Baseline, otherSummary |-> OtherSummary, wideList |-> WideList,
   otherSearch |-> OtherSearch, unfiled |-> Unfiled, undeclared |-> Undeclared,
   cyclic |-> Cyclic, unordered |-> Unordered, unbudgeted |-> Unbudgeted]

ASSUME \A p \in {Cyclic, Unordered, Unbudgeted} : ~ProposalAccepted(p)

MCTool(risk, capability, dependsOn, required, properties) ==
  [version |-> 1, risk |-> risk, capabilities |-> {capability}, dependsOn |-> dependsOn,
   closed |-> TRUE, required |-> required, properties |-> properties, maximum |-> 2]

MCRegistry ==
  [t \in BaselineTools |->
    CASE t = "projects.overview" ->
           MCTool(ReadOnly, "projects.insight", {}, {}, [project |-> "string"])
      [] t = "tasks.status_summary" ->
           MCTool(ReadOnly, "tasks.status_insight", {"tasks.list"}, {}, [project |-> "string"])
      [] t = "tasks.list" ->
           MCTool(ReadOnly, "tasks.manage", {}, {},
                  [status |-> "string", project |-> "string", limit |-> "integer"])
      [] t = "memory.search" ->
           MCTool(ReadOnly, "memory.recall", {}, {"query"},
                  [query |-> "string", project |-> "string", limit |-> "integer"])
      [] t = "tasks.create" ->
           MCTool(InternalWrite, "tasks.manage", {}, {"title"},
                  [title |-> "string", project |-> "string"])]

\* A new version, and the same version with a narrower schema.
MCReleases ==
  [t \in {"tasks.list", "tasks.create"} |->
     {[MCRegistry[t] EXCEPT !.version = 2], [MCRegistry[t] EXCEPT !.maximum = 0]}]

----------------------------------------------------------------------------

MCLatest == [old |-> 6, new |-> 7]

MCVars == <<vars, compositionVars, startupVars, part>>

MCInit ==
  /\ part \in {"operations", "mission", "startup"}
  /\ Init /\ CompositionInit /\ StartupInit
  /\ part # "operations" => registry = CHOOSE v \in Versions : TRUE
  /\ part # "startup" => db = NoDatabase

Operations(step) ==
  part = "operations" /\ step /\ UNCHANGED <<compositionVars, startupVars, part>>
Boots(step) ==
  part = "startup" /\ step /\ UNCHANGED <<vars, compositionVars, part>>

MCNext ==
  \/ part = "operations" /\ Next /\ UNCHANGED <<compositionVars, startupVars, part>>
  \/ part = "mission" /\ CompositionNext /\ UNCHANGED <<vars, startupVars, part>>
  \/ part = "startup" /\ StartupNext /\ UNCHANGED <<vars, compositionVars, part>>

\* The fairness of the three specifications.
MCSpec ==
  /\ MCInit /\ [][MCNext]_MCVars
  /\ \A r \in Reqs : WF_MCVars(Operations(Step(r)))
  /\ \A p \in Procs : WF_MCVars(Boots(BootStep(p)))
=============================================================================
