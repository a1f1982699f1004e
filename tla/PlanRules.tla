------------------------------ MODULE PlanRules ------------------------------
(***************************************************************************)
(* GP-B: the frozen task contract, its decomposition into an execution     *)
(* plan, the rules a plan must keep and the revision of a plan             *)
(* (gpb_task_contract.py, gpb_impact_evidence.py, gpb_decomposer.py,       *)
(* gpb_scope_rules.py, gpb_plan_revision.py), as operators.                *)
(*                                                                         *)
(* A path is the sequence of its segments.  Records are sealed, so two     *)
(* with the same digest are equal.  A node's id names the group of paths   *)
(* the node was made for.  Left out: texts, children and complexity, which *)
(* no rule reads, and the node types test and migrate, which no rule tells *)
(* from implement at the level they occur.                                 *)
(***************************************************************************)
EXTENDS Naturals, FiniteSets, Sequences
LOCAL INSTANCE SequencesExt
LOCAL INSTANCE Functions

CONSTANTS
  Unknown,     \* the owner of a path of which the system model names none
  Uncapped,    \* a budget that is None
  TestNames    \* file names that start with test_ or end with _test.py

MaxOps == 32
NoParent == << >>
GoalNode == <<"goal">>
InvestigationNode == <<"investigation">>
VerifyNode == <<"verify">>
SliceNode(group) == <<"slice", group>>
AtomicNode(group) == <<"atomic", group>>

\* The set of one element, if the condition holds.
When(x, condition) == IF condition THEN {x} ELSE {}

----------------------------------------------------------------------------
(* Contract and evidence                                                   *)
----------------------------------------------------------------------------

\* FrozenTaskContract.__post_init__
TaskContractAccepted(contract) ==
  /\ contract.allowed # {} /\ contract.acceptance # {}
  /\ contract.allowed \cap contract.forbidden = {}
  /\ contract.ceiling \in (Nat \ {0}) \cup {Uncapped}

\* collect_impact_evidence.  A system model made under another registry of
\* protected files names none: it is uncertain about every path.
CollectEvidence(model, registry, paths) ==
  [owners |-> {model.owner[p] : p \in paths},
   tcb |-> IF model.registry = registry THEN paths \cap registry ELSE {},
   uncertain |-> model.registry # registry]

----------------------------------------------------------------------------
(* gpb_scope_rules.py                                                      *)
----------------------------------------------------------------------------

\* A node that breaks this cannot be constructed.
NodeAccepted(id, node) ==
  /\ id \notin node.deps /\ node.parent # id
  /\ node.scope \cap node.forbidden = {}

\* check_node_against_contract
NodeViolations(contract, node, parentScope) ==
  When("forbidden_path_inclusion",
       \/ node.scope \cap contract.forbidden # {}
       \/ ~(contract.forbidden \subseteq node.forbidden))
  \cup
  When("new_path_outside_envelope",
       ~(node.scope \subseteq contract.allowed \cup contract.forbidden))
  \cup
  When("relaxed_acceptance",
       /\ node.level = "atomic" \/ node.type \in {"implement", "verify"}
       /\ node.acceptance # {}
       /\ node.acceptance \cap contract.acceptance = {})
  \cup
  When("parent_envelope_exceeded",
       /\ parentScope # {}
       /\ ~(node.scope \cap contract.allowed \subseteq parentScope))

\* What a plan's nodes depend on: stated by the nodes and by its edges.
Adjacency(nodes, edges) ==
  edges \cup UNION {{id} \X nodes[id].deps : id \in DOMAIN nodes}

\* There is a cycle if nodes remain when those that depend on no remaining
\* one are taken away again and again.
HasCycle(nodes, edges) ==
  LET adjacency == Adjacency(nodes, edges)
      Left[n \in Nat] ==
        IF n = 0 THEN DOMAIN nodes
        ELSE LET left == Left[n - 1] IN
             {id \in left : \E dep \in left : <<id, dep>> \in adjacency}
  IN  Left[Cardinality(DOMAIN nodes)] # {}

\* No scope, and so no bound, when the parent is not in the plan.
ParentScope(nodes, id) ==
  UNION {nodes[parent].scope : parent \in {nodes[id].parent} \cap DOMAIN nodes}

\* check_plan_nodes_against_contract
PlanViolations(contract, nodes, edges) ==
  When("out_of_scope_dependency",
       \/ \E e \in Adjacency(nodes, edges) : ~({e[1], e[2]} \subseteq DOMAIN nodes)
       \/ \E id \in DOMAIN nodes : nodes[id].parent \notin DOMAIN nodes \cup {NoParent})
  \cup When("cycle_detected", HasCycle(nodes, edges))
  \cup UNION {NodeViolations(contract, nodes[id], ParentScope(nodes, id)) :
                id \in DOMAIN nodes}

----------------------------------------------------------------------------
(* gpb_decomposer.py                                                       *)
----------------------------------------------------------------------------

\* _is_test_path
IsTestPath(path) == path[1] = "tests" \/ Last(path) \in TestNames
IsTestGroup(group) == \A path \in group : IsTestPath(path)

\* _group_paths_by_component: who owns which path is not kept, so several
\* owners give one group of tests and one of the rest, or a group per path.
Groups(evidence, paths) ==
  LET tests == {p \in paths : IsTestPath(p)} IN
  IF Cardinality(evidence.owners) = 1 THEN {paths}
  ELSE IF tests \notin {{}, paths} THEN {paths \ tests, tests}
  ELSE {{p} : p \in paths}

SensitiveTaxonomies ==
  {"tcb_adjacent_change", "security_sensitive_change",
   "migration_schema_change", "verifier_policy_sensitive_task"}
SimpleTaxonomies == {"narrow_bug_fix", "test_addition", "docs_spec_sync"}

EscalationReasons(contract, evidence) ==
  When("tcb_adjacent_scope", evidence.tcb # {})
  \cup When("ambiguous_or_unknown_ownership", Unknown \in evidence.owners)
  \cup When("taxonomy", contract.taxonomy \in SensitiveTaxonomies)

\* decompose_task_contract
Decompose(contract, evidence) ==
  LET investigation ==
        When(InvestigationNode,
             evidence.tcb # {} \/ Unknown \in evidence.owners \/ evidence.uncertain)
      simple == /\ Cardinality(contract.allowed) = 1 /\ evidence.tcb = {}
                /\ contract.taxonomy \in SimpleTaxonomies
      groups == Groups(evidence, contract.allowed)
      atomics == {AtomicNode(g) : g \in groups}
      slices == IF simple THEN {} ELSE {SliceNode(g) : g \in groups}
      verify == When(VerifyNode, contract.gates # {})
      AtomicDeps(group) ==
        investigation \cup
          IF IsTestGroup(group) THEN {AtomicNode(g) : g \in {h \in groups : ~IsTestGroup(h)}}
          ELSE {}
      Node(parent, level, type, deps, scope, acceptance) ==
        [parent |-> parent, level |-> level, type |-> type, deps |-> deps,
         scope |-> scope, forbidden |-> contract.forbidden, acceptance |-> acceptance]
      nodes ==
        [id \in {GoalNode} \cup investigation \cup slices \cup atomics \cup verify |->
          CASE id = GoalNode ->
                 Node(NoParent, "goal", "decompose", {}, contract.allowed, contract.acceptance)
            [] id = InvestigationNode ->
                 Node(GoalNode, "investigation", "investigate", {}, contract.allowed,
                      {"uncertainties documented"})
            [] id = VerifyNode ->
                 Node(GoalNode, "atomic", "verify", atomics \cup investigation,
                      contract.allowed, contract.acceptance)
            [] id \in slices ->
                 Node(GoalNode, "slice", "decompose", investigation, id[2], {})
            [] id \in atomics ->
                 Node(IF simple THEN GoalNode ELSE SliceNode(id[2]), "atomic", "implement",
                      AtomicDeps(id[2]), id[2], contract.acceptance)]
      edges ==
        UNION {{id} \X nodes[id].deps : id \in atomics \cup verify}
          \cup {<<AtomicNode(s[2]), s>> : s \in slices}
  IN  [contract |-> contract, evidence |-> evidence, nodes |-> nodes, edges |-> edges,
       escalation |-> EscalationReasons(contract, evidence)
                        \cup PlanViolations(contract, nodes, edges)]

----------------------------------------------------------------------------
(* gpb_plan_revision.py                                                    *)
----------------------------------------------------------------------------

WithNode(nodes, id, node) ==
  [x \in DOMAIN nodes \cup {id} |-> IF x = id THEN node ELSE nodes[x]]

Escalated(draft, code) == [draft EXCEPT !.escalation = @ \cup {code}]

Placed(draft, id, node, nodes, edges) ==
  [draft EXCEPT !.nodes = WithNode(nodes, id, node),
                !.edges = edges \cup ({id} \X node.deps)]

\* The node keeps everything but its dependencies.  A node that would depend
\* on itself raises: no plan either.
Reorder(draft, op) ==
  IF op.target \notin DOMAIN draft.nodes THEN Escalated(draft, "reorder_missing_target")
  ELSE IF op.target \in op.deps THEN Escalated(draft, "raises")
  ELSE Placed(draft, op.target, [draft.nodes[op.target] EXCEPT !.deps = op.deps],
              draft.nodes, {e \in draft.edges : e[1] # op.target})

\* insert_prerequisite, insert_investigation and split_node are the same.
Insert(draft, op) ==
  IF op.id \in DOMAIN draft.nodes THEN Escalated(draft, "duplicate_node_id_on_insert")
  ELSE Placed(draft, op.id, op.node, draft.nodes, draft.edges)

\* The replacement may take the id of a third node, which is then lost.
Replace(draft, op) ==
  IF op.target \notin DOMAIN draft.nodes THEN Escalated(draft, "replace_missing_target")
  ELSE LET old == draft.nodes[op.target] IN
    IF ~(op.node.scope \subseteq old.scope) THEN Escalated(draft, "replace_widens_scope")
    ELSE IF ~(old.forbidden \subseteq op.node.forbidden)
    THEN Escalated(draft, "replace_drops_forbidden")
    ELSE Placed(draft, op.id, op.node,
                Restrict(draft.nodes, DOMAIN draft.nodes \ {op.target}),
                {e \in draft.edges : op.target \notin {e[1], e[2]}})

ApplyOp(draft, op) ==
  CASE op.op = "reorder" -> Reorder(draft, op)
    [] op.op # "reorder" /\ op.id = << >> -> Escalated(draft, "missing_new_node")
    [] op.op = "replace_strategy" /\ op.id # << >> -> Replace(draft, op)
    [] op.op \notin {"reorder", "replace_strategy"} /\ op.id # << >> -> Insert(draft, op)

\* The operations in their order, on the nodes and edges of a plan.
ApplyOps(plan, ops) ==
  FoldLeft(ApplyOp, [nodes |-> plan.nodes, edges |-> plan.edges, escalation |-> {}], ops)

\* What the operations make of a plan; escalated unless all of them applied
\* and the nodes keep the contract.
RevisionDraft(contract, plan, ops) ==
  LET draft == ApplyOps(plan, ops) IN
  [nodes |-> draft.nodes, edges |-> draft.edges,
   escalation |-> draft.escalation \cup PlanViolations(contract, draft.nodes, draft.edges)]

\* revise_execution_plan seals a plan: of this contract, with its goal, and
\* without the escalation of the plan it revises.
RevisionApplies(contract, plan, ops) ==
  /\ plan.contract = contract /\ Len(ops) <= MaxOps
  /\ LET draft == RevisionDraft(contract, plan, ops) IN
     draft.escalation = {} /\ GoalNode \in DOMAIN draft.nodes

Revise(contract, plan, ops) ==
  LET draft == RevisionDraft(contract, plan, ops) IN
  [plan EXCEPT !.nodes = draft.nodes, !.edges = draft.edges, !.escalation = {}]
=============================================================================
