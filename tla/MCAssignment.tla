----------------------------- MODULE MCAssignment -----------------------------
(* Assignment for TLC: a read-only and a writing contract, two releases.   *)
EXTENDS Assignment

Docs == <<"docs">>
Private == <<"docs", "private">>
Main == <<"app", "main.py">>
Test == <<"tests", "test_main.py">>

\* The second release protects the file the writing contract is about.
MCRegistries == << {<<"gate.py">>}, {<<"gate.py">>, Main} >>

DocsContract ==
  [taxonomy |-> "docs_spec_sync", allowed |-> {Docs}, forbidden |-> {Private},
   acceptance |-> {"done"}, gates |-> {}, risk |-> {}, ceiling |-> Uncapped]
MainTask ==
  [taxonomy |-> "bounded_feature_addition", allowed |-> {Main, Test}, forbidden |-> {Private},
   acceptance |-> {"done"}, gates |-> {"review"}, risk |-> {}, ceiling |-> 2]
MCTaskContracts == {DocsContract, MainTask}

\* One knows the owner of the main file, the other does not.
MCModels ==
  {[registry |-> MCRegistries[1],
    owner |-> [p \in {Docs, Main, Test} |-> IF p = Main THEN o ELSE "docs"]] :
     o \in {"core", Unknown}}

Op(op, target, id, node, deps) ==
  [op |-> op, target |-> target, id |-> id, node |-> node, deps |-> deps]
Work(type, deps, scope) ==
  [parent |-> GoalNode, level |-> "atomic", type |-> type, deps |-> deps, scope |-> scope,
   forbidden |-> {Private}, acceptance |-> {"done"}]

MainAtomic == AtomicNode({Main})
TestAtomic == AtomicNode({Test})
NewMain == AtomicNode({Main, Test})
NoNode == Work("none", {}, {})

\* Nothing; a prerequisite and a replacement that depends on it; a cycle; a
\* replacement that widens; an insertion outside the contract; a gap.
MCRevisions ==
  {<< >>,
   <<Op("insert_prerequisite", << >>, <<"first">>, Work("implement", {}, {Main}), {}),
     Op("reorder", TestAtomic, << >>, NoNode, {<<"first">>}),
     Op("reorder", VerifyNode, << >>, NoNode, {TestAtomic}),
     Op("replace_strategy", MainAtomic, NewMain, Work("implement", {<<"first">>}, {Main}), {})>>,
   <<Op("reorder", MainAtomic, << >>, NoNode, {TestAtomic})>>,
   <<Op("replace_strategy", MainAtomic, NewMain, Work("implement", {}, {Main, Test}), {})>>,
   <<Op("split_node", MainAtomic, <<"first">>, Work("implement", {}, {<<"gate.py">>}), {})>>,
   <<Op("insert_investigation", << >>, << >>, NoNode, {})>>}

Request(capability, scope, budget) ==
  [capability |-> capability, scope |-> scope, budget |-> budget,
   humanGate |-> FALSE, evidence |-> {}]
Reads(path) == Request("cb.file.read_bounded", {path}, Uncapped)
Writes(path, budget) == Request("cb.file.write_bounded", {path}, budget)

\* One capability is asked for twice, within its bounds and beyond them.
MCRequestSets ==
  {{Reads(Docs \o <<"a.md">>), Reads(Private)},
   {Writes(Main, 1), Writes(Main, 3)},
   {Writes(Main, 2), Request("cb.main.merge", {Main}, 1)}}

Kept == [notAllowed |-> {}, alsoAllowed |-> {}, notForbidden |-> {}, alsoAdmitted |-> {},
         notGated |-> {}, uncapped |-> FALSE]
MCCeilings ==
  {Kept, [Kept EXCEPT !.notAllowed = {Test}, !.uncapped = TRUE],
   [Kept EXCEPT !.alsoAllowed = {<<"gate.py">>}, !.notForbidden = {Private}],
   [Kept EXCEPT !.alsoAdmitted = {"cb.main.merge"}, !.notGated = {"review"}]}
===============================================================================
