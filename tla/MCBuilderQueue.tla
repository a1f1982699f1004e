--------------------------- MODULE MCBuilderQueue ---------------------------
(* Model-checking instances of BuilderQueue and ContextEngine; a behaviour *)
(* is about one part and leaves the other's state alone.                   *)
(*                                                                         *)
(* The queue: slice s2 needs s1.  In one part two writers race before any  *)
(* attempt is created; in the other attempts, leases and the planner       *)
(* interleave with the first writer, a slice is given up by cancelling it  *)
(* and set aside by pausing it only: what leaves "blocked" leaves "paused" *)
(* too.                                                                    *)
(*                                                                         *)
(* The context engine: a core package with a key beside it, a web package  *)
(* that imports it, a document and a test; one file is written over while  *)
(* models and packages are made.                                           *)
EXTENDS BuilderQueue, ContextEngine, TLC

CONSTANTS s1, s2, w1, w2

VARIABLE part

MCSlices == {s1, s2}
MCWriters == {w1, w2}
MCHardDeps == [s \in MCSlices |-> IF s = s2 THEN {s1} ELSE {}]
MCNoDeps == [s \in MCSlices |-> {}]
MCSymmetry == Permutations(Attempts)

core == <<"backend", "core", "core.py">>
key == <<"backend", "core", "key.pem">>
web == <<"backend", "web", "web.py">>
doc == <<"docs", "DESIGN.md">>
test == <<"tests", "test_core.py">>

MCPaths == <<core, key, web, doc, test>>
MCPythonNames == {"core.py", "web.py", "test_core.py"}
MCTestNames == {"test_core.py"}
MCExcluded == {}
MCContents == {"plain", "uses_core", "relative", "password", "binary"}
MCImports ==
  [c \in MCContents \ {"binary"} |->
     CASE c = "uses_core" -> {<<"backend", "core", "core">>, <<"os">>}
       [] c = "relative" -> {<<".", "core">>, <<"backend", "lost">>}
       [] OTHER -> {}]
MCLineSizes ==
  [c \in MCContents \ {"binary"} |-> IF c = "plain" THEN <<1, 1>> ELSE <<1, 2>>]
MCComponentOrder ==
  <<<<"backend", "core">>, <<"backend", "web">>, <<"config">>, <<"docs">>, <<"tests">>>>
MCRelated == [p \in {test} |-> {core}]
MCSecretPaths == {key}
MCProtected == {core}
MCDocs == {doc}
MCNone == {}

Task(seeds, allowed, forbidden) ==
  [base |-> "b1", seeds |-> seeds, allowed |-> allowed, forbidden |-> forbidden,
   components |-> {}, package |-> 40, excerpt |-> 3, maxExcerpts |-> 6,
   maxComponents |-> 4, depth |-> 1]

\* A task with room for everything, one with a forbidden file, one that seeds
\* the key, one about a component without files, and ones short of bytes, of
\* excerpts and of components.
MCTaskScopes ==
  {Task({core}, {core}, {}), Task({web}, {}, {core}), Task({key}, {core}, {}),
   [Task({core}, {web}, {}) EXCEPT !.package = 12],
   [Task({}, {}, {}) EXCEPT !.components = {<<"config">>}],
   [Task({core}, {}, {}) EXCEPT !.maxExcerpts = 2, !.excerpt = 2],
   [Task({web}, {core}, {}) EXCEPT !.maxComponents = 1, !.depth = 0]}

Ask(category, subject, budget) == [category |-> category, subject |-> subject, budget |-> budget]

MCAsks ==
  {Ask("file_excerpt", core, 4), Ask("file_excerpt", key, 4),
   Ask("file_excerpt", <<"..">>, 4), Ask("file_excerpt", <<"*">>, 4),
   Ask("interface_summary", web, 4), Ask("architecture_evidence", <<"design">>, 2),
   Ask("component_dependencies", <<"backend", "web">>, 4),
   Ask("component_dependents", <<"backend", "core">>, 1),
   Ask("component_dependents", <<"..">>, 4),
   Ask("related_tests", core, 4), Ask("tcb_classification", core, 4)}
MCWholeRepository == {<<"*">>}
MCFirstTrees ==
  {[p \in {core, key, web, doc, test} |-> IF p \in {web, test} THEN "uses_core" ELSE "plain"]}

MCInit == part \in {"race", "leases", "context"} /\ Init /\ ContextInit

QueueNext ==
  /\ part # "context" /\ Next
  /\ part = "race" => UNCHANGED attempts
  /\ part = "leases" =>
       /\ view'[w2] = NoView
       /\ \A s \in Slices : state'[s] \notin {"superseded", "retired", "blocked"}
  /\ UNCHANGED <<contextVars, part>>

\* A model or a package that failed is not tried again.
Exhausted ==
  /\ package = Nothing /\ work = Nothing /\ builder = Idle
  /\ IF theModel = Nothing THEN counts.models > 0 ELSE counts.packages > 0
  /\ UNCHANGED contextVars

AsksForCore(a) == a # Nothing /\ a.subject = core /\ a.category = "file_excerpt"
Roomy(task) == task.maxExcerpts = 6 /\ task.package = 40

\* A second package is begun while the worker holds a request for the core.
MCStartPackage(task, base) ==
  /\ counts.packages = 1 => AsksForCore(ask) /\ Roomy(task)
  /\ StartPackage(task, base)

\* What the files may be written over with.
Rewrites ==
  [p \in PathSet |->
     CASE p = core -> {"relative", "password", "binary", Gone}
       [] p = web -> {"plain", "password", "binary", Gone}
       [] p = doc -> {"password", Link}
       [] p = test -> {"relative", Gone}
       [] OTHER -> {}]

\* So is a second model, of the other commit; then there are no more writes.
\* After an answer the worker asks for the core only.
MCContextNext ==
  /\ part = "context"
  /\ \/ ContextStep \/ Exhausted
     \/ \E task \in TaskScopes, base \in Bases : MCStartPackage(task, base)
  /\ \A p \in PathSet : tree'[p] \in {tree[p]} \cup Rewrites[p]
  /\ counts'.models + counts'.packages <= 3
  /\ counts'.models + counts'.packages = 3 => UNCHANGED tree
  /\ builder' # Idle => builder'.made.base = IF counts'.models = 1 THEN "b1" ELSE "b2"
  /\ counts.models = 1 /\ counts'.models = 2 => AsksForCore(ask)
  /\ answer # Nothing /\ ask = Nothing => ask' = Nothing \/ AsksForCore(ask')
  /\ UNCHANGED <<vars, part>>

MCNext == QueueNext \/ MCContextNext

MCSpec == MCInit /\ [][MCNext]_<<vars, contextVars, part>>
=============================================================================
