---------------------------- MODULE ContextEngine ----------------------------
(***************************************************************************)
(* CB-029, the package of evidence a worker is given for a task            *)
(* (context_engine.py), and the supplements it may ask for.  A system      *)
(* model is built from the files of a tree, a package is planned on the    *)
(* model alone and then filled by reading the files again, and a           *)
(* supplement is asked for a package and served later.  Others write the   *)
(* tree all the while, and newer models and packages may replace the ones  *)
(* a worker knows.                                                         *)
(*                                                                         *)
(* Reading one file (resolving it, its size, its bytes) is one step.       *)
(* A record of the package costs one unit, and an excerpt also the bytes   *)
(* it shows.  Records are sealed, so equal digests mean equal records.     *)
(* Left out: the plan's flag editable, which nothing reads, the order in   *)
(* which collections are written down, and bounds on texts.                *)
(***************************************************************************)
EXTENDS SystemModel

CONSTANTS
  ComponentOrder,   \* component ids in their order
  SecretPaths,      \* paths classify_secret_path names
  RejectedPaths,    \* paths of the object store or the database
  DocNames,         \* file names that end in .md
  DesignDocs,       \* docs the planner takes for architecture
  ArchitectureDocs, \* docs _is_architecture_doc takes for it
  RelatedSeeds,     \* the paths classify_test_relation relates a test with
  Secret,           \* contents that look like a secret
  NoText,           \* contents that do not decode
  LineSizes,        \* the sizes of the lines of the others
  ArchitectureLines, \* lines of a document that are shown
  DefaultExcerpt,   \* DEFAULT_EXCERPT_BUDGET_BYTES
  MaxExcerpt,       \* HARD_MAX_EXCERPT_BUDGET_BYTES
  MaxSupplements,   \* MAX_SUPPLEMENTS_PER_PACKAGE
  Bases,            \* commits a caller may name
  TaskScopes,       \* context task requests, but for the commit
  Asks,             \* supplement requests, but for what they are bound to
  WholeRepository,  \* subjects that stand for everything, or for a command
  Nothing,
  FirstTrees,       \* what the tree may be at first
  MaxWrites,        \* bound: files written by others
  MaxModels, MaxPackages \* bounds: models built, packages begun

\* Every component a file may belong to or a task may name is in one place.
ASSUME ComponentsAssumption ==
  /\ \A i, j \in DOMAIN ComponentOrder : ComponentOrder[i] = ComponentOrder[j] => i = j
  /\ ComponentOrder \in Seq(ToSet(ComponentOrder))
  /\ \A p \in PathSet : ComponentOf(p) \in ToSet(ComponentOrder)

\* The sizes and the budgets are numbers; a task names paths and components.
ASSUME SizesAssumption ==
  /\ \A c \in Contents \ NoText : LineSizes[c] \in Seq(Nat)
  /\ {ArchitectureLines, DefaultExcerpt, MaxExcerpt} \subseteq Nat

ASSUME TasksAssumption ==
  /\ TaskScopes \subseteq
       [base : Bases, seeds : SUBSET PathSet, allowed : SUBSET PathSet, forbidden : SUBSET PathSet,
        components : SUBSET ToSet(ComponentOrder), package : Nat, excerpt : Nat,
        maxExcerpts : Nat, maxComponents : Nat, depth : Nat]
  /\ \A a \in Asks : a.budget \in Nat

ASSUME TreesAssumption == FirstTrees \subseteq [PathSet -> Contents \cup {Gone, Link}]

VARIABLES
  tree,       \* the files: content, Gone or Link
  builder,    \* the model being built and the files still to read
  theModel,   \* the newest model
  work,       \* the package being assembled
  package,    \* the newest package
  ask,        \* the supplement request the worker holds
  serving,    \* the supplement being served
  answer,     \* the last supplement
  counts      \* files written, models and packages begun, supplements granted

contextVars == <<tree, builder, theModel, work, package, ask, serving, answer, counts>>

OrderedComponents(ids) == Chosen(ComponentOrder, ids)
UpTo(s, n) == SubSeq(s, 1, IF Len(s) < n THEN Len(s) ELSE n)
Count(field) == counts' = [counts EXCEPT ![field] = @ + 1]

\* seal_context_scope and ContextTaskRequest
RequestAccepted(r) ==
  /\ r.allowed \cap r.forbidden = {}
  /\ r.seeds \cap r.forbidden = {}
  /\ Cardinality(r.components) <= r.maxComponents

-----------------------------------------------------------------------------
(* Extraction: what is shown of one file.                                  *)

\* The lines of a region that fit: whole lines from its first one on.
Bytes(content, n) == FoldLeft(LAMBDA sum, size : sum + size, 0, SubSeq(LineSizes[content], 1, n))
LinesShown(content, region, budget) ==
  Max({n \in 0 .. Min({region, Len(LineSizes[content])}) : Bytes(content, n) <= budget})

Unavailable(path, why) == [path |-> path, available |-> FALSE, why |-> why, of |-> Nothing, size |-> 1]

\* extract_excerpt
Excerpt(path, region, budget) ==
  LET found == tree[path]
  IN IF path \in SecretPaths THEN Unavailable(path, "secret")
     ELSE IF path \in RejectedPaths \/ found \in {Gone, Link} \cup NoText
     THEN Unavailable(path, "unavailable")
     ELSE IF found \in Secret THEN Unavailable(path, "secret")
     ELSE [path |-> path, available |-> TRUE, why |-> "none", of |-> found,
           size |-> 1 + Bytes(found, LinesShown(found, region, budget))]

\* enrich_interface_summary reads the file a second time: what it finds then is
\* described, or what it found first if there is no text any more.
Described(first) ==
  LET found == tree[first.path]
      source == IF found \in {Gone, Link} \cup NoText THEN first.of ELSE found
  IN IF ~first.available THEN first
     ELSE IF ~IsPython(first.path) THEN Unavailable(first.path, "non_python")
     ELSE IF source \in Secret THEN Unavailable(first.path, "secret")
     ELSE IF source \in Unparsable THEN Unavailable(first.path, "parse_failure")
     ELSE [first EXCEPT !.of = source, !.size = 1]

Whole == 100            \* no region: more lines than a file has
MaxInterfaces == 16
MaxArchDocs == 16

-----------------------------------------------------------------------------
(* The planner: which files a package should have, from the model alone.   *)

Item(path, component, tag) == [path |-> path, component |-> component, tag |-> tag]
NoPath == << >>

\* Seeds come first, then the allowed paths that are no seeds of the inventory.
SeedItem(m, p) ==
  IF p \notin DOMAIN m.files THEN Item(p, NoComponent, "UNKNOWN")
  ELSE LET owner == OwnerOf(m, p)
           owned == owner \notin Uncertain
       IN Item(p, IF owned THEN owner ELSE NoComponent,
               IF p \in SecretPaths THEN "OMITTED" ELSE IF owned THEN "REQUIRED" ELSE "POSSIBLE")

AllowedItem(m, p) ==
  LET owner == OwnerOf(m, p)
  IN IF p \in SecretPaths THEN Item(p, NoComponent, "OMITTED")
     ELSE Item(p, IF owner \in Uncertain THEN NoComponent ELSE owner, "REQUIRED")

FirstItems(r, m) ==
  LET allowed == Ordered((r.allowed \ r.seeds) \cap DOMAIN m.files)
      seeds == Ordered(r.seeds)
  IN [i \in DOMAIN seeds |-> SeedItem(m, seeds[i])]
       \o [i \in DOMAIN allowed |-> AllowedItem(m, allowed[i])]

FirstDoubts(r, m) ==
  {Doubt("missing_source", p) : p \in (r.seeds \cup r.allowed) \ DOMAIN m.files}
    \cup {Doubt("restricted_secret", p) : p \in (r.seeds \cup r.allowed) \cap DOMAIN m.files \cap SecretPaths}
    \cup {Doubt("unknown_ownership", p) : p \in r.seeds \cap DOMAIN m.files \cap ExcludedPaths}

\* The components of the request and the owners of the first items, cut.
SeedComponents(r, items) ==
  LET add(found, item) ==
        IF item.component = NoComponent \/ Contains(found, item.component)
        THEN found ELSE Append(found, item.component)
  IN UpTo(FoldLeft(add, OrderedComponents(r.components), items), r.maxComponents)

Neighbours(m, c) ==
  ({e.target : e \in DependenciesOf(m, c)} \cup {e.source : e \in DependentsOf(m, c)})
    \ {NoComponent}

\* _expand_component_neighborhood: level by level, until the bound is reached.
\* Neighbours are taken in the order of components, not of import names.
Expand(m, seeds, depth, bound) ==
  LET one(acc, c) ==
        LET new == Neighbours(m, c) \ acc.selected
        IN IF Cardinality(acc.selected) >= bound THEN acc
           ELSE [selected |-> acc.selected \cup new, frontier |-> acc.frontier \o OrderedComponents(new)]
      level[n \in 0 .. depth] ==
        IF n = 0 THEN [selected |-> ToSet(seeds), frontier |-> seeds]
        ELSE FoldLeft(one, [level[n - 1] EXCEPT !.frontier = << >>], level[n - 1].frontier)
  IN level[depth].selected

\* The components considered, with what each was selected for.
Neighbourhood(r, m, seeds) ==
  LET near == Expand(m, seeds, r.depth, r.maxComponents)
      impacted == OrderedComponents(Impact(m, r.seeds \cup r.allowed).components \ near)
      room == IF Cardinality(near) < r.maxComponents THEN r.maxComponents - Cardinality(near) ELSE 0
      possible == ToSet(UpTo(impacted, room))
  IN [c \in near \cup possible |->
        IF c \in ToSet(seeds) THEN "REQUIRED" ELSE IF c \in near THEN "SUPPORTING" ELSE "POSSIBLE"]

IsDoc(p) == p[1] = "docs" \/ Name(p) \in DocNames

FileTag(r, p, why) ==
  IF p \in r.forbidden \cup SecretPaths THEN "OMITTED"
  ELSE IF why = "REQUIRED" /\ ~IsTest(p) /\ ~IsDoc(p) THEN "REQUIRED"
  ELSE IF IsTest(p) THEN "SUPPORTING"
  ELSE IF IsDoc(p) THEN IF p \in DesignDocs THEN "SUPPORTING" ELSE "POSSIBLE"
  ELSE IF why = "SUPPORTING" THEN "SUPPORTING" ELSE "POSSIBLE"

\* The files of the components, until max_excerpts are considered.  A component
\* that is cut is a doubt; components that are not reached are none.
TakeFiles(r, m, why, items) ==
  LET full(acc) == Cardinality(acc.seen) >= r.maxExcerpts
      file(acc, p) ==
        IF full(acc) THEN [acc EXCEPT !.cut = TRUE]
        ELSE IF p \in acc.seen THEN acc
        ELSE [acc EXCEPT !.seen = @ \cup {p},
                         !.items = @ \cup {Item(p, ComponentOf(p), FileTag(r, p, why[ComponentOf(p)]))}]
      component(acc, c) ==
        IF acc.stop THEN acc
        ELSE LET taken == FoldLeft(file, acc, FilesOf(m, c))
             IN [taken EXCEPT !.stop = full(taken)]
      first == [seen |-> {items[i].path : i \in DOMAIN items} \cap DOMAIN m.files,
                items |-> ToSet(items), cut |-> FALSE, stop |-> FALSE]
  IN FoldLeft(component, first, OrderedComponents(DOMAIN why))

\* plan_context_selection
SelectionPlan(r, m) ==
  LET first == FirstItems(r, m)
      seeds == SeedComponents(r, first)
      why == Neighbourhood(r, m, seeds)
      near == Expand(m, seeds, r.depth, r.maxComponents)
      files == TakeFiles(r, m, why, first)
      bare == ToSet(seeds) \ {i.component : i \in files.items}
  IN [items |-> files.items \cup {Item(NoPath, c, "REQUIRED") : c \in bare},
      doubts |->
        FirstDoubts(r, m)
          \cup {Doubt("model_uncertainty", u) : u \in Impact(m, r.seeds \cup r.allowed).uncertain}
          \cup (IF Cardinality(near) >= r.maxComponents
                THEN {Doubt("budget_exhausted", <<"components">>)} ELSE {})
          \cup (IF files.cut THEN {Doubt("budget_exhausted", <<"excerpts">>)} ELSE {})]

-----------------------------------------------------------------------------
(* The package in progress: what it holds, and what is still to be added,  *)
(* in the order of assemble_context_package.                               *)

Fits(w, size) == w.bytes + size <= w.request.package
Doubtful(w, kind, subject) == [w EXCEPT !.doubts = @ \cup {Doubt(kind, subject)}]
Critical(w, subject) == [Doubtful(w, "critical_missing", subject) EXCEPT !.critical = TRUE]

\* A warning about a protected file is added if there is room for it.
Warned(w, path) == IF IsProtected(path) /\ Fits(w, 1) THEN [w EXCEPT !.bytes = @ + 1] ELSE w

\* The task contract, the non-goals and the acceptance, then the allowed paths.
Enveloped(w) ==
  LET blob(acc, kind) ==
        IF acc.critical THEN acc
        ELSE IF Fits(acc, 1) THEN [acc EXCEPT !.bytes = @ + 1] ELSE Critical(acc, kind)
      editable(acc, path) ==
        IF Fits(acc, 1) THEN Warned([acc EXCEPT !.bytes = @ + 1], path) ELSE Critical(acc, path)
  IN FoldLeft(editable, FoldLeft(blob, w, <<<<"task_contract">>, <<"authority_non_goals">>, <<"acceptance">>>>),
              Ordered(w.request.allowed))

Tagged(items, tag) == Ordered({i.path : i \in {j \in items : j.tag = tag}})

\* retrieve_architecture_evidence asks the model which documents there are.
Documents(n) ==
  UpTo(Ordered(ArchitectureDocs \cap (DOMAIN theModel.files \ SecretPaths)), n)

\* retrieve_related_tests: the tests related with the seeds, or all if none is.
RelatedTests(seeds) ==
  LET tests == {p \in DOMAIN theModel.files : IsTest(p)}
      related == {p \in tests : RelatedSeeds[p] \cap seeds # {}}
  IN Cardinality(IF related = {} THEN tests ELSE related)

\* Dependency summaries of the required components and the related tests.
Summaries(r, items) ==
  LET owners == {i.component : i \in {j \in items : j.tag = "REQUIRED"}}
      components == r.components \cup (owners \ {NoComponent})
  IN Min({Cardinality(components), r.maxComponents}) + RelatedTests(r.seeds \cup r.allowed)

\* Nothing is added yet, and what was selected is to be.  Possible files come
\* before supporting ones: items are sorted by their tags.
Unfilled(r, selection) ==
  LET tagged(tag) == Tagged(selection.items, tag)
      python == Chosen(tagged("REQUIRED") \o tagged("SUPPORTING"), {p \in PathSet : IsPython(p)})
  IN [request |-> r, model |-> theModel, bytes |-> 0, doubts |-> selection.doubts,
      critical |-> FALSE, restricted |-> FALSE,
      excerpts |-> << >>, interfaces |-> << >>, architecture |-> << >>,
      required |-> tagged("REQUIRED"), described |-> UpTo(python, MaxInterfaces), first |-> Nothing,
      summaries |-> Summaries(r, selection.items), summarised |-> FALSE,
      documents |-> Documents(MaxArchDocs),
      others |-> tagged("POSSIBLE") \o tagged("SUPPORTING")]

NewWork(r) == Enveloped(Unfilled(r, SelectionPlan(r, theModel)))

\* A bug: a file that cannot be shown is only worth a note if it was required.
AddedSilently(w, tag, excerpt) ==
  LET missing(kind) == IF tag = "REQUIRED" THEN Critical(w, excerpt.path) ELSE w
      kept(acc) == [acc EXCEPT !.excerpts = Append(@, excerpt), !.bytes = @ + excerpt.size]
  IN IF ~Fits(w, excerpt.size) THEN missing("budget_exhausted")
     ELSE IF excerpt.available THEN Warned(kept(w), excerpt.path)
     ELSE [kept(missing("missing_source")) EXCEPT !.restricted = @ \/ excerpt.why = "secret"]

\* _add_excerpt for a path the planner did not omit: an excerpt that does not
\* fit is dropped, with a doubt; one that is not available is kept as such.
Added(w, tag, excerpt) ==
  LET missing(kind) == IF tag = "REQUIRED" THEN Critical(w, excerpt.path)
                       ELSE Doubtful(w, kind, excerpt.path)
      kept(acc) == [acc EXCEPT !.excerpts = Append(@, excerpt), !.bytes = @ + excerpt.size]
  IN IF ~Fits(w, excerpt.size) THEN missing("budget_exhausted")
     ELSE IF excerpt.available THEN Warned(kept(w), excerpt.path)
     ELSE [kept(missing("missing_source")) EXCEPT !.restricted = @ \/ excerpt.why = "secret"]

\* Once max_excerpts are there, the rest is skipped, without a doubt if it is required.
Full(w) == Len(w.excerpts) >= w.request.maxExcerpts
WithRequired(w) ==
  IF Full(w) THEN [w EXCEPT !.required = << >>]
  ELSE [Added(w, "REQUIRED", Excerpt(Head(w.required), Whole, w.request.excerpt)) EXCEPT
          !.required = Tail(@)]
WithOther(w) ==
  IF Full(w) THEN [Doubtful(w, "budget_exhausted", <<"excerpts">>) EXCEPT !.others = << >>]
  ELSE [Added(w, "SUPPORTING", Excerpt(Head(w.others), Whole, w.request.excerpt)) EXCEPT
          !.others = Tail(@)]

WithInterface(w, interface) ==
  IF ~Fits(w, interface.size) THEN Doubtful(w, "budget_exhausted", interface.path)
  ELSE LET kept == [w EXCEPT !.interfaces = Append(@, interface), !.bytes = @ + interface.size]
       IN IF interface.why = "parse_failure" THEN Doubtful(kept, "parse_failure", interface.path)
          ELSE kept

\* Each summary is one unit; those that do not fit are dropped, with a doubt.
WithSummaries(w) ==
  LET room == w.request.package - w.bytes
  IN IF w.summaries <= room THEN [w EXCEPT !.bytes = @ + w.summaries]
     ELSE [Doubtful(w, "budget_exhausted", <<"summaries">>) EXCEPT !.bytes = w.request.package]

\* The first document that does not fit is a doubt and ends the documents.
WithDocument(w, document) ==
  IF Fits(w, document.size)
  THEN [w EXCEPT !.architecture = Append(@, document), !.bytes = @ + document.size,
                 !.documents = Tail(@)]
  ELSE [Doubtful(w, "budget_exhausted", document.path) EXCEPT !.documents = << >>]

\* The completeness of the package that is sealed.
Completeness(w) ==
  LET kinds == {d.kind : d \in w.doubts}
  IN IF w.critical THEN "incomplete"
     ELSE IF w.restricted /\ w.doubts # {} THEN "restricted"
     ELSE IF "critical_missing" \in kinds /\ kinds \cap {"ambiguous_ownership", "model_uncertainty"} # {}
     THEN "conflicting"
     ELSE IF w.doubts # {} THEN "sufficient_with_uncertainty"
     ELSE IF w.excerpts = << >> /\ w.request.seeds = {} THEN "unknown"
     ELSE "sufficient"

-----------------------------------------------------------------------------
(* Steps.                                                                  *)

Idle == [stage |-> "idle"]

ContextInit ==
  /\ tree \in FirstTrees
  /\ builder = Idle /\ theModel = Nothing
  /\ work = Nothing /\ package = Nothing
  /\ ask = Nothing /\ serving = Nothing /\ answer = Nothing
  /\ counts = [writes |-> 0, models |-> 0, packages |-> 0, granted |-> 0]

\* Another process writes, replaces or removes a file.
WriteFile(path, content) ==
  /\ counts.writes < MaxWrites /\ content # tree[path]
  /\ tree' = [tree EXCEPT ![path] = content]
  /\ Count("writes")
  /\ UNCHANGED <<builder, theModel, work, package, ask, serving, answer>>

\* build_system_model, for a commit the caller names.
StartModel(base) ==
  /\ builder = Idle /\ work = Nothing /\ serving = Nothing /\ counts.models < MaxModels
  /\ builder' = [stage |-> "inventory", todo |-> Paths, made |-> NewModel(base)]
  /\ Count("models")
  /\ UNCHANGED <<tree, theModel, work, package, ask, serving, answer>>

ReadForInventory ==
  /\ builder.stage = "inventory"
  /\ LET path == Head(builder.todo)
         made == Inventoried(builder.made, path, tree[path])
     IN builder' = IF Tail(builder.todo) # << >>
                   THEN [builder EXCEPT !.todo = Tail(@), !.made = made]
                   ELSE [stage |-> "imports", todo |-> ToScan(made), made |-> made]
  /\ UNCHANGED <<tree, theModel, work, package, ask, serving, answer, counts>>

ReadImports ==
  /\ builder.stage = "imports" /\ builder.todo # << >>
  /\ builder' = [builder EXCEPT
                   !.todo = Tail(@),
                   !.made = Scanned(@, Head(builder.todo), tree[Head(builder.todo)])]
  /\ UNCHANGED <<tree, theModel, work, package, ask, serving, answer, counts>>

SealModel ==
  /\ builder.stage = "imports" /\ builder.todo = << >>
  /\ theModel' = Sealed(builder.made) /\ builder' = Idle
  /\ UNCHANGED <<tree, work, package, ask, serving, answer, counts>>

\* A file cannot be read or changes its size meanwhile, or a bound is exceeded.
ModelFails ==
  /\ builder # Idle /\ builder' = Idle
  /\ UNCHANGED <<tree, theModel, work, package, ask, serving, answer, counts>>

\* What assemble_context_package is about to add.
Stage(w) ==
  IF w.required # << >> THEN "required"
  ELSE IF w.described # << >> THEN "interfaces"
  ELSE IF ~w.summarised THEN "summaries"
  ELSE IF w.documents # << >> THEN "documents"
  ELSE IF w.others # << >> THEN "others" ELSE "done"

Assembling(stage) == work # Nothing /\ Stage(work) = stage
KeepRest == UNCHANGED <<tree, builder, theModel, package, ask, serving, answer, counts>>

\* assemble_context_package: the plan and the envelope.
StartPackage(scope, base) ==
  LET r == [scope EXCEPT !.base = base]
  IN /\ builder = Idle /\ work = Nothing /\ serving = Nothing /\ counts.packages < MaxPackages
     /\ theModel # Nothing /\ base = theModel.base /\ RequestAccepted(r)
     /\ work' = NewWork(r)
     /\ Count("packages")
     /\ UNCHANGED <<tree, builder, theModel, package, ask, serving, answer>>

TakeRequired ==
  /\ Assembling("required")
  /\ work' = WithRequired(work)
  /\ KeepRest

BeginInterface ==
  /\ Assembling("interfaces") /\ work.first = Nothing
  /\ work' = [work EXCEPT !.first = Excerpt(Head(work.described), Whole, MaxExcerpt)]
  /\ KeepRest

EndInterface ==
  /\ Assembling("interfaces") /\ work.first # Nothing
  /\ work' = [WithInterface(work, Described(work.first)) EXCEPT
                !.first = Nothing, !.described = Tail(@)]
  /\ KeepRest

Summarise ==
  /\ Assembling("summaries")
  /\ work' = [WithSummaries(work) EXCEPT !.summarised = TRUE]
  /\ KeepRest

TakeDocument ==
  /\ Assembling("documents")
  /\ work' = WithDocument(work, Excerpt(Head(work.documents), ArchitectureLines, DefaultExcerpt))
  /\ KeepRest

TakeOther ==
  /\ Assembling("others")
  /\ work' = WithOther(work)
  /\ KeepRest

SealPackage ==
  /\ Assembling("done")
  /\ package' = [request |-> work.request, model |-> work.model, bytes |-> work.bytes,
                 completeness |-> Completeness(work), doubts |-> work.doubts,
                 excerpts |-> work.excerpts,
                 interfaces |-> work.interfaces, architecture |-> work.architecture]
  /\ work' = Nothing
  /\ counts' = [counts EXCEPT !.granted = 0]
  /\ UNCHANGED <<tree, builder, theModel, ask, serving, answer>>

PackageFails ==
  /\ work # Nothing /\ work' = Nothing
  /\ KeepRest

-----------------------------------------------------------------------------
(* Supplements.  The caller passes the newest package with its request and *)
(* the newest model, and counts the supplements it granted.                *)

KeepWork == UNCHANGED <<tree, builder, theModel, work, package>>

\* seal_supplement_request: bound to the package the worker has.
SealAsk(a) ==
  /\ ask = Nothing /\ package # Nothing
  /\ ask' = [category |-> a.category, subject |-> a.subject, budget |-> a.budget, of |-> package]
  /\ KeepWork /\ UNCHANGED <<serving, answer, counts>>

NoEvidence == [excerpts |-> << >>, interfaces |-> << >>, architecture |-> << >>]

Reply(granted, code, evidence, bytes) ==
  /\ answer' = [granted |-> granted, code |-> code, evidence |-> evidence, bytes |-> bytes,
                request |-> ask.of.request]
  /\ ask' = Nothing /\ serving' = Nothing
  /\ IF granted THEN Count("granted") ELSE UNCHANGED counts

\* _deny_supplement
Deny(code) == Reply(FALSE, code, NoEvidence, 0)

Grant(evidence, bytes) ==
  IF bytes > ask.budget THEN Deny("budget_exceeded") ELSE Reply(TRUE, "none", evidence, bytes)

ReadCategories == {"file_excerpt", "interface_summary"}
PathCategories == ReadCategories \cup {"related_tests", "tcb_classification"}
ComponentCategories == {"component_dependencies", "component_dependents"}

\* The checks of fulfill_supplement before anything is read, in their order.
DenialCode ==
  LET subject == ask.subject
      reads == ask.category \in ReadCategories
  IN IF ask.of.request # package.request THEN "replay_wrong_task"
     ELSE IF ask.of # package THEN "replay_wrong_package"
     ELSE IF package.request.base # theModel.base THEN "replay_wrong_revision"
     ELSE IF counts.granted >= MaxSupplements THEN "supplement_cap_exceeded"
     ELSE IF subject \in WholeRepository THEN "whole_repo_denied"
     ELSE IF ask.category \in PathCategories /\ subject \notin PathSet THEN "path_rejected"
     ELSE IF ask.category \in ComponentCategories /\ subject \notin ToSet(ComponentOrder)
     THEN "component_id_malformed"
     ELSE IF ask.category = "interface_summary" /\ subject \in SecretPaths
     THEN "secret_bypass_denied"
     ELSE IF reads /\ subject \in package.request.forbidden THEN "forbidden_path"
     ELSE IF reads /\ subject \in SecretPaths THEN "secret_bypass_denied"
     ELSE "none"

Asked == ask # Nothing /\ serving = Nothing /\ work = Nothing

DenySupplement ==
  /\ Asked /\ DenialCode # "none"
  /\ Deny(DenialCode)
  /\ KeepWork

\* file_excerpt
SupplyExcerpt ==
  LET excerpt == Excerpt(ask.subject, Whole, Min({ask.budget, MaxExcerpt}))
  IN /\ Asked /\ DenialCode = "none" /\ ask.category = "file_excerpt"
     /\ IF excerpt.size <= ask.budget /\ excerpt.why = "secret"
        THEN Deny("secret_bypass_denied")
        ELSE Grant([NoEvidence EXCEPT !.excerpts = <<excerpt>>], excerpt.size)
     /\ KeepWork

\* interface_summary, which reads twice, and architecture_evidence, which reads
\* up to four documents.
BeginSupply ==
  /\ Asked /\ DenialCode = "none"
  /\ \/ /\ ask.category = "interface_summary"
        /\ serving' = [todo |-> << >>, got |-> <<Excerpt(ask.subject, Whole, MaxExcerpt)>>]
     \/ /\ ask.category = "architecture_evidence"
        /\ serving' = [todo |-> Documents(4), got |-> << >>]
  /\ KeepWork /\ UNCHANGED <<ask, answer, counts>>

SupplyInterface ==
  /\ serving # Nothing /\ ask.category = "interface_summary"
  /\ LET interface == Described(Head(serving.got))
     IN Grant([NoEvidence EXCEPT !.interfaces = <<interface>>], interface.size)
  /\ KeepWork

ReadDocument ==
  /\ serving # Nothing /\ serving.todo # << >>
  /\ serving' = [todo |-> Tail(serving.todo),
                 got |-> Append(serving.got,
                                Excerpt(Head(serving.todo), ArchitectureLines, DefaultExcerpt))]
  /\ KeepWork /\ UNCHANGED <<ask, answer, counts>>

SizeOf(parts) == FoldLeft(LAMBDA sum, part : sum + part.size, 0, parts)

SupplyDocuments ==
  /\ serving # Nothing /\ ask.category = "architecture_evidence" /\ serving.todo = << >>
  /\ Grant([NoEvidence EXCEPT !.architecture = serving.got], SizeOf(serving.got))
  /\ KeepWork

\* component_dependencies, component_dependents, related_tests and
\* tcb_classification are answered from the model.
SupplyFromModel ==
  /\ Asked /\ DenialCode = "none"
  /\ \/ /\ ask.category = "component_dependencies"
        /\ Grant(NoEvidence, 1 + Cardinality(DependenciesOf(theModel, ask.subject)))
     \/ /\ ask.category = "component_dependents"
        /\ Grant(NoEvidence, 1 + Cardinality(DependentsOf(theModel, ask.subject)))
     \/ /\ ask.category = "related_tests"
        /\ Grant(NoEvidence, RelatedTests({ask.subject}))
     \/ /\ ask.category = "tcb_classification"
        /\ Grant(NoEvidence, 1)
  /\ KeepWork

\* A file cannot be read or changes its size meanwhile: the call raises.
SupplyFails ==
  /\ serving # Nothing /\ serving' = Nothing /\ ask' = Nothing
  /\ KeepWork /\ UNCHANGED <<answer, counts>>

\* Everything but the start of a package.
ContextStep ==
  \/ \E p \in PathSet, c \in Contents \cup {Gone, Link} : WriteFile(p, c)
  \/ \E b \in Bases : StartModel(b)
  \/ ReadForInventory \/ ReadImports \/ SealModel \/ ModelFails
  \/ TakeRequired \/ BeginInterface \/ EndInterface \/ Summarise \/ TakeDocument \/ TakeOther
  \/ SealPackage \/ PackageFails
  \/ \E a \in Asks : SealAsk(a)
  \/ DenySupplement \/ SupplyExcerpt \/ BeginSupply \/ SupplyInterface
  \/ ReadDocument \/ SupplyDocuments \/ SupplyFromModel \/ SupplyFails

ContextNext == ContextStep \/ \E s \in TaskScopes, b \in Bases : StartPackage(s, b)

ContextSpec == ContextInit /\ [][ContextNext]_contextVars

-----------------------------------------------------------------------------
(* Properties.                                                             *)

\* The components at most depth imports away from those the task is about.
Near(r, m) ==
  LET owners == {OwnerOf(m, p) : p \in r.seeds \cup r.allowed} \cup r.components
      within[n \in 0 .. r.depth] ==
        IF n = 0 THEN owners
        ELSE within[n - 1] \cup UNION {Neighbours(m, c) : c \in within[n - 1]}
  IN within[r.depth]

\* A package called sufficient shows every seed and every allowed path, if
\* max_excerpts are not fewer, and every file of the components near the task
\* that is neither forbidden nor secret, if all the files of these and of the
\* impacted components are not more: such a file that could not be read or was
\* written over after the model was built has left a doubt.  An excerpt that is
\* shown may itself be cut at its budget.
SufficientIsComplete ==
  LET r == package.request
      m == package.model
      shown == {e.path : e \in {x \in ToSet(package.excerpts) : x.available}}
      stated == r.seeds \cup r.allowed
      files(components) == {p \in OwnedFiles(m) : ComponentOf(p) \in components}
      considered == files(Near(r, m) \cup Impact(m, stated).components) \cup stated
  IN package # Nothing /\ package.completeness = "sufficient" =>
       /\ Cardinality(stated) <= r.maxExcerpts => stated \subseteq shown
       /\ Cardinality(considered) <= r.maxExcerpts =>
            files(Near(r, m)) \ (r.forbidden \cup SecretPaths) \subseteq shown

\* Nothing that looks secret is shown or described, whatever was written between
\* two readings, and no excerpt or interface is of a forbidden file.
Hidden(evidence, r) ==
  LET parts == ToSet(evidence.excerpts) \cup ToSet(evidence.interfaces)
  IN /\ \A e \in parts \cup ToSet(evidence.architecture) :
          e.available => e.of \notin Secret /\ e.path \notin SecretPaths
     /\ \A e \in parts : e.path \notin r.forbidden

SecretsStayHidden ==
  /\ package # Nothing => Hidden(package, package.request)
  /\ answer # Nothing => Hidden(answer.evidence, answer.request)

\* A package is no larger than its budget, nor an excerpt's text than its own.
BudgetIsKept ==
  package # Nothing =>
    /\ package.bytes <= package.request.package
    /\ SizeOf(package.excerpts) + SizeOf(package.interfaces) + SizeOf(package.architecture)
         <= package.bytes
    /\ \A e \in ToSet(package.excerpts) : e.size <= 1 + package.request.excerpt

\* Although the files change while a package of assemble_context_package or a
\* supplement of fulfill_supplement is planned, read and read again: "sufficient"
\* leaves out no file that was asked for within its limits, no secret is shown,
\* and no budget is exceeded.
PackageIsHonest == SufficientIsComplete /\ SecretsStayHidden /\ BudgetIsKept
=============================================================================
