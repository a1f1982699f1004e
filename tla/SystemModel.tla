----------------------------- MODULE SystemModel -----------------------------
(***************************************************************************)
(* CB-028, the map of a repository (system_model.py), as operators: which  *)
(* component owns a file, which components import which, and what a change *)
(* may affect.                                                             *)
(*                                                                         *)
(* A path, a component id and an imported name are sequences of segments.  *)
(* A model under construction has the inventory (path -> content read),    *)
(* the import edges and the doubts recorded so far; a sealed one is bound  *)
(* to the commit its caller named.  Left out: a path owned by nobody or by *)
(* several components, which the inventory's own checks exclude, the kinds *)
(* of components, and a registry of protected files other than the live    *)
(* one, with which no model can be constructed.                            *)
(***************************************************************************)
EXTENDS Naturals, FiniteSets, Sequences, SequencesExt

CONSTANTS
  Paths,            \* the paths files may have, as a sequence in their order
  PythonNames,      \* file names that end in .py
  TestNames,        \* file names that start with test_ or end with _test.py
  ExcludedPaths,    \* paths the inventory leaves out
  IncludeExcluded,  \* include_excluded
  ProtectedPaths,   \* protected_paths of the trusted-policy registry
  Contents,         \* contents of files
  Unparsable,       \* contents that are no Python
  Imports,          \* the names each of the others imports; "." marks a relative one
  Gone, Link        \* no file, and a symbolic link

PathSet == {Paths[i] : i \in DOMAIN Paths}

\* There is a file; every path is in one place, and a sequence of segments.
ASSUME PathsAssumption ==
  /\ Paths \in Seq(PathSet) /\ Paths # << >> /\ PathSet \subseteq Seq(STRING) \ {<< >>}
  /\ \A i, j \in DOMAIN Paths : Paths[i] = Paths[j] => i = j

\* What is imported is a dotted name.
ASSUME ImportsAssumption == \A c \in Contents \ Unparsable : Imports[c] \subseteq Seq(STRING)

\* The elements of a sequence that are in a set, in their order.
Chosen(s, S) == FoldLeft(LAMBDA kept, x : IF x \in S THEN Append(kept, x) ELSE kept, << >>, s)
Ordered(paths) == Chosen(Paths, paths)

Name(path) == path[Len(path)]
IsPython(path) == Name(path) \in PythonNames
IsTest(path) == path[1] = "tests" \/ Name(path) \in TestNames

TopLevel == {"tests", "scripts", "docs", "frontend", "config", "database", "capability_specs"}
InternalRoots == {"backend"} \cup (TopLevel \ {"docs"})
NoComponent == << >>

\* _component_id_for_path
ComponentOf(path) ==
  CASE path[1] = "backend" /\ Len(path) >= 2 ->
         IF path[2] = "continuous_builder" /\ Len(path) >= 3
         THEN <<"backend", "continuous_builder">>
         ELSE IF path[2] \in PythonNames THEN <<"backend">> ELSE <<"backend", path[2]>>
    [] path[1] \in TopLevel -> <<path[1]>>
    [] path[1] \notin TopLevel /\ Len(path) = 1 -> <<"root">>
    [] OTHER -> <<"other", path[1]>>

Doubt(kind, subject) == [kind |-> kind, subject |-> subject]

NewModel(base) == [base |-> base, files |-> << >>, edges |-> {}, doubts |-> {}]

-----------------------------------------------------------------------------
(* Building a model: every file is read for the inventory, and the Python  *)
(* ones are read again for their imports.                                  *)

\* build_repository_inventory: one entry of the walk, as it is found.
Inventoried(m, path, found) ==
  IF found \in Contents /\ (path \in ExcludedPaths => IncludeExcluded)
  THEN [m EXCEPT !.files =
          [p \in DOMAIN m.files \cup {path} |-> IF p = path THEN found ELSE m.files[p]]]
  ELSE m

\* _build_components_and_ownership
OwnedFiles(m) == DOMAIN m.files \ ExcludedPaths
ComponentIds(m) == {ComponentOf(p) : p \in OwnedFiles(m)}

\* _resolve_import_to_component: the longest component id the name starts with.
ResolveImport(name, ids) ==
  LET matches == {n \in 1 .. Len(name) : SubSeq(name, 1, n) \in ids}
  IN CASE name[1] \notin InternalRoots -> [kind |-> "external_import", target |-> NoComponent]
       [] name[1] \in InternalRoots /\ matches = {} ->
            [kind |-> "unresolved_import", target |-> NoComponent]
       [] OTHER ->
            [kind |-> "internal_import",
             target |-> SubSeq(name, 1, CHOOSE n \in matches : \A k \in matches : k <= n)]

RelativeImport(name) ==
  [kind |-> IF Len(name) = 1 THEN "unresolved_import" ELSE "ambiguous_import",
   target |-> NoComponent]

\* Python files whose category is not documentation, frontend or config.
ToScan(m) ==
  Ordered({p \in OwnedFiles(m) :
             IsPython(p) /\ (IsTest(p) \/ p[1] \notin {"docs", "frontend", "config"})})

\* _build_dependency_edges for one file, as it is found now.
Scanned(m, path, found) ==
  LET resolved(name) ==
        IF name[1] = "." THEN RelativeImport(name) ELSE ResolveImport(name, ComponentIds(m))
      edge(name) ==
        [source |-> ComponentOf(path), target |-> resolved(name).target,
         kind |-> resolved(name).kind, path |-> path, name |-> name]
      names == Imports[found]
      unclear == {n \in names : resolved(n).kind \in {"unresolved_import", "ambiguous_import"}}
  IN IF found \in {Gone, Link}
     THEN [m EXCEPT !.doubts = @ \cup {Doubt("skipped_non_regular", path)}]
     ELSE IF found \in Unparsable
     THEN [m EXCEPT !.doubts = @ \cup {Doubt("parse_failure", path)}]
     ELSE [m EXCEPT
             !.edges = @ \cup {edge(n) : n \in {k \in names : resolved(k).target # ComponentOf(path)}},
             !.doubts = @ \cup {Doubt(resolved(n).kind, path \o n) : n \in unclear}]

\* _check_missing_protected_paths, the last step of build_system_model
Sealed(m) ==
  [m EXCEPT !.doubts = @ \cup
     {Doubt("missing_protected_path", p) : p \in ProtectedPaths \ OwnedFiles(m)}]

-----------------------------------------------------------------------------
(* The queries.                                                            *)

\* component_for_path
OwnerOf(m, path) ==
  CASE path \in OwnedFiles(m) -> ComponentOf(path)
    [] path \in DOMAIN m.files \cap ExcludedPaths -> <<"EXCLUDED">>
    [] OTHER -> <<"UNKNOWN">>

Uncertain == {<<"UNKNOWN">>, <<"EXCLUDED">>}

\* files_for_component
FilesOf(m, component) == Ordered({p \in OwnedFiles(m) : ComponentOf(p) = component})

\* dependencies_of, dependents_of
DependenciesOf(m, component) == {e \in m.edges : e.source = component}
DependentsOf(m, component) == {e \in m.edges : e.target = component}

\* impacted_components: the owners of what changes and their direct dependents.
Impact(m, paths) ==
  LET owners == {OwnerOf(m, p) : p \in paths}
      changed == owners \ Uncertain
      unclear == {e \in m.edges : e.source \in changed
                                  /\ e.kind \in {"unresolved_import", "ambiguous_import"}}
  IN [components |-> changed \cup {e.source : e \in {d \in m.edges : d.target \in changed}},
      uncertain |-> (owners \cap Uncertain) \cup {e.source \o e.name : e \in unclear}]

\* model_tcb_classification
IsProtected(path) == path \in ProtectedPaths
=============================================================================
