-------------------------------- MODULE MCJobs --------------------------------
(***************************************************************************)
(* Model-checking instance of the jobs of both builders: the workflow, the *)
(* path rules and the job file of a capability build, and the ledger and   *)
(* side-effect file of a durable job.  They share no state, so a behaviour *)
(* follows one of them, chosen at its start, and the state spaces add up.  *)
(***************************************************************************)
EXTENDS CapabilityBuild, BuildScope, BuildJob, JobLedger, SideEffectLedger

VARIABLE part

\* Characters: "A" is the upper case of "a"; "e*" and "eb" stand for the rule
\* ".env*" and the path ".env.example".
MCLower == [c \in {"a", "A", "b", "e", "*", "**"} |-> IF c = "A" THEN "a" ELSE c]
MCEnvExample == << <<"e", "b">> >>
MCEnvRules == { << <<"e", "*">> >> }
MCDefaultDenied == MCEnvRules

\* Rules of every shape the overlap test tells apart.
MCRules ==
    { << <<"a">> >>, << <<"A">> >>, << <<"a", "*">> >>, << <<"*", "b">> >>, << <<"**">> >>,
      << <<"*">>, <<"a">> >>, << <<"a", "*">>, <<"**">> >>, << <<"**">>, <<"A", "*", "b">> >>,
      MCEnvExample, << <<"*", "a", "*">>, <<"b">> >>, << <<"a">>, <<"b">> >>,
      << <<"A">>, <<"**">>, <<"b">> >> }
MCSegments == { <<"a">>, <<"A">>, <<"b">>, <<"a", "b">>, <<"e", "b">> }
MCPaths == {<<s>> : s \in MCSegments} \cup {<<s, t>> : s, t \in MCSegments}

\* The workflow: "a/b" may be created and "b" modified, or anything below "a"
\* created; and a scope the constructor refuses.
PathAB == << <<"a">>, <<"b">> >>
PathUpper == << <<"a">>, <<"A">> >>
PathLower == << <<"a">>, <<"a">> >>
PathB == << <<"b">> >>
Input(new, existing) == [new |-> new, existing |-> existing, denied |-> {}, justified |-> new \cup existing]
MCScopeInputs ==
    { Input({PathAB}, {PathB}), Input({ << <<"a">>, <<"**">> >> }, {PathB}), Input({PathAB}, {PathAB}) }
File(path, operation) == [path |-> path, operation |-> operation, content |-> {}]
MCReturns ==
    { <<>>, <<File(PathAB, "create")>>, <<File(PathAB, "create"), File(PathB, "modify")>>,
      <<File(PathB, "create")>>, <<File(PathB, "modify")>>, <<File(MCEnvExample, "create")>>,
      <<File(PathUpper, "create"), File(PathLower, "create")>>, <<File(PathLower, "create")>>,
      <<[File(PathAB, "create") EXCEPT !.content = {"git"}]>> }
MCBindings ==
    { [faults |-> {}, job |-> "j1", base |-> "full"], [faults |-> {}, job |-> "J1", base |-> "short"],
      [faults |-> {"spec_sha256"}, job |-> "j1", base |-> "full"] }
MCPythonPaths == {PathAB, PathUpper, PathLower}
MCUnplannable == {PathLower}
MCSlug == [j \in {"j1", "J1"} |-> "j1"]
Record(name, status) == [name |-> name, status |-> status, of |-> "j1"]
Python(lint, test) ==
    <<Record("python-syntax", "passed"), Record("blocking-python-lint", lint), Record("targeted-tests", test)>>
MCReports ==
    { <<>>, Python("passed", "passed"), Python("failed", "passed"), Python("failed", "blocked"),
      Python("passed", "not_run"), SubSeq(Python("passed", "passed"), 1, 2),
      <<Record("manual-non-python-review", "passed")>>,
      [i \in 1..3 |-> [Python("passed", "passed")[i] EXCEPT !.of = "J1"]],
      Python("passed", "passed") \o <<Record("python-syntax", "failed")>> }

MCVars == <<part, buildVars, scopeVars, jobVars, vars, effects>>

MCInit ==
    /\ part \in {"workflow", "scope", "job", "ledger", "effects"}
    /\ BuildInit /\ ScopeInit /\ JobInit /\ Init /\ EffectsInit

MCNext ==
    /\ UNCHANGED part
    /\ \/ part = "workflow" /\ BuildNext /\ UNCHANGED <<scopeVars, jobVars, vars, effects>>
       \/ part = "scope" /\ ScopeNext /\ UNCHANGED <<buildVars, jobVars, vars, effects>>
       \/ part = "job" /\ JobNext /\ UNCHANGED <<buildVars, scopeVars, vars, effects>>
       \/ part = "ledger" /\ Next /\ UNCHANGED <<buildVars, scopeVars, jobVars, effects>>
       \/ part = "effects" /\ EffectsNext /\ UNCHANGED <<buildVars, scopeVars, jobVars, vars>>

MCSpec == MCInit /\ [][MCNext]_MCVars
=============================================================================
