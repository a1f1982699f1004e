----------------------------- MODULE MCTrustChain -----------------------------
(***************************************************************************)
(* What a worker is given, what it says and how that is judged, for TLC:   *)
(* Assignment, WorkerExchange, TrustedPolicy, CandidateChecks and          *)
(* TrustChain.  They share no state, and a behaviour is about one of them. *)
(***************************************************************************)
EXTENDS TrustChain, CandidateChecks, MCAssignment, WorkerExchange, TLC

VARIABLE part   \* which of the five this behaviour is about

\* Both executions were given the same execution_id.
OneId == [x \in Executions |-> "e"]

Outcome(final, code, timed, cleaned) ==
  [final |-> final, code |-> code, timed |-> timed, cleaned |-> cleaned]

SomeReceipts ==
  {Outcome("succeeded", "zero", FALSE, TRUE),
   Outcome("succeeded", "zero", FALSE, FALSE),
   Outcome("timed_out", "zero", TRUE, TRUE),
   Outcome("termination_uncertain", "none", FALSE, TRUE)}

\* Right, wrong, and right with a secret outside the strict task's fence.
SomeOutputs == {"v" :> "two", "v" :> "one", "v" :> "two" @@ "u" :> "key"}

Secrets == {"key"}
Fence == [t \in Tasks |-> IF t = "strict" THEN {"v"} ELSE {"u", "v"}]
TaskCounts == [t \in Tasks |-> IF t = "strict" THEN 1 ELSE 2]
Ones == [t \in Tasks |-> "v" :> "one"]
Twos == [t \in Tasks |-> "v" :> "two"]

ExecutionSymmetry == Permutations(Executions)

-------------------------------------------------------------------------------

\* Check_Runner.py is check_runner.py on a file system that ignores case.
MCPaths ==
  Protected \cup ValueProtected \cup
    {ValuePath, "main.py", "Main.py", "test_main.py", "Check_Runner.py", "a/../b",
     "lib", "Lib", "lib/new.py", "Lib/new.py"}
MCFold ==
  [p \in MCPaths |-> CASE p = "Check_Runner.py" -> "check_runner.py"
                       [] p = "Main.py" -> "main.py"
                       [] p = "Lib" -> "lib"
                       [] p = "Lib/new.py" -> "lib/new.py"
                       [] OTHER -> p]
MCDirectories ==
  [p \in MCPaths |-> CASE p = "lib/new.py" -> {"lib"}
                       [] p = "Lib/new.py" -> {"Lib"}
                       [] OTHER -> {}]
MCRefusal == "a/../b" :> "path_not_canonical"
MCInventories ==
  {<<"main.py">>, <<"main.py", "Main.py">>, <<"main.py", "Check_Runner.py">>,
   <<"check_runtime.py", SelfPath>>, <<"a/../b">>}
MCRequestOf == "c1" :> "r1" @@ "c2" :> "r2"

\* The value profile; a contract whose fence names a protected file in another
\* letter case; one that requires what it does not allow; and one that wants a
\* file in a directory where the base has a file.
MainContract ==
  [id |-> "main", request |-> "r1", sha |-> "b1",
   base |-> "main.py" :> "a" @@ "test_main.py" :> "test",
   allowed |-> {"main.py", "Check_Runner.py"}, required |-> {"main.py"},
   protected |-> CheckPaths \cup {"test_main.py"}]
MCContracts ==
  {ValueContract("r1", "b1"), MainContract, [MainContract EXCEPT !.allowed = {}],
   [MainContract EXCEPT !.base = @ @@ "lib" :> "a",
                        !.allowed = {"Lib/new.py"}, !.required = {"Lib/new.py"}]}

MCReceipt(id, request, performed, uncertain) ==
  [id |-> id, request |-> request, sha |-> "b1",
   performed |-> performed, uncertain |-> uncertain]
MCWorkerReceipts ==
  {MCReceipt("e1", "r1", TRUE, FALSE), MCReceipt("e2", "r2", TRUE, FALSE),
   MCReceipt("e1", "r1", TRUE, TRUE)}

MCIntake(exec, payload) ==
  [exec |-> exec, admitted |-> TRUE, recorded |-> payload, payload |-> payload]
MCIntakes ==
  {MCIntake("e1", ValuePath :> "2"), MCIntake("e2", ValuePath :> "2"),
   MCIntake("e1", ValuePath :> "1"), MCIntake("e1", "main.py" :> "b"),
   MCIntake("e1", "Lib/new.py" :> "b"),
   MCIntake("e1", "main.py" :> "b" @@ "Check_Runner.py" :> "b"),
   [MCIntake("e1", ValuePath :> "2") EXCEPT !.recorded = ValuePath :> "3"],
   [MCIntake("e1", ValuePath :> "2") EXCEPT !.admitted = FALSE]}

MCCheckLists ==
  {<<PublicCheck>>,
   <<TrustedCheck("style", "flake8", {"main.py"}),
     TrustedCheck("tests", "pytest", {"test_main.py"})>>}

MCVars == <<assignmentVars, exchangeVars, policyVars, checkVars, vars, part>>

MCInit ==
  /\ part \in {"assignment", "exchange", "admission", "verification", "proof"}
  /\ AssignmentInit /\ ExchangeInit /\ PolicyInit /\ CheckInit /\ Init

MCNext ==
  \/ /\ part = "assignment" /\ AssignmentNext
     /\ UNCHANGED <<exchangeVars, policyVars, checkVars, vars, part>>
  \/ /\ part = "exchange" /\ ExchangeNext
     /\ UNCHANGED <<assignmentVars, policyVars, checkVars, vars, part>>
  \/ /\ part = "admission" /\ PolicyNext
     /\ UNCHANGED <<assignmentVars, exchangeVars, checkVars, vars, part>>
  \/ /\ part = "verification" /\ CheckNext
     /\ UNCHANGED <<assignmentVars, exchangeVars, policyVars, vars, part>>
  \/ /\ part = "proof" /\ Next
     /\ UNCHANGED <<assignmentVars, exchangeVars, policyVars, checkVars, part>>

MCSpec == MCInit /\ [][MCNext]_MCVars
===============================================================================
