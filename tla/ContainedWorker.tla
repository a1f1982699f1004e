--------------------------- MODULE ContainedWorker ---------------------------
(***************************************************************************)
(* DockerWorkerRuntime.execute of worker_runtime.py against a Docker       *)
(* daemon that refuses commands, answers late or acts after the client has *)
(* given up, and the chain of executions a host drives for one worker      *)
(* request on the advice of supervise_execution (supervisor.py).           *)
(*                                                                         *)
(* All executions are of one request, hence of one materialization         *)
(* contract: they share the name of the disposable workspace.  A host's    *)
(* k-th retry has an execution id of its own, hence a container name of    *)
(* its own.  A command ends in one of three ways for its client: "ok",     *)
(* "refused" (a non-zero return code, no effect) or "timeout" (the client  *)
(* raises; the daemon has acted, will act, or never does).                 *)
(***************************************************************************)
EXTENDS Supervision

CONSTANTS
  Hosts,   \* host processes that were handed the request
  Kills,   \* whether the operator may engage the kill switch
  None     \* no workspace, no breaker

Retries == 0..MaxRetryAttempts

Executions == Hosts \X Retries

ASSUME WorkerAssumption ==
  /\ Kills \in BOOLEAN
  /\ None \notin Executions
  /\ None \notin Breakers

VARIABLES
  workspace,   \* the execution whose workspace directory exists, or None
  container,   \* state of each execution's container in the daemon
  exit,        \* exit code of each container
  alone,       \* the worker ended by itself, not by stop or kill
  inflight,    \* commands the client gave up on and the daemon may yet run
  pc,          \* where each host is
  retry,       \* retry_count of each host's chain
  run,         \* the locals of execute, then its receipt
  breaker,     \* the chain's latest circuit breaker snapshot
  confirmed,   \* executions whose receipt says cleanup_confirmed
  kill         \* kill_switch_engaged of the policy in force

daemon == <<container, exit, alone, inflight>>
chain == <<retry, breaker>>
vars == <<workspace, daemon, pc, run, chain, confirmed, kill>>

Commands == {"create", "start", "stop", "kill", "rm"}

ContainerStates == {"absent", "created", "running", "exited", "dead",
                    "removed"}

Steps == {"idle", "prepare", "inspect", "create", "verify", "start", "poll",
          "stop", "kill", "observe", "logs", "rm", "rmdir", "returned",
          "advised", "raised", "lost", "done"}

Resting == {"idle", "raised", "lost", "done"}

\* cancel: cancellation_semantics was given; known: container_id is not None;
\* final, code, timed: as in the receipt; failed: an exception is being
\* raised; clean: container_clean, then cleanup_confirmed.
Runs == [cancel: BOOLEAN, known: BOOLEAN, final: FinalStates \cup {"running"},
         code: ExitCodes, timed: BOOLEAN, failed: BOOLEAN, clean: BOOLEAN]

FreshRun(c) == [cancel |-> c, known |-> FALSE, final |-> "running",
                code |-> "none", timed |-> FALSE, failed |-> FALSE,
                clean |-> TRUE]

Current(h) == <<h, retry[h]>>

Receipt(h) == [final |-> run[h].final, code |-> run[h].code,
               timed |-> run[h].timed, cleaned |-> run[h].clean]

TypeOK ==
  /\ workspace \in Executions \cup {None}
  /\ container \in [Executions -> ContainerStates]
  /\ exit \in [Executions -> ExitCodes]
  /\ alone \in [Executions -> BOOLEAN]
  /\ inflight \in [Executions -> SUBSET Commands]
  /\ pc \in [Hosts -> Steps]
  /\ retry \in [Hosts -> Retries]
  /\ run \in [Hosts -> Runs]
  /\ \A h \in Hosts : pc[h] = "returned" => run[h].final \in FinalStates
  /\ breaker \in [Hosts -> Breakers \cup {None}]
  /\ confirmed \subseteq Executions
  /\ kill \in BOOLEAN

Init ==
  /\ workspace = None
  /\ container = [x \in Executions |-> "absent"]
  /\ exit = [x \in Executions |-> "none"]
  /\ alone = [x \in Executions |-> FALSE]
  /\ inflight = [x \in Executions |-> {}]
  /\ pc = [h \in Hosts |-> "idle"]
  /\ retry = [h \in Hosts |-> 0]
  /\ run = [h \in Hosts |-> FreshRun(FALSE)]
  /\ breaker = [h \in Hosts |-> None]
  /\ confirmed = {}
  /\ kill = FALSE

------------------------------------------------------------------------------
(* The daemon. *)

\* The daemon accepts command c for the container of x.
Accepts(x, c) ==
  CASE c = "create" -> container[x] = "absent"
    [] c = "start" -> container[x] \in {"created", "exited"}
    [] c = "stop" -> container[x] \in {"running", "exited", "dead"}
    [] c = "kill" -> container[x] = "running"
    [] c = "rm" -> container[x] \notin {"absent", "removed"}

\* What command c makes of the container of x.
Effect(x, c) ==
  /\ Accepts(x, c)
  /\ container' = [container EXCEPT ![x] =
       CASE c = "create" -> "created"
         [] c = "start" -> "running"
         [] c = "rm" -> "removed"
         [] c \in {"stop", "kill"} ->
              IF container[x] = "running" THEN "exited" ELSE container[x]]
  /\ \/ /\ c \in {"stop", "kill"}
        /\ container[x] = "running"
        /\ \E code \in {"zero", "nonzero"} :   \* the worker may handle SIGTERM
             exit' = [exit EXCEPT ![x] = code]
        /\ alone' = alone
     \/ /\ c = "rm"
        /\ exit' = [exit EXCEPT ![x] = "none"]
        /\ alone' = [alone EXCEPT ![x] = FALSE]
     \/ /\ ~(c \in {"stop", "kill"} /\ container[x] = "running")
        /\ c # "rm"
        /\ UNCHANGED <<exit, alone>>

\* A command that the client sees succeed.
Ok(x, c) == Effect(x, c) /\ UNCHANGED inflight

\* A command that the client sees refused: the daemon may refuse any.
Refused(x, c) == UNCHANGED daemon

\* A command the client gives up on after its timeout.
Timeout(x, c) ==
  \/ Effect(x, c) /\ UNCHANGED inflight
  \/ /\ inflight' = [inflight EXCEPT ![x] = @ \cup {c}]
     /\ UNCHANGED <<container, exit, alone>>

\* The daemon gets round to a command whose client has given up.
LateEffect(x, c) ==
  /\ c \in inflight[x]
  /\ inflight' = [inflight EXCEPT ![x] = @ \ {c}]
  /\ IF Accepts(x, c) THEN Effect(x, c) ELSE UNCHANGED <<container, exit, alone>>
  /\ UNCHANGED <<workspace, pc, run, chain, confirmed, kill>>

\* The worker ends by itself, or its container dies.
WorkerEnds(x) ==
  /\ container[x] = "running"
  /\ \/ /\ container' = [container EXCEPT ![x] = "exited"]
        /\ \E code \in {"zero", "nonzero"} : exit' = [exit EXCEPT ![x] = code]
     \/ /\ container' = [container EXCEPT ![x] = "dead"]
        /\ UNCHANGED exit
  /\ alone' = [alone EXCEPT ![x] = TRUE]
  /\ UNCHANGED <<workspace, inflight, pc, run, chain, confirmed, kill>>

------------------------------------------------------------------------------
(* DockerWorkerRuntime.execute. *)

Goto(h, step) == pc' = [pc EXCEPT ![h] = step]

\* An exception inside the try block: run the finally block, then re-raise.
Raise(h) ==
  /\ Goto(h, "rm")
  /\ run' = [run EXCEPT ![h].failed = TRUE]

\* A host starts on the request, possibly with a cancellation in hand.
Begin(h, cancel) ==
  /\ pc[h] = "idle"
  /\ Goto(h, "prepare")
  /\ run' = [run EXCEPT ![h] = FreshRun(cancel)]
  /\ UNCHANGED <<workspace, daemon, chain, confirmed, kill>>

\* The workspace is written over whatever is there.
PrepareAnyway(h) ==
  /\ pc[h] = "prepare"
  /\ workspace' = Current(h)
  /\ Goto(h, "inspect")
  /\ UNCHANGED <<daemon, run, chain, confirmed, kill>>

\* _write_exact_source: the directory must not exist, and is removed again
\* (if that works) when the sources do not match the manifest.
Prepare(h) ==
  /\ pc[h] = "prepare"
  /\ \/ /\ workspace # None
        /\ Goto(h, "raised")
        /\ UNCHANGED workspace
     \/ /\ workspace = None
        /\ workspace' = Current(h)
        /\ Goto(h, "inspect")
     \/ /\ workspace = None
        /\ workspace' \in {None, Current(h)}
        /\ Goto(h, "raised")
  /\ UNCHANGED <<daemon, run, chain, confirmed, kill>>

\* _inspect_runtime and _inspect_image
Inspect(h) ==
  /\ pc[h] = "inspect"
  /\ \/ Goto(h, "create") /\ UNCHANGED run
     \/ Raise(h)
  /\ UNCHANGED <<workspace, daemon, chain, confirmed, kill>>

Create(h) ==
  /\ pc[h] = "create"
  /\ \/ /\ Ok(Current(h), "create")
        /\ Goto(h, "verify")
        /\ run' = [run EXCEPT ![h].known = TRUE]
     \/ (Refused(Current(h), "create") \/ Timeout(Current(h), "create"))
        /\ Raise(h)
  /\ UNCHANGED <<workspace, chain, confirmed, kill>>

\* _inspect_container and _verify_enforcement: the container must be as it
\* was asked for, and not started.
Verify(h) ==
  /\ pc[h] = "verify"
  /\ \/ /\ container[Current(h)] = "created"
        /\ Goto(h, "start")
        /\ UNCHANGED run
     \/ Raise(h)
  /\ UNCHANGED <<workspace, daemon, chain, confirmed, kill>>

Start(h) ==
  /\ pc[h] = "start"
  /\ \/ /\ Ok(Current(h), "start")
        /\ Goto(h, IF run[h].cancel THEN "stop" ELSE "poll")
        /\ UNCHANGED run
     \/ (Refused(Current(h), "start") \/ Timeout(Current(h), "start"))
        /\ Raise(h)
  /\ UNCHANGED <<workspace, chain, confirmed, kill>>

\* The lifecycle ends in state final, with the exit code that was inspected.
Conclude(h, final, code) ==
  /\ Goto(h, "logs")
  /\ run' = [run EXCEPT ![h].final = final, ![h].code = code]

\* One round of _poll that finds the worker no longer running, or fails to
\* inspect it.  A round that finds it running changes nothing.
Poll(h) ==
  /\ pc[h] = "poll"
  /\ \/ Conclude(h, "termination_uncertain", "none")
     \/ /\ container[Current(h)] = "exited"
        /\ Conclude(h, IF exit[Current(h)] = "zero" THEN "succeeded"
                       ELSE "failed", exit[Current(h)])
     \/ /\ container[Current(h)] = "dead"
        /\ Conclude(h, "crashed", "none")
  /\ UNCHANGED <<workspace, daemon, chain, confirmed, kill>>

\* The wall-clock deadline passes before the worker is seen to have ended.
Deadline(h) ==
  /\ pc[h] = "poll"
  /\ Goto(h, "stop")
  /\ run' = [run EXCEPT ![h].timed = TRUE]
  /\ UNCHANGED <<workspace, daemon, chain, confirmed, kill>>

Stop(h) ==
  /\ pc[h] = "stop"
  /\ \/ Ok(Current(h), "stop") /\ Goto(h, "observe") /\ UNCHANGED run
     \/ Refused(Current(h), "stop") /\ Goto(h, "kill") /\ UNCHANGED run
     \/ Timeout(Current(h), "stop") /\ Raise(h)
  /\ UNCHANGED <<workspace, chain, confirmed, kill>>

Kill(h) ==
  /\ pc[h] = "kill"
  /\ \/ Ok(Current(h), "kill") /\ Goto(h, "observe") /\ UNCHANGED run
     \/ /\ Refused(Current(h), "kill")
        /\ Conclude(h, "termination_uncertain", "none")
     \/ Timeout(Current(h), "kill") /\ Raise(h)
  /\ UNCHANGED <<workspace, chain, confirmed, kill>>

\* A successful stop or kill is taken as the end of the worker; the inspected
\* exit code decides the outcome.
ObserveByExitCode(h) ==
  /\ pc[h] = "observe"
  /\ Conclude(h, IF exit[Current(h)] = "zero" THEN "succeeded" ELSE "failed",
              exit[Current(h)])
  /\ UNCHANGED <<workspace, daemon, chain, confirmed, kill>>

\* The last inspection of _cancel_container.
Observe(h) ==
  /\ pc[h] = "observe"
  /\ \/ Conclude(h, "termination_uncertain", "none")
     \/ /\ container[Current(h)] \in {"exited", "dead"}
        /\ Conclude(h, IF run[h].timed THEN "timed_out" ELSE "cancelled",
                    exit[Current(h)])
  /\ UNCHANGED <<workspace, daemon, chain, confirmed, kill>>

\* docker logs: its return code is not looked at; a timeout or an output over
\* the policy's bound raises.
Logs(h) ==
  /\ pc[h] = "logs"
  /\ \/ Goto(h, "rm") /\ UNCHANGED run
     \/ Raise(h)
  /\ UNCHANGED <<workspace, daemon, chain, confirmed, kill>>

\* A removal that times out is taken for done.
RemoveTrusting(h) ==
  /\ pc[h] = "rm"
  /\ Goto(h, "rmdir")
  /\ \/ run[h].known /\ (Ok(Current(h), "rm") \/ Timeout(Current(h), "rm"))
     \/ ~run[h].known /\ UNCHANGED daemon
  /\ UNCHANGED <<workspace, run, chain, confirmed, kill>>

\* The finally block, container first: without a container id there is
\* nothing to remove and nothing is in doubt.
Remove(h) ==
  /\ pc[h] = "rm"
  /\ Goto(h, "rmdir")
  /\ \/ /\ run[h].known
        /\ Ok(Current(h), "rm")
        /\ UNCHANGED run
     \/ /\ run[h].known
        /\ Refused(Current(h), "rm") \/ Timeout(Current(h), "rm")
        /\ run' = [run EXCEPT ![h].clean = FALSE]
     \/ /\ ~run[h].known
        /\ UNCHANGED <<daemon, run>>
  /\ UNCHANGED <<workspace, chain, confirmed, kill>>

\* _remove_workspace, then the exception or the receipt, whose
\* cleanup_confirmed needs both removals.
RemoveWorkspace(h) ==
  /\ pc[h] = "rmdir"
  /\ Goto(h, IF run[h].failed THEN "raised" ELSE "returned")
  /\ \E removed \in BOOLEAN :
       /\ workspace' = IF removed THEN None ELSE workspace
       /\ run' = [run EXCEPT ![h] =
            IF run[h].failed THEN FreshRun(FALSE)
            ELSE [run[h] EXCEPT !.clean = run[h].clean /\ removed]]
       /\ confirmed' = IF ~run[h].failed /\ run[h].clean /\ removed
                       THEN confirmed \cup {Current(h)} ELSE confirmed
  /\ UNCHANGED <<daemon, chain, kill>>

------------------------------------------------------------------------------
(* supervise_execution, and a host that retries only on its advice. *)

Prior(h) == IF breaker[h] = None THEN InitialBreaker(kill) ELSE breaker[h]

\* A breaker made under another policy is rejected: the host gets no advice.
\* The host goes on only when the advice says that a retry is eligible.
Supervise(h, obs, intake) ==
  /\ pc[h] = "returned"
  /\ LET class == Classify(Receipt(h), obs, intake)
         next == NextBreaker(Prior(h), class, kill)
     IN IF Prior(h).kill # kill
        THEN Goto(h, "done") /\ UNCHANGED breaker
        ELSE /\ breaker' = [breaker EXCEPT ![h] = next]
             /\ Goto(h, IF RetryEligible(Receipt(h), intake, class, next,
                                         retry[h])
                        THEN "advised" ELSE "done")
  /\ run' = [run EXCEPT ![h] = FreshRun(FALSE)]
  /\ UNCHANGED <<workspace, daemon, retry, confirmed, kill>>

\* The host executes the request again under a new execution id.
Retry(h, cancel) ==
  /\ pc[h] = "advised"
  /\ Goto(h, "prepare")
  /\ retry' = [retry EXCEPT ![h] = @ + 1]
  /\ run' = [run EXCEPT ![h] = FreshRun(cancel)]
  /\ UNCHANGED <<workspace, daemon, breaker, confirmed, kill>>

\* The host process dies: the finally block does not run.
Crash(h) ==
  /\ pc[h] \notin Resting
  /\ Goto(h, "lost")
  /\ run' = [run EXCEPT ![h] = FreshRun(FALSE)]
  /\ UNCHANGED <<workspace, daemon, chain, confirmed, kill>>

\* The operator supplies a policy with the kill switch engaged.
EngageKillSwitch ==
  /\ Kills
  /\ ~kill
  /\ kill' = TRUE
  /\ UNCHANGED <<workspace, daemon, pc, run, chain, confirmed>>

------------------------------------------------------------------------------

\* A step of a host inside execute.
Step(h) ==
  \/ Prepare(h) \/ Inspect(h) \/ Create(h) \/ Verify(h) \/ Start(h)
  \/ Poll(h) \/ Deadline(h) \/ Stop(h) \/ Kill(h) \/ Observe(h)
  \/ Logs(h) \/ Remove(h) \/ RemoveWorkspace(h)

Next ==
  \/ \E h \in Hosts :
       \/ Step(h) \/ Crash(h)
       \/ \E cancel \in BOOLEAN : Begin(h, cancel) \/ Retry(h, cancel)
       \/ \E obs \in Observations, intake \in Intakes : Supervise(h, obs, intake)
  \/ \E x \in Executions : WorkerEnds(x) \/ \E c \in Commands : LateEffect(x, c)
  \/ EngageKillSwitch

Spec == Init /\ [][Next]_vars

------------------------------------------------------------------------------

Over(x) == container[x] \in {"exited", "dead", "removed"}

\* A conclusion other than termination_uncertain is true: the worker has
\* ended, its container does not run again whatever commands the daemon still
\* holds, and "succeeded" means that the worker ended by itself with exit code
\* zero and not that it survived a stop at the deadline.
ReceiptIsTrue ==
  \A h \in Hosts :
    run[h].final \in FinalStates /\ ~Uncertain(Receipt(h)) =>
      /\ Over(Current(h))
      /\ "start" \notin inflight[Current(h)]
      /\ run[h].final = "succeeded" /\ container[Current(h)] # "removed" =>
           alone[Current(h)] /\ exit[Current(h)] = "zero"

\* cleanup_confirmed is true, and stays true, of an execution that left
\* nothing: its container is gone for good, no command for it is in flight,
\* and the workspace is not its own.
CleanupIsTrue ==
  \A x \in confirmed : /\ container[x] = "removed"
                       /\ inflight[x] = {}
                       /\ workspace # x

\* The host of x is inside execute.
Active(x) ==
  LET h == x[1] IN x = Current(h) /\ pc[h] \notin Resting \cup {"returned", "advised"}

\* Two workers never run on the same request, whichever hosts were handed it:
\* the workspace directory is their lock.  Only a container that its host lost
\* (the cleanup was not confirmed) may run beside a later execution.
OneWorkerPerRequest ==
  \A x, y \in Executions :
    container[x] = "running" /\ container[y] = "running" /\ x # y =>
      ~Active(x) \/ ~Active(y)

\* A host that goes by the supervisor's advice never starts a retry while
\* something of an earlier execution of its own remains: container, in-flight
\* command or workspace.
RetryIsSafe ==
  \A h \in Hosts : \A k \in Retries : k < retry[h] =>
    /\ container[<<h, k>>] = "removed"
    /\ inflight[<<h, k>>] = {}
    /\ workspace # <<h, k>>

\* No endless retry: a chain never has more executions than the failures that
\* open the circuit breaker.
ChainsEnd == \A h \in Hosts : retry[h] < CircuitBreakerFailures

\* Once the kill switch is engaged no host is advised to retry, whatever its
\* execution came to and whichever policy its breaker was made under.
KillSwitchHolds ==
  [][\A h \in Hosts : kill /\ pc'[h] = "advised" => pc[h] = "advised"]_vars
==============================================================================
