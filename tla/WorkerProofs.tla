---------------------------- MODULE WorkerProofs -----------------------------
(***************************************************************************)
(* Proofs about workers, for any hosts, policies, plans and contracts.     *)
(*                                                                         *)
(* The contained worker: the inductive invariant is stated host by host -  *)
(* the workspace directory is a lock, an execution without a failure so    *)
(* far has left no command in flight, and a chain goes on only from a      *)
(* confirmed cleanup.                                                      *)
(*                                                                         *)
(* The way from an admitted plan to a worker: a packet carries no more     *)
(* authority than the request and the admission gave, and the outcome of   *)
(* an exchange with a worker is one the worker earned.                     *)
(***************************************************************************)
EXTENDS Assignment, WorkerExchange, ContainedWorker, TLAPS

------------------------------------------------------------------------------
(* The contained worker.                                                   *)

Inside == {"inspect", "create", "verify", "start", "poll", "stop", "kill",
           "observe", "logs", "rm", "rmdir"}

Begun == {"verify", "start", "poll", "stop", "kill", "observe", "logs"}

Untouched == {"idle", "prepare", "inspect", "create"}

\* The workspace directory is held as a lock while execute runs.
Locked(h) == pc[h] \in Inside => workspace = Current(h)

\* The daemon knows nothing of an execution that has not created anything.
Fresh(h) ==
  \A k \in Retries :
    k > retry[h] \/ (k = retry[h] /\ pc[h] \in Untouched) =>
      container[<<h, k>>] = "absent" /\ inflight[<<h, k>>] = {}

\* An execution without a failure so far has left no command in flight.
Quiet(h) ==
  /\ pc[h] \in Untouched => ~run[h].known /\ ~run[h].failed /\ run[h].clean
  /\ pc[h] \in Begun =>
       run[h].known /\ ~run[h].failed /\ run[h].clean /\ inflight[Current(h)] = {}
  /\ pc[h] = "rm" /\ ~run[h].failed =>
       run[h].known /\ run[h].clean /\ inflight[Current(h)] = {}
  /\ pc[h] = "rmdir" /\ ~run[h].failed /\ run[h].clean =>
       container[Current(h)] = "removed" /\ inflight[Current(h)] = {}

\* A worker that is being watched has ended only by itself.
Watched(h) ==
  /\ pc[h] \in {"verify", "start"} => container[Current(h)] = "created"
  /\ pc[h] = "poll" =>
       \/ container[Current(h)] = "running"
       \/ container[Current(h)] \in {"exited", "dead"} /\ alone[Current(h)]

\* What was concluded of the worker is true and stays true.
Truthful(h) ==
  /\ run[h].final # "running" => pc[h] \in {"logs", "rm", "rmdir", "returned"}
  /\ pc[h] \in {"logs", "returned"} => run[h].final # "running"
  /\ pc[h] \in {"rm", "rmdir"} /\ ~run[h].failed => run[h].final # "running"
  /\ run[h].final \notin {"running", "termination_uncertain"} =>
       /\ Over(Current(h))
       /\ inflight[Current(h)] \subseteq {"rm"}
       /\ run[h].final = "succeeded" /\ container[Current(h)] # "removed" =>
            alone[Current(h)] /\ exit[Current(h)] = "zero"

\* A chain goes on only from a confirmed cleanup.
Confirmed(h) ==
  /\ \A k \in Retries : <<h, k>> \in confirmed =>
       \/ k < retry[h]
       \/ k = retry[h] /\ pc[h] \in {"returned", "advised", "done", "lost"}
  /\ \A k \in Retries : k < retry[h] => <<h, k>> \in confirmed
  /\ pc[h] = "returned" /\ run[h].clean => Current(h) \in confirmed
  /\ pc[h] = "advised" => Current(h) \in confirmed

\* The breaker counts the executions of the chain.
Counted(h) ==
  /\ retry[h] < CircuitBreakerFailures
  /\ pc[h] \in Inside \cup {"idle", "prepare", "returned"} =>
       IF breaker[h] = None THEN retry[h] = 0
       ELSE breaker[h] \in Breakers /\ breaker[h].failures = retry[h]
  /\ pc[h] = "advised" =>
       /\ breaker[h] # None
       /\ breaker[h] \in Breakers
       /\ breaker[h].failures = retry[h] + 1
       /\ breaker[h].failures < CircuitBreakerFailures
       /\ retry[h] < MaxRetryAttempts

HostInv(h) == /\ Locked(h) /\ Fresh(h) /\ Quiet(h) /\ Watched(h)
              /\ Truthful(h) /\ Confirmed(h) /\ Counted(h)

Inv == TypeOK /\ CleanupIsTrue /\ \A h \in Hosts : HostInv(h)

\* Nothing that a step of host h leaves alone has changed.
Frame(h) ==
  /\ \A g \in Hosts \ {h} :
       /\ pc'[g] = pc[g] /\ run'[g] = run[g]
       /\ retry'[g] = retry[g] /\ breaker'[g] = breaker[g]
  /\ \A x \in Executions : x # Current(h) =>
       /\ container'[x] = container[x] /\ exit'[x] = exit[x]
       /\ alone'[x] = alone[x] /\ inflight'[x] = inflight[x]

\* The steps of other hosts do not disturb what is known of a host: they act
\* on executions of their own and do not touch a workspace that is held.
LEMMA OtherHosts ==
  ASSUME Inv, NEW h \in Hosts, Frame(h),
         \A g \in Hosts \ {h} : pc[g] \in Inside => workspace' = workspace,
         confirmed \subseteq confirmed', confirmed' \subseteq confirmed \cup {Current(h)}
  PROVE  \A g \in Hosts \ {h} : HostInv(g)'
<1> SUFFICES ASSUME NEW g \in Hosts \ {h} PROVE HostInv(g)'
  OBVIOUS
<1>1. HostInv(g) /\ retry[g] \in Retries /\ retry[h] \in Retries
  BY DEF Inv, TypeOK
<1>2. /\ pc'[g] = pc[g] /\ run'[g] = run[g]
      /\ retry'[g] = retry[g] /\ breaker'[g] = breaker[g]
  BY DEF Frame
<1>3. \A k \in Retries : /\ container'[<<g, k>>] = container[<<g, k>>]
                         /\ exit'[<<g, k>>] = exit[<<g, k>>]
                         /\ alone'[<<g, k>>] = alone[<<g, k>>]
                         /\ inflight'[<<g, k>>] = inflight[<<g, k>>]
                         /\ <<g, k>> \in confirmed' <=> <<g, k>> \in confirmed
  BY <1>1 DEF Frame, Executions, Current
<1>4. Current(g)' = Current(g) /\ Current(g) = <<g, retry[g]>>
  BY <1>2 DEF Current
<1>5. Locked(g)'
  BY <1>1, <1>2, <1>4 DEF HostInv, Locked
<1>6. Fresh(g)'
  BY <1>1, <1>2, <1>3 DEF HostInv, Fresh
<1>7. Quiet(g)'
  BY <1>1, <1>2, <1>3, <1>4 DEF HostInv, Quiet
<1>8. Watched(g)'
  BY <1>1, <1>2, <1>3, <1>4 DEF HostInv, Watched
<1>9. Truthful(g)'
  BY <1>1, <1>2, <1>3, <1>4 DEF HostInv, Truthful, Over
<1>10. Confirmed(g)'
  BY <1>1, <1>2, <1>3, <1>4 DEF HostInv, Confirmed
<1>11. Counted(g)'
  BY <1>1, <1>2 DEF HostInv, Counted
<1> QED BY <1>5, <1>6, <1>7, <1>8, <1>9, <1>10, <1>11 DEF HostInv
\* What a command makes of one container, and of no other.
LEMMA EffectFacts ==
  ASSUME TypeOK, NEW x \in Executions, NEW c \in Commands, Effect(x, c)
  PROVE  /\ container' \in [Executions -> ContainerStates]
         /\ exit' \in [Executions -> ExitCodes]
         /\ alone' \in [Executions -> BOOLEAN]
         /\ \A y \in Executions : y # x =>
              container'[y] = container[y] /\ exit'[y] = exit[y] /\ alone'[y] = alone[y]
         /\ c = "create" => container[x] = "absent" /\ container'[x] = "created"
         /\ c = "start" => container'[x] = "running"
         /\ c = "rm" => container'[x] = "removed"
         /\ c \in {"stop", "kill"} =>
              container[x] \in {"running", "exited", "dead"}
              /\ container'[x] \in {"exited", "dead"}
<1>1. /\ container \in [Executions -> ContainerStates]
      /\ exit \in [Executions -> ExitCodes] /\ alone \in [Executions -> BOOLEAN]
  BY DEF TypeOK
<1>2. c = "create" \/ c = "start" \/ c = "stop" \/ c = "kill" \/ c = "rm"
  BY DEF Commands
<1>3. CASE c = "create"
  BY <1>1, <1>3 DEF Effect, Accepts, ContainerStates
<1>4. CASE c = "start"
  BY <1>1, <1>4 DEF Effect, Accepts, ContainerStates
<1>5. CASE c = "rm"
  BY <1>1, <1>5 DEF Effect, Accepts, ContainerStates, ExitCodes
<1>6. CASE c = "stop"
  BY <1>1, <1>6 DEF Effect, Accepts, ContainerStates, ExitCodes
<1>7. CASE c = "kill"
  BY <1>1, <1>7 DEF Effect, Accepts, ContainerStates, ExitCodes
<1> QED BY <1>2, <1>3, <1>4, <1>5, <1>6, <1>7

\* A command of a client, however it ends for the client.
LEMMA CommandFacts ==
  ASSUME TypeOK, NEW x \in Executions, NEW c \in Commands,
         Ok(x, c) \/ Refused(x, c) \/ Timeout(x, c)
  PROVE  /\ container' \in [Executions -> ContainerStates]
         /\ exit' \in [Executions -> ExitCodes]
         /\ alone' \in [Executions -> BOOLEAN]
         /\ inflight' \in [Executions -> SUBSET Commands]
         /\ \A y \in Executions : y # x =>
              /\ container'[y] = container[y] /\ exit'[y] = exit[y]
              /\ alone'[y] = alone[y] /\ inflight'[y] = inflight[y]
         /\ inflight'[x] \subseteq inflight[x] \cup {c}
         /\ \/ container'[x] = container[x] /\ exit'[x] = exit[x] /\ alone'[x] = alone[x]
            \/ Effect(x, c)
<1>1. CASE Effect(x, c) /\ UNCHANGED inflight
  BY <1>1, EffectFacts DEF TypeOK
<1>2. CASE UNCHANGED daemon
  BY <1>2 DEF TypeOK, daemon
<1>3. CASE /\ inflight' = [inflight EXCEPT ![x] = @ \cup {c}]
           /\ UNCHANGED <<container, exit, alone>>
  BY <1>3 DEF TypeOK
<1> QED BY <1>1, <1>2, <1>3 DEF Ok, Refused, Timeout

\* A step of a host that leaves workspace and confirmations alone.
LEMMA HostStep ==
  ASSUME Inv, NEW h \in Hosts, TypeOK', Frame(h), HostInv(h)',
         UNCHANGED <<workspace, confirmed>>,
         Current(h) \notin confirmed \/ UNCHANGED daemon
  PROVE  Inv'
<1>1. \A g \in Hosts \ {h} : HostInv(g)'
  BY OtherHosts
<1>2. CleanupIsTrue'
  <2> SUFFICES ASSUME NEW x \in confirmed
               PROVE  /\ container'[x] = "removed" /\ inflight'[x] = {}
                      /\ workspace' # x
    BY DEF CleanupIsTrue
  <2>1. x \in Executions /\ container[x] = "removed" /\ inflight[x] = {} /\ workspace # x
    BY DEF Inv, TypeOK, CleanupIsTrue
  <2> QED BY <2>1 DEF Frame, daemon
<1> QED BY <1>1, <1>2 DEF Inv

\* When host h may move to step s with locals r, given what the daemon does to
\* its container.
MayMove(h, s, r) ==
  /\ s \in Inside => pc[h] \in Inside
  /\ s \in Untouched => /\ pc[h] \in Untouched /\ UNCHANGED daemon
                        /\ ~r.known /\ ~r.failed /\ r.clean
  /\ s \in Begun => r.known /\ ~r.failed /\ r.clean /\ inflight'[Current(h)] = {}
  /\ s = "rm" /\ ~r.failed => r.known /\ r.clean /\ inflight'[Current(h)] = {}
  /\ s = "rmdir" /\ ~r.failed /\ r.clean =>
       container'[Current(h)] = "removed" /\ inflight'[Current(h)] = {}
  /\ s \in {"verify", "start"} => container'[Current(h)] = "created"
  /\ s = "poll" => container'[Current(h)] = "running"
  /\ r.final # "running" => s \in {"logs", "rm", "rmdir"}
  /\ s = "logs" => r.final # "running"
  /\ s \in {"rm", "rmdir"} /\ ~r.failed => r.final # "running"
  /\ r.final \notin {"running", "termination_uncertain"} =>
       /\ container'[Current(h)] \in {"exited", "dead", "removed"}
       /\ inflight'[Current(h)] \subseteq {"rm"}
       /\ r.final = "succeeded" /\ container'[Current(h)] # "removed" =>
            alone'[Current(h)] /\ exit'[Current(h)] = "zero"
  /\ s \notin {"returned", "advised"}
  /\ (s = "lost" /\ UNCHANGED daemon) \/ pc[h] \in Inside \cup {"idle", "prepare"}

\* The daemon's variables keep their types, and only the container of the
\* current execution of h is touched.
Touches(h) ==
  /\ container' \in [Executions -> ContainerStates]
  /\ exit' \in [Executions -> ExitCodes]
  /\ alone' \in [Executions -> BOOLEAN]
  /\ inflight' \in [Executions -> SUBSET Commands]
  /\ \A x \in Executions : x # Current(h) =>
       /\ container'[x] = container[x] /\ exit'[x] = exit[x]
       /\ alone'[x] = alone[x] /\ inflight'[x] = inflight[x]

\* Such a move keeps the invariant.
LEMMA MoveKeeps ==
  ASSUME Inv, NEW h \in Hosts, NEW s \in Steps, pc' = [pc EXCEPT ![h] = s],
         NEW r \in Runs, run' = [run EXCEPT ![h] = r],
         UNCHANGED <<workspace, chain, confirmed, kill>>,
         Touches(h), MayMove(h, s, r)
  PROVE  Inv'
<1>1. pc'[h] = s /\ run'[h] = r /\ Current(h)' = Current(h)
      /\ UNCHANGED <<workspace, confirmed, retry, breaker>>
  BY DEF Inv, TypeOK, Current, chain
<1>2. Frame(h)
  BY <1>1 DEF Frame, Inv, TypeOK, Touches
<1>3. HostInv(h) /\ retry[h] \in Retries
  BY DEF Inv, TypeOK
<1>4. Locked(h)'
  BY <1>1, <1>3 DEF MayMove, HostInv, Locked
<1>5. Watched(h)'
  BY <1>1, <1>3 DEF MayMove, Watched
<1>6. Fresh(h)'
  <2> SUFFICES ASSUME NEW k \in Retries,
                      k > retry[h] \/ (k = retry[h] /\ s \in Untouched)
               PROVE  container'[<<h, k>>] = "absent" /\ inflight'[<<h, k>>] = {}
    BY <1>1 DEF Fresh
  <2>1. CASE k > retry[h]
    BY <1>3, <2>1 DEF HostInv, Fresh, Touches, Current, Executions, Retries
  <2>2. CASE k = retry[h] /\ s \in Untouched
    BY <1>3, <2>2 DEF HostInv, Fresh, MayMove, daemon
  <2> QED BY <2>1, <2>2
<1>7. Quiet(h)'
  BY <1>1, <1>3 DEF MayMove, Quiet
<1>8. Truthful(h)'
  BY <1>1, <1>3 DEF MayMove, Truthful, Over
<1>9. Confirmed(h)'
  BY <1>1, <1>3 DEF MayMove, HostInv, Confirmed, Inside
<1>10. Counted(h)'
  BY <1>1, <1>3 DEF MayMove, HostInv, Counted, Inside
<1>11. TypeOK'
  <2>1. \A g \in Hosts : pc'[g] = "returned" => run'[g].final \in FinalStates
    BY <1>1 DEF Inv, TypeOK, MayMove
  <2>2. kill' = kill
    OBVIOUS
  <2> QED BY <1>1, <2>1, <2>2 DEF Inv, TypeOK, Touches
<1>12. HostInv(h)'
  BY <1>4, <1>5, <1>6, <1>7, <1>8, <1>9, <1>10 DEF HostInv
<1>13. Current(h) \notin confirmed \/ UNCHANGED daemon
  BY <1>3 DEF MayMove, HostInv, Confirmed, Current, Inside, Retries
<1> QED BY <1>1, <1>2, <1>11, <1>12, <1>13, HostStep

\* A raise out of the try block keeps the invariant whatever became of the
\* container, as long as nothing was concluded or nothing has happened to it.
LEMMA RaiseKeeps ==
  ASSUME Inv, NEW h \in Hosts, pc[h] \in Inside, Raise(h),
         UNCHANGED <<workspace, chain, confirmed, kill>>, Touches(h),
         run[h].final = "running" \/ (pc[h] = "logs" /\ UNCHANGED daemon)
  PROVE  Inv'
<1> DEFINE r == [run[h] EXCEPT !.failed = TRUE]
<1>1. /\ r \in Runs /\ r.failed /\ r.final = run[h].final
      /\ run' = [run EXCEPT ![h] = r] /\ pc' = [pc EXCEPT ![h] = "rm"]
  BY DEF Raise, Goto, Runs, Inv, TypeOK
<1>2. HostInv(h)
  BY DEF Inv
<1>3. MayMove(h, "rm", r)
  BY <1>1, <1>2 DEF MayMove, HostInv, Truthful, Over, daemon, Untouched, Begun
<1> HIDE DEF r
<1> QED BY <1>1, <1>3, MoveKeeps DEF Steps

\* So does a conclusion that the last inspection justifies.
LEMMA ConcludeKeeps ==
  ASSUME Inv, NEW h \in Hosts, pc[h] \in Begun,
         NEW final \in FinalStates, NEW code \in ExitCodes, Conclude(h, final, code),
         UNCHANGED <<workspace, daemon, chain, confirmed, kill>>,
         final # "termination_uncertain" =>
           /\ container[Current(h)] \in {"exited", "dead"}
           /\ final = "succeeded" => alone[Current(h)] /\ exit[Current(h)] = "zero"
  PROVE  Inv'
<1> DEFINE r == [run[h] EXCEPT !.final = final, !.code = code]
<1>1. /\ r \in Runs /\ r.final = final /\ run' = [run EXCEPT ![h] = r]
      /\ r.known = run[h].known /\ r.failed = run[h].failed /\ r.clean = run[h].clean
      /\ pc' = [pc EXCEPT ![h] = "logs"]
  BY DEF Conclude, Goto, Runs, Inv, TypeOK
<1>2. HostInv(h) /\ final # "running"
  BY DEF Inv, FinalStates
<1>3. MayMove(h, "logs", r)
  BY <1>1, <1>2 DEF MayMove, HostInv, Quiet, Over, daemon, Untouched, Begun, Inside
<1>4. Touches(h)
  BY DEF Touches, daemon, Inv, TypeOK
<1> HIDE DEF r
<1> QED BY <1>1, <1>3, <1>4, MoveKeeps DEF Steps
\* The steps of execute that ask the daemon for nothing, or only inspect, and
\* the death of the host.
LEMMA InspectingSteps ==
  ASSUME Inv, NEW h \in Hosts
  PROVE  /\ \A cancel \in BOOLEAN : Begin(h, cancel) => Inv'
         /\ Inspect(h) \/ Verify(h) \/ Poll(h) \/ Deadline(h) => Inv'
         /\ Observe(h) \/ Logs(h) \/ Crash(h) => Inv'
<1>1. /\ HostInv(h) /\ run[h] \in Runs /\ pc[h] \in Steps
      /\ exit[Current(h)] \in ExitCodes
  BY DEF Inv, TypeOK, Current, Executions
<1>2. \A c \in BOOLEAN : FreshRun(c) \in Runs /\ FreshRun(c).final = "running"
        /\ ~FreshRun(c).known /\ ~FreshRun(c).failed /\ FreshRun(c).clean
  BY DEF FreshRun, Runs, ExitCodes
<1>3. UNCHANGED daemon => Touches(h)
  BY DEF Touches, daemon, Inv, TypeOK
<1>4. ASSUME NEW cancel \in BOOLEAN, Begin(h, cancel) PROVE Inv'
  <2>1. MayMove(h, "prepare", FreshRun(cancel))
    BY <1>2, <1>4 DEF Begin, MayMove, Inside, Untouched, Begun
  <2> QED BY <1>2, <1>3, <1>4, <2>1, MoveKeeps DEF Begin, Goto, Steps
<1>5. CASE Inspect(h)
  <2>1. run[h].final = "running"
    BY <1>1, <1>5 DEF Inspect, HostInv, Truthful
  <2>2. CASE Raise(h)
    BY <1>3, <1>5, <2>1, <2>2, RaiseKeeps DEF Inspect, Inside
  <2>3. CASE Goto(h, "create") /\ UNCHANGED run
    <3>1. MayMove(h, "create", run[h])
      BY <1>1, <1>5, <2>1 DEF Inspect, MayMove, HostInv, Quiet, Inside, Untouched, Begun
    <3>2. run' = [run EXCEPT ![h] = run[h]]
      BY <2>3 DEF Inv, TypeOK
    <3> QED BY <1>1, <1>3, <1>5, <2>3, <3>1, <3>2, MoveKeeps DEF Inspect, Goto, Steps
  <2> QED BY <1>5, <2>2, <2>3 DEF Inspect
<1>6. CASE Verify(h)
  <2>1. run[h].final = "running"
    BY <1>1, <1>6 DEF Verify, HostInv, Truthful
  <2>2. CASE Raise(h)
    BY <1>3, <1>6, <2>1, <2>2, RaiseKeeps DEF Verify, Inside
  <2>3. CASE container[Current(h)] = "created" /\ Goto(h, "start") /\ UNCHANGED run
    <3>1. MayMove(h, "start", run[h])
      BY <1>1, <1>6, <2>1, <2>3
      DEF Verify, MayMove, HostInv, Quiet, Inside, Untouched, Begun, daemon
    <3>2. run' = [run EXCEPT ![h] = run[h]]
      BY <2>3 DEF Inv, TypeOK
    <3> QED BY <1>1, <1>3, <1>6, <2>3, <3>1, <3>2, MoveKeeps DEF Verify, Goto, Steps
  <2> QED BY <1>6, <2>2, <2>3 DEF Verify
<1>7. CASE Poll(h)
  <2>1. pc[h] \in Begun /\ UNCHANGED <<workspace, daemon, chain, confirmed, kill>>
    BY <1>7 DEF Poll, Begun
  <2>2. container[Current(h)] \in {"exited", "dead"} => alone[Current(h)]
    BY <1>1, <1>7 DEF Poll, HostInv, Watched
  <2>3. CASE Conclude(h, "termination_uncertain", "none")
    BY <2>1, <2>3, ConcludeKeeps DEF FinalStates, ExitCodes
  <2>4. CASE /\ container[Current(h)] = "exited" /\ exit[Current(h)] = "zero"
             /\ Conclude(h, "succeeded", exit[Current(h)])
    BY <1>1, <2>1, <2>2, <2>4, ConcludeKeeps DEF FinalStates
  <2>5. CASE container[Current(h)] = "exited" /\ Conclude(h, "failed", exit[Current(h)])
    BY <1>1, <2>1, <2>5, ConcludeKeeps DEF FinalStates
  <2>6. CASE container[Current(h)] = "dead" /\ Conclude(h, "crashed", "none")
    BY <2>1, <2>6, ConcludeKeeps DEF FinalStates, ExitCodes
  <2> QED BY <1>7, <2>3, <2>4, <2>5, <2>6 DEF Poll
<1>8. CASE Deadline(h)
  <2> DEFINE r == [run[h] EXCEPT !.timed = TRUE]
  <2>1. /\ r \in Runs /\ r.final = run[h].final /\ r.known = run[h].known
        /\ r.failed = run[h].failed /\ r.clean = run[h].clean
        /\ run' = [run EXCEPT ![h] = r] /\ run[h].final = "running"
    BY <1>1, <1>8 DEF Deadline, Runs, HostInv, Truthful, Inv, TypeOK
  <2>2. MayMove(h, "stop", r)
    BY <1>1, <1>8, <2>1
    DEF Deadline, MayMove, HostInv, Quiet, Inside, Untouched, Begun, daemon
  <2> HIDE DEF r
  <2> QED BY <1>3, <1>8, <2>1, <2>2, MoveKeeps DEF Deadline, Goto, Steps
<1>9. CASE Observe(h)
  <2>1. pc[h] \in Begun /\ UNCHANGED <<workspace, daemon, chain, confirmed, kill>>
    BY <1>9 DEF Observe, Begun
  <2>2. CASE Conclude(h, "termination_uncertain", "none")
    BY <2>1, <2>2, ConcludeKeeps DEF FinalStates, ExitCodes
  <2>3. CASE /\ container[Current(h)] \in {"exited", "dead"}
             /\ \E final \in {"timed_out", "cancelled"} :
                  Conclude(h, final, exit[Current(h)])
    BY <1>1, <2>1, <2>3, ConcludeKeeps DEF FinalStates
  <2> QED BY <1>9, <2>2, <2>3 DEF Observe
<1>10. CASE Logs(h)
  <2>1. CASE Raise(h)
    BY <1>3, <1>10, <2>1, RaiseKeeps DEF Logs, Inside
  <2>2. CASE Goto(h, "rm") /\ UNCHANGED run
    <3>1. MayMove(h, "rm", run[h])
      BY <1>1, <1>10
      DEF Logs, MayMove, HostInv, Quiet, Truthful, Over, Inside, Untouched, Begun, daemon
    <3>2. run' = [run EXCEPT ![h] = run[h]]
      BY <2>2 DEF Inv, TypeOK
    <3> QED BY <1>1, <1>3, <1>10, <2>2, <3>1, <3>2, MoveKeeps DEF Logs, Goto, Steps
  <2> QED BY <1>10, <2>1, <2>2 DEF Logs
<1>11. CASE Crash(h)
  <2>1. MayMove(h, "lost", FreshRun(FALSE))
    BY <1>2, <1>11 DEF Crash, MayMove, Inside, Untouched, Begun
  <2> QED BY <1>2, <1>3, <1>11, <2>1, MoveKeeps DEF Crash, Goto, Steps
<1> QED BY <1>4, <1>5, <1>6, <1>7, <1>8, <1>9, <1>10, <1>11
\* The steps of execute that command the daemon.  A command that is refused or
\* given up on ends in a raise, in the kill after the stop, in an uncertain
\* conclusion, or in a cleanup that is not confirmed.
LEMMA CommandSteps ==
  ASSUME Inv, NEW h \in Hosts
  PROVE  Create(h) \/ Start(h) \/ Stop(h) \/ Kill(h) \/ Remove(h) => Inv'
<1> DEFINE x == Current(h)
<1>1. /\ HostInv(h) /\ run[h] \in Runs /\ x \in Executions /\ TypeOK
      /\ run \in [Hosts -> Runs]
  BY DEF Inv, TypeOK, Current, Executions
<1>2. \A c \in Commands : Ok(x, c) \/ Refused(x, c) \/ Timeout(x, c) => Touches(h)
  BY <1>1, CommandFacts DEF Touches
<1>3. \A c \in Commands : Ok(x, c) => Effect(x, c) /\ inflight' = inflight
  BY DEF Ok
<1>4. run' = run => run' = [run EXCEPT ![h] = run[h]]
  BY <1>1
<1> HIDE DEF x
<1>5. CASE Create(h)
  <2>1. pc[h] = "create" /\ UNCHANGED <<workspace, chain, confirmed, kill>>
        /\ run[h].final = "running" /\ "create" \in Commands
    BY <1>1, <1>5 DEF Create, HostInv, Truthful, Commands
  <2>2. CASE (Refused(x, "create") \/ Timeout(x, "create")) /\ Raise(h)
    BY <1>2, <2>1, <2>2, RaiseKeeps DEF Inside
  <2>3. CASE Ok(x, "create") /\ Goto(h, "verify") /\ run' = [run EXCEPT ![h].known = TRUE]
    <3> DEFINE r == [run[h] EXCEPT !.known = TRUE]
    <3>1. /\ r \in Runs /\ r.final = run[h].final /\ r.known
          /\ r.failed = run[h].failed /\ r.clean = run[h].clean
          /\ run' = [run EXCEPT ![h] = r] /\ pc' = [pc EXCEPT ![h] = "verify"]
      BY <1>1, <2>3 DEF Runs, Goto
    <3>2. container'[x] = "created" /\ inflight'[x] = {}
      BY <1>1, <1>3, <2>1, <2>3, EffectFacts DEF HostInv, Fresh, x, Current, Untouched, TypeOK
    <3>3. MayMove(h, "verify", r)
      BY <1>1, <2>1, <3>1, <3>2 DEF MayMove, HostInv, Quiet, Inside, Untouched, Begun, x
    <3> HIDE DEF r
    <3> QED BY <1>2, <2>1, <2>3, <3>1, <3>3, MoveKeeps DEF Steps
  <2> QED BY <1>5, <2>2, <2>3 DEF Create, x
<1>6. CASE Start(h)
  <2>1. pc[h] = "start" /\ UNCHANGED <<workspace, chain, confirmed, kill>>
        /\ run[h].final = "running" /\ "start" \in Commands
    BY <1>1, <1>6 DEF Start, HostInv, Truthful, Commands
  <2>2. CASE (Refused(x, "start") \/ Timeout(x, "start")) /\ Raise(h)
    BY <1>2, <2>1, <2>2, RaiseKeeps DEF Inside
  <2>3. CASE /\ Ok(x, "start") /\ run' = run
             /\ \E s \in {"stop", "poll"} : Goto(h, s)
    <3>1. PICK s \in {"stop", "poll"} : pc' = [pc EXCEPT ![h] = s]
      BY <2>3 DEF Goto
    <3>2. container'[x] = "running" /\ inflight'[x] = {}
      BY <1>1, <1>3, <2>1, <2>3, EffectFacts DEF HostInv, Quiet, Begun, x
    <3>3. MayMove(h, s, run[h])
      BY <1>1, <2>1, <3>1, <3>2 DEF MayMove, HostInv, Quiet, Inside, Untouched, Begun, x
    <3> QED BY <1>1, <1>2, <1>4, <2>1, <2>3, <3>1, <3>3, MoveKeeps DEF Steps
  <2> QED BY <1>6, <2>2, <2>3 DEF Start, x
<1>7. ASSUME NEW c \in {"stop", "kill"}, pc[h] = c,
             UNCHANGED <<workspace, chain, confirmed, kill>>,
             \/ Timeout(x, c) /\ Raise(h)
             \/ /\ Ok(x, c) \/ Refused(x, c)
                /\ run' = run
                /\ \E s \in {"observe", "kill"} : Goto(h, s)
      PROVE  Inv'
  <2>1. run[h].final = "running" /\ c \in Commands /\ inflight[x] = {}
    BY <1>1, <1>7 DEF HostInv, Truthful, Quiet, Begun, Commands, x
  <2>2. CASE Timeout(x, c) /\ Raise(h)
    BY <1>2, <1>7, <2>1, <2>2, RaiseKeeps DEF Inside
  <2>3. CASE (Ok(x, c) \/ Refused(x, c)) /\ run' = run
             /\ \E s \in {"observe", "kill"} : Goto(h, s)
    <3>1. PICK s \in {"observe", "kill"} : pc' = [pc EXCEPT ![h] = s]
      BY <2>3 DEF Goto
    <3>2. inflight'[x] = {}
      BY <2>1, <2>3 DEF Ok, Refused, daemon
    <3>3. MayMove(h, s, run[h])
      BY <1>1, <1>7, <2>1, <3>1, <3>2 DEF MayMove, HostInv, Quiet, Inside, Untouched, Begun, x
    <3> QED BY <1>1, <1>2, <1>4, <1>7, <2>1, <2>3, <3>1, <3>3, MoveKeeps DEF Steps
  <2> QED BY <1>7, <2>2, <2>3
<1>8. CASE Stop(h)
  BY <1>7, <1>8 DEF Stop, x
<1>9. CASE Kill(h)
  <2>1. CASE Refused(x, "kill") /\ Conclude(h, "termination_uncertain", "none")
    BY <1>9, <2>1, ConcludeKeeps DEF Kill, Refused, Begun, FinalStates, ExitCodes
  <2> QED BY <1>7, <1>9, <2>1 DEF Kill, x
<1>10. CASE Remove(h)
  <2>1. /\ pc[h] = "rm" /\ UNCHANGED <<workspace, chain, confirmed, kill>>
        /\ pc' = [pc EXCEPT ![h] = "rmdir"] /\ "rm" \in Commands
        /\ run[h].final # "running" \/ run[h].failed
    BY <1>1, <1>10 DEF Remove, Goto, Commands, HostInv, Truthful
  <2>2. CASE run[h].known /\ Ok(x, "rm") /\ run' = run
    <3>1. container'[x] = "removed" /\ inflight' = inflight
      BY <1>1, <1>3, <2>1, <2>2, EffectFacts
    <3>2. MayMove(h, "rmdir", run[h])
      BY <1>1, <2>1, <3>1
      DEF MayMove, HostInv, Quiet, Truthful, Inside, Untouched, Begun, x
    <3> QED BY <1>1, <1>2, <1>4, <2>1, <2>2, <3>2, MoveKeeps DEF Steps
  <2>3. CASE /\ run[h].known /\ (Refused(x, "rm") \/ Timeout(x, "rm"))
             /\ run' = [run EXCEPT ![h].clean = FALSE]
    <3> DEFINE r == [run[h] EXCEPT !.clean = FALSE]
    <3>1. /\ r \in Runs /\ r.final = run[h].final /\ r.failed = run[h].failed
          /\ ~r.clean /\ run' = [run EXCEPT ![h] = r]
      BY <1>1, <2>3 DEF Runs
    <3>2. /\ inflight'[x] \subseteq inflight[x] \cup {"rm"}
          /\ container'[x] = "removed"
             \/ (container'[x] = container[x] /\ exit'[x] = exit[x] /\ alone'[x] = alone[x])
      BY <1>1, <2>1, <2>3, CommandFacts, EffectFacts
    <3>3. MayMove(h, "rmdir", r)
      BY <1>1, <2>1, <3>1, <3>2
      DEF MayMove, HostInv, Truthful, Over, Inside, Untouched, Begun, x
    <3> HIDE DEF r
    <3> QED BY <1>2, <2>1, <2>3, <3>1, <3>3, MoveKeeps DEF Steps
  <2>4. CASE ~run[h].known /\ UNCHANGED <<daemon, run>>
    <3>1. run[h].failed /\ Touches(h)
      BY <1>1, <2>1, <2>4 DEF HostInv, Quiet, Touches, daemon, TypeOK
    <3>2. MayMove(h, "rmdir", run[h])
      BY <1>1, <2>1, <2>4, <3>1
      DEF MayMove, HostInv, Truthful, Over, Inside, Untouched, Begun, daemon, x
    <3> QED BY <1>1, <1>4, <2>1, <2>4, <3>1, <3>2, MoveKeeps DEF Steps
  <2> QED BY <1>10, <2>2, <2>3, <2>4 DEF Remove, x
<1> QED BY <1>5, <1>6, <1>8, <1>9, <1>10
\* Preparing takes the lock, or nothing.
LEMMA PrepareKeeps ==
  ASSUME Inv, NEW h \in Hosts, Prepare(h)
  PROVE  Inv'
<1>1. /\ HostInv(h) /\ run[h] \in Runs /\ retry[h] \in Retries /\ Current(h) \in Executions
      /\ pc[h] = "prepare" /\ UNCHANGED <<daemon, run, chain, confirmed, kill>>
      /\ run[h].final = "running"
  BY DEF Inv, TypeOK, Current, Executions, Prepare, HostInv, Truthful
<1>2. CASE workspace # None
  <2>1. pc' = [pc EXCEPT ![h] = "raised"] /\ workspace' = workspace
        /\ run' = [run EXCEPT ![h] = run[h]]
    BY <1>1, <1>2 DEF Prepare, Goto, Inv, TypeOK
  <2>2. Touches(h)
    BY <1>1 DEF Touches, daemon, Inv, TypeOK
  <2>3. MayMove(h, "raised", run[h])
    BY <1>1 DEF MayMove, Inside, Untouched, Begun
  <2> QED BY <1>1, <2>1, <2>2, <2>3, MoveKeeps DEF Steps
<1>3. CASE workspace = None
  <2>1. PICK s \in {"inspect", "raised"} :
          /\ pc' = [pc EXCEPT ![h] = s] /\ workspace' \in {None, Current(h)}
          /\ s = "inspect" => workspace' = Current(h)
    BY <1>3 DEF Prepare, Goto
  <2>2. \A g \in Hosts : pc[g] \notin Inside
    BY <1>3, WorkerAssumption DEF Inv, HostInv, Locked, TypeOK, Current, Executions
  <2>3. pc'[h] = s /\ run'[h] = run[h] /\ Current(h)' = Current(h)
        /\ UNCHANGED <<container, exit, alone, inflight, confirmed, retry, breaker>>
    BY <1>1, <2>1 DEF Inv, TypeOK, Current, daemon, chain
  <2>4. Frame(h)
    BY <1>1, <2>1, <2>3 DEF Frame, Inv, TypeOK
  <2>5. \A g \in Hosts \ {h} : HostInv(g)'
    BY <2>2, <2>3, <2>4, OtherHosts
  <2>6. Locked(h)' /\ Watched(h)'
    BY <2>1, <2>3 DEF Locked, Watched, Inside
  <2>7. Fresh(h)' /\ Quiet(h)'
    BY <1>1, <2>1, <2>3 DEF HostInv, Fresh, Quiet, Untouched, Begun
  <2>8. Truthful(h)'
    BY <1>1, <2>1, <2>3 DEF Truthful
  <2>9. Confirmed(h)'
    BY <1>1, <2>1, <2>3 DEF HostInv, Confirmed
  <2>10. Counted(h)'
    BY <1>1, <2>1, <2>3 DEF HostInv, Counted
  <2>11. HostInv(h)'
    BY <2>6, <2>7, <2>8, <2>9, <2>10 DEF HostInv
  <2>12. Current(h) \notin confirmed
    BY <1>1 DEF HostInv, Confirmed, Current, Retries
  <2>13. CleanupIsTrue'
    BY <2>1, <2>3, <2>12, WorkerAssumption DEF CleanupIsTrue, Inv, TypeOK
  <2>14. TypeOK'
    BY <1>1, <2>1, <2>3 DEF Inv, TypeOK, Steps, chain, daemon
  <2> QED BY <2>5, <2>11, <2>13, <2>14 DEF Inv
<1> QED BY <1>2, <1>3

\* The end of execute: a cleanup is confirmed when both removals were.
LEMMA RemoveWorkspaceKeeps ==
  ASSUME Inv, NEW h \in Hosts, RemoveWorkspace(h)
  PROVE  Inv'
<1>1. /\ HostInv(h) /\ run[h] \in Runs /\ retry[h] \in Retries /\ Current(h) \in Executions
      /\ pc[h] = "rmdir" /\ UNCHANGED <<daemon, chain, kill>> /\ workspace = Current(h)
  BY DEF Inv, TypeOK, Current, Executions, RemoveWorkspace, HostInv, Locked, Inside
<1>2. PICK removed \in BOOLEAN :
        /\ workspace' = IF removed THEN None ELSE workspace
        /\ run' = [run EXCEPT ![h] =
             IF run[h].failed THEN FreshRun(FALSE)
             ELSE [run[h] EXCEPT !.clean = run[h].clean /\ removed]]
        /\ confirmed' = IF ~run[h].failed /\ run[h].clean /\ removed
                        THEN confirmed \cup {Current(h)} ELSE confirmed
  BY DEF RemoveWorkspace
<1>3. PICK s \in {"raised", "returned"} :
        pc' = [pc EXCEPT ![h] = s] /\ (s = "returned" <=> ~run[h].failed)
  BY DEF RemoveWorkspace, Goto
<1>4. /\ run'[h] \in Runs /\ run' \in [Hosts -> Runs]
      /\ \A g \in Hosts \ {h} : run'[g] = run[g]
      /\ run[h].failed => run'[h].final = "running"
      /\ ~run[h].failed => run'[h].final = run[h].final
                          /\ run'[h].clean = (run[h].clean /\ removed)
  BY <1>1, <1>2 DEF FreshRun, Runs, ExitCodes, Inv, TypeOK
<1>5. pc'[h] = s /\ Current(h)' = Current(h)
      /\ UNCHANGED <<container, exit, alone, inflight, retry, breaker>>
  BY <1>1, <1>3 DEF Inv, TypeOK, Current, daemon, chain
<1>6. \A g \in Hosts \ {h} : pc[g] \notin Inside
  BY <1>1 DEF Inv, HostInv, Locked, Current
<1>7. Frame(h)
  BY <1>3, <1>4, <1>5 DEF Frame, Inv, TypeOK
<1>8. \A g \in Hosts \ {h} : HostInv(g)'
  BY <1>2, <1>6, <1>7, OtherHosts
<1>9. Locked(h)' /\ Watched(h)' /\ Fresh(h)' /\ Quiet(h)'
  BY <1>1, <1>3, <1>5
  DEF HostInv, Locked, Watched, Fresh, Quiet, Inside, Untouched, Begun, Retries
<1>10. Truthful(h)'
  BY <1>1, <1>3, <1>4, <1>5 DEF HostInv, Truthful, Over
<1>11. Confirmed(h)'
  <2>1. \A k \in Retries : <<h, k>> \in confirmed' =>
          <<h, k>> \in confirmed \/ (k = retry[h] /\ s = "returned")
    <3>1. \A k \in Retries : <<h, k>> = Current(h) => k = retry[h]
      BY DEF Current
    <3>2. ~run[h].failed => s = "returned"
      BY <1>3
    <3>3. \A y \in confirmed' : y \in confirmed \/ (y = Current(h) /\ ~run[h].failed)
      BY <1>2
    <3> QED BY <3>1, <3>2, <3>3
  <2>2. s = "returned" /\ run'[h].clean => Current(h) \in confirmed'
    BY <1>2, <1>3, <1>4
  <2> QED BY <1>1, <1>2, <1>3, <1>5, <2>1, <2>2 DEF HostInv, Confirmed
<1>12. Counted(h)'
  BY <1>1, <1>3, <1>5 DEF HostInv, Counted, Inside
<1>13. HostInv(h)'
  BY <1>9, <1>10, <1>11, <1>12 DEF HostInv
<1>14. Current(h) \notin confirmed
  BY <1>1 DEF HostInv, Confirmed, Current, Retries
<1>15. CleanupIsTrue'
  <2>1. ASSUME NEW y \in confirmed
        PROVE  container'[y] = "removed" /\ inflight'[y] = {} /\ workspace' # y
    BY <1>1, <1>2, <1>5, <1>14, <2>1, WorkerAssumption DEF CleanupIsTrue, Inv, TypeOK
  <2>2. ASSUME ~run[h].failed, run[h].clean, removed
        PROVE  /\ container'[Current(h)] = "removed" /\ inflight'[Current(h)] = {}
               /\ workspace' # Current(h)
    BY <1>1, <1>2, <1>5, <2>2, WorkerAssumption DEF HostInv, Quiet
  <2> QED BY <1>2, <2>1, <2>2 DEF CleanupIsTrue
<1>16. TypeOK'
  <2>1. \A g \in Hosts : pc'[g] = "returned" => run'[g].final \in FinalStates
    BY <1>1, <1>3, <1>4, <1>5 DEF Inv, TypeOK, HostInv, Truthful, Runs
  <2>2. workspace' \in Executions \cup {None} /\ confirmed' \subseteq Executions
    BY <1>1, <1>2 DEF Inv, TypeOK
  <2>3. pc' \in [Hosts -> Steps]
    BY <1>3 DEF Inv, TypeOK, Steps
  <2> QED BY <1>1, <1>4, <1>5, <2>1, <2>2, <2>3 DEF Inv, TypeOK
<1> QED BY <1>8, <1>13, <1>15, <1>16 DEF Inv
\* The supervisor's advice: a retry is eligible only after a confirmed cleanup
\* and with a closed breaker, which has counted this execution.
LEMMA SuperviseKeeps ==
  ASSUME Inv, NEW h \in Hosts, NEW obs \in Observations, NEW intake \in Intakes,
         Supervise(h, obs, intake)
  PROVE  Inv'
<1> DEFINE class == Classify(Receipt(h), obs, intake)
           next == NextBreaker(Prior(h), class, kill)
           advised == RetryEligible(Receipt(h), intake, class, next, retry[h])
<1>1. /\ HostInv(h) /\ run[h] \in Runs /\ retry[h] \in Retries /\ kill \in BOOLEAN
      /\ pc[h] = "returned" /\ UNCHANGED <<workspace, daemon, retry, confirmed, kill>>
      /\ run' = [run EXCEPT ![h] = FreshRun(FALSE)]
  BY DEF Inv, TypeOK, Supervise
<1>2. Prior(h) \in Breakers /\ Prior(h).failures = retry[h]
  BY <1>1 DEF Prior, InitialBreaker, HostInv, Counted, Breakers
<1>3. retry[h] \in 0..16 /\ retry[h] \in Int
  BY <1>1, PolicyAssumption DEF Retries
<1>4. next \in Breakers
  <2>1. Failures(Prior(h), class) \in 0..64
    BY <1>2 DEF Failures, Breakers
  <2> QED BY <1>1, <2>1 DEF NextBreaker, Breakers
<1>5. advised =>
        /\ run[h].clean /\ retry[h] < MaxRetryAttempts
        /\ next.failures = retry[h] + 1 /\ next.failures < CircuitBreakerFailures
  <2> SUFFICES ASSUME advised
               PROVE  /\ run[h].clean /\ retry[h] < MaxRetryAttempts
                      /\ next.failures = retry[h] + 1
                      /\ next.failures < CircuitBreakerFailures
    OBVIOUS
  <2>1. /\ class \in Retryable /\ ~next.open /\ retry[h] < MaxRetryAttempts
        /\ Receipt(h).cleaned
    BY DEF RetryEligible, CleanupUncertain
  <2>2. class \notin Settled
    BY <2>1 DEF Retryable, Settled
  <2>3. next.failures = Failures(Prior(h), class)
        /\ (next.open \/ ~(Failures(Prior(h), class) >= CircuitBreakerFailures))
    BY <2>2 DEF NextBreaker
  <2>4. Failures(Prior(h), class) = retry[h] + 1
    BY <1>2, <1>3, <2>2 DEF Failures
  <2> QED BY <1>3, <2>1, <2>3, <2>4, PolicyAssumption DEF Receipt
<1>6. \/ pc' = [pc EXCEPT ![h] = "done"] /\ breaker' = breaker
      \/ pc' = [pc EXCEPT ![h] = "done"] /\ breaker' = [breaker EXCEPT ![h] = next]
      \/ /\ advised /\ pc' = [pc EXCEPT ![h] = "advised"]
         /\ breaker' = [breaker EXCEPT ![h] = next]
  BY DEF Supervise, Goto
<1> HIDE DEF class, next, advised
<1>7. PICK s \in {"done", "advised"} :
        /\ pc' = [pc EXCEPT ![h] = s]
        /\ s = "advised" => advised /\ breaker' = [breaker EXCEPT ![h] = next]
  BY <1>6
<1>8. /\ breaker' \in [Hosts -> Breakers \cup {None}]
      /\ \A g \in Hosts \ {h} : breaker'[g] = breaker[g]
      /\ s = "advised" => breaker'[h] = next
  BY <1>4, <1>6, <1>7 DEF Inv, TypeOK
<1>9. pc'[h] = s /\ run'[h] = FreshRun(FALSE) /\ Current(h)' = Current(h)
      /\ UNCHANGED <<container, exit, alone, inflight, confirmed, retry, workspace>>
  BY <1>1, <1>7 DEF Inv, TypeOK, Current, daemon
<1>10. Frame(h)
  BY <1>1, <1>7, <1>8, <1>9 DEF Frame, Inv, TypeOK
<1>11. Locked(h)' /\ Watched(h)' /\ Quiet(h)' /\ Truthful(h)'
  BY <1>7, <1>9
  DEF Locked, Watched, Quiet, Truthful, FreshRun, Inside, Untouched, Begun
<1>12. Fresh(h)'
  BY <1>1, <1>7, <1>9 DEF HostInv, Fresh, Untouched
<1>13. Confirmed(h)'
  BY <1>1, <1>5, <1>7, <1>9 DEF HostInv, Confirmed
<1>14. Counted(h)'
  <2>1. s = "advised" => next # None
    BY <1>4, WorkerAssumption
  <2> QED BY <1>1, <1>4, <1>5, <1>7, <1>8, <1>9, <2>1 DEF HostInv, Counted, Inside
<1>15. HostInv(h)'
  BY <1>11, <1>12, <1>13, <1>14 DEF HostInv
<1>16. TypeOK'
  <2>1. run' \in [Hosts -> Runs]
    BY <1>1 DEF FreshRun, Runs, ExitCodes, Inv, TypeOK
  <2>2. \A g \in Hosts : pc'[g] = "returned" => run'[g].final \in FinalStates
    BY <1>1, <1>7, <1>9 DEF Inv, TypeOK
  <2>3. pc' \in [Hosts -> Steps] /\ kill' = kill
    BY <1>1, <1>7 DEF Inv, TypeOK, Steps
  <2> QED BY <1>8, <1>9, <2>1, <2>2, <2>3 DEF Inv, TypeOK
<1> QED BY <1>1, <1>9, <1>10, <1>15, <1>16, HostStep
\* A retry starts a fresh execution after a confirmed one.
LEMMA RetryKeeps ==
  ASSUME Inv, NEW h \in Hosts, NEW cancel \in BOOLEAN, Retry(h, cancel)
  PROVE  Inv'
<1>1. /\ HostInv(h) /\ retry[h] \in Retries /\ pc[h] = "advised"
      /\ pc' = [pc EXCEPT ![h] = "prepare"] /\ retry' = [retry EXCEPT ![h] = @ + 1]
      /\ run' = [run EXCEPT ![h] = FreshRun(cancel)]
      /\ UNCHANGED <<workspace, daemon, breaker, confirmed, kill>>
  BY DEF Inv, TypeOK, Retry, Goto
<1>2. retry[h] \in Int /\ retry[h] + 1 \in Retries
  BY <1>1, PolicyAssumption DEF HostInv, Counted, Retries
<1>3. /\ pc'[h] = "prepare" /\ run'[h] = FreshRun(cancel) /\ retry'[h] = retry[h] + 1
      /\ UNCHANGED <<container, exit, alone, inflight, confirmed, breaker, workspace>>
  BY <1>1 DEF Inv, TypeOK, daemon
<1>4. Frame(h)
  BY <1>1, <1>3 DEF Frame, Inv, TypeOK
<1>5. Locked(h)' /\ Watched(h)' /\ Quiet(h)' /\ Truthful(h)'
  BY <1>3 DEF Locked, Watched, Quiet, Truthful, FreshRun, Inside, Untouched, Begun
<1>6. Fresh(h)'
  <2> SUFFICES ASSUME NEW k \in Retries, k > retry[h] + 1 \/ k = retry[h] + 1
               PROVE  container[<<h, k>>] = "absent" /\ inflight[<<h, k>>] = {}
    BY <1>3 DEF Fresh
  <2>1. k > retry[h]
    BY <1>2 DEF Retries
  <2> QED BY <1>1, <2>1 DEF HostInv, Fresh
<1>7. Confirmed(h)'
  <2>1. \A k \in Retries : <<h, k>> \in confirmed => k < retry[h] + 1
    BY <1>1, <1>2 DEF HostInv, Confirmed, Retries
  <2>2. \A k \in Retries : k < retry[h] + 1 => k < retry[h] \/ k = retry[h]
    BY <1>2 DEF Retries
  <2>3. \A k \in Retries : k < retry[h] + 1 => <<h, k>> \in confirmed
    BY <1>1, <2>2 DEF HostInv, Confirmed, Current
  <2> QED BY <1>3, <2>1, <2>3 DEF Confirmed
<1>8. Counted(h)'
  BY <1>1, <1>2, <1>3 DEF HostInv, Counted
<1>9. HostInv(h)'
  BY <1>5, <1>6, <1>7, <1>8 DEF HostInv
<1>10. TypeOK'
  <2>1. run' \in [Hosts -> Runs]
    BY <1>1 DEF FreshRun, Runs, ExitCodes, Inv, TypeOK
  <2>2. \A g \in Hosts : pc'[g] = "returned" => run'[g].final \in FinalStates
    BY <1>1, <1>3 DEF Inv, TypeOK
  <2>3. pc' \in [Hosts -> Steps] /\ retry' \in [Hosts -> Retries] /\ kill' = kill
    BY <1>1, <1>2 DEF Inv, TypeOK, Steps
  <2> QED BY <1>3, <2>1, <2>2, <2>3 DEF Inv, TypeOK
<1> QED BY <1>1, <1>3, <1>4, <1>9, <1>10, HostStep

\* The daemon acts late, or a worker ends, only in a current execution whose
\* cleanup is not confirmed.
LEMMA DaemonKeeps ==
  ASSUME Inv, NEW x \in Executions,
         WorkerEnds(x) \/ \E c \in Commands : LateEffect(x, c)
  PROVE  Inv'
<1>1. PICK h \in Hosts, k \in Retries : x = <<h, k>>
  BY DEF Executions
<1>2. /\ HostInv(h) /\ retry[h] \in Retries /\ retry[h] \in Int /\ k \in Int
      /\ UNCHANGED <<workspace, pc, run, chain, confirmed, kill>> /\ TypeOK
  BY DEF Inv, TypeOK, WorkerEnds, LateEffect, Retries
<1>3. container[x] = "running" \/ inflight[x] # {}
  BY DEF WorkerEnds, LateEffect
<1>4. x \notin confirmed
  BY <1>3 DEF Inv, CleanupIsTrue
<1>5. k = retry[h]
  <2>1. ~(k < retry[h])
    BY <1>1, <1>2, <1>4 DEF HostInv, Confirmed
  <2>2. ~(k > retry[h])
    BY <1>1, <1>2, <1>3 DEF HostInv, Fresh
  <2> QED BY <1>2, <2>1, <2>2
<1>6. x = Current(h)
  BY <1>1, <1>5 DEF Current
<1>7. Touches(h)
  <2>1. CASE WorkerEnds(x)
    BY <1>2, <1>6, <2>1 DEF WorkerEnds, Touches, TypeOK, ContainerStates, ExitCodes
  <2>2. ASSUME NEW c \in Commands, LateEffect(x, c) PROVE Touches(h)
    <3>1. inflight' \in [Executions -> SUBSET Commands]
          /\ \A y \in Executions : y # x => inflight'[y] = inflight[y]
      BY <1>2, <2>2 DEF LateEffect, TypeOK
    <3>2. CASE Effect(x, c)
      BY <1>2, <1>6, <3>1, <3>2, EffectFacts DEF Touches
    <3>3. CASE UNCHANGED <<container, exit, alone>>
      BY <1>2, <1>6, <3>1, <3>3 DEF Touches, TypeOK
    <3> QED BY <2>2, <3>2, <3>3 DEF LateEffect
  <2> QED BY <2>1, <2>2
<1>8. Frame(h)
  BY <1>2, <1>7 DEF Frame, Touches, chain
<1>9. Current(h)' = Current(h) /\ UNCHANGED <<pc, run, retry, breaker>>
  BY <1>2 DEF Current, chain
<1>10. Locked(h)' /\ Confirmed(h)' /\ Counted(h)'
  BY <1>2, <1>9 DEF HostInv, Locked, Confirmed, Counted
<1>11. pc[h] \notin Untouched
  BY <1>1, <1>2, <1>3, <1>5 DEF HostInv, Fresh
<1>12. Fresh(h)'
  <2>1. \A j \in Retries : j > retry[h] => <<h, j>> # x /\ <<h, j>> \in Executions
    BY <1>1, <1>2, <1>5 DEF Executions, Retries
  <2> QED BY <1>2, <1>7, <1>6, <1>9, <1>11, <2>1 DEF HostInv, Fresh, Touches
<1>13. CASE WorkerEnds(x)
  <2>1. /\ container[x] = "running" /\ UNCHANGED inflight
        /\ container'[x] \in {"exited", "dead"} /\ alone'[x]
    BY <1>2, <1>13 DEF WorkerEnds, TypeOK
  <2>2. Quiet(h)'
    BY <1>2, <1>6, <1>9, <2>1 DEF HostInv, Quiet
  <2>3. Watched(h)'
    BY <1>2, <1>6, <1>9, <2>1 DEF HostInv, Watched
  <2>4. Truthful(h)'
    BY <1>2, <1>6, <1>9, <2>1 DEF HostInv, Truthful, Over
  <2>5. TypeOK'
    BY <1>2, <1>7, <1>9 DEF TypeOK, Touches
  <2> QED BY <1>2, <1>4, <1>6, <1>8, <1>10, <1>12, <2>2, <2>3, <2>4, <2>5, HostStep
          DEF HostInv
<1>14. ASSUME NEW c \in Commands, LateEffect(x, c) PROVE Inv'
  <2>1. /\ c \in inflight[x] /\ inflight'[x] = inflight[x] \ {c}
        /\ \/ container'[x] = container[x] /\ exit'[x] = exit[x] /\ alone'[x] = alone[x]
           \/ Effect(x, c)
    BY <1>2, <1>14 DEF LateEffect, TypeOK
  <2>2. pc[h] \notin Begun /\ ~(pc[h] = "rm" /\ ~run[h].failed)
        /\ ~(pc[h] = "rmdir" /\ ~run[h].failed /\ run[h].clean)
    BY <1>2, <1>6, <2>1 DEF HostInv, Quiet
  <2>3. Quiet(h)' /\ Watched(h)'
    BY <1>9, <1>11, <2>2 DEF Quiet, Watched, Begun
  <2>4. Truthful(h)'
    <3>1. c = "rm" => container'[x] = "removed"
            \/ (container'[x] = container[x] /\ exit'[x] = exit[x] /\ alone'[x] = alone[x])
      BY <1>2, <2>1, EffectFacts
    <3>2. run[h].final \notin {"running", "termination_uncertain"} => c = "rm"
      BY <1>2, <1>6, <2>1 DEF HostInv, Truthful
    <3> QED BY <1>2, <1>6, <1>9, <2>1, <3>1, <3>2 DEF HostInv, Truthful, Over
  <2>5. TypeOK'
    BY <1>2, <1>7, <1>9 DEF TypeOK, Touches
  <2> QED BY <1>2, <1>4, <1>6, <1>8, <1>10, <1>12, <2>3, <2>4, <2>5, HostStep
          DEF HostInv
<1> QED BY <1>13, <1>14
\* The invariant is kept by every step.
LEMMA InvKept == Inv /\ [Next]_vars => Inv'
<1> SUFFICES ASSUME Inv, [Next]_vars PROVE Inv'
  OBVIOUS
<1>1. CASE UNCHANGED <<workspace, daemon, pc, run, chain, confirmed>> /\ kill' \in BOOLEAN
  <2>1. UNCHANGED <<workspace, container, exit, alone, inflight, pc, run, retry,
                    breaker, confirmed>>
    BY <1>1 DEF daemon, chain
  <2>2. TypeOK' /\ CleanupIsTrue'
    BY <1>1, <2>1 DEF Inv, TypeOK, CleanupIsTrue
  <2>3. \A h \in Hosts : HostInv(h)'
    BY <2>1 DEF Inv, HostInv, Locked, Fresh, Quiet, Watched, Truthful, Confirmed,
      Counted, Current, Over
  <2> QED BY <2>2, <2>3 DEF Inv
<1>2. CASE UNCHANGED vars
  BY <1>1, <1>2 DEF vars, Inv, TypeOK
<1>3. CASE EngageKillSwitch
  BY <1>1, <1>3 DEF EngageKillSwitch
<1>4. ASSUME NEW h \in Hosts, Step(h) \/ Crash(h) PROVE Inv'
  BY <1>4, InspectingSteps, CommandSteps, PrepareKeeps, RemoveWorkspaceKeeps DEF Step
<1>5. ASSUME NEW h \in Hosts, NEW cancel \in BOOLEAN, Begin(h, cancel) \/ Retry(h, cancel)
      PROVE  Inv'
  BY <1>5, InspectingSteps, RetryKeeps
<1>6. ASSUME NEW h \in Hosts, NEW obs \in Observations, NEW intake \in Intakes,
             Supervise(h, obs, intake)
      PROVE  Inv'
  BY <1>6, SuperviseKeeps
<1>7. ASSUME NEW x \in Executions, WorkerEnds(x) \/ \E c \in Commands : LateEffect(x, c)
      PROVE  Inv'
  BY <1>7, DaemonKeeps
<1> QED BY <1>2, <1>3, <1>4, <1>5, <1>6, <1>7 DEF Next

\* The invariant holds before any host begins.
LEMMA InvInit == Init => Inv
<1> SUFFICES ASSUME Init PROVE Inv
  OBVIOUS
<1>1. 0 \in Retries /\ 0 < CircuitBreakerFailures
  BY PolicyAssumption DEF Retries
<1>2. FreshRun(FALSE) \in Runs /\ FreshRun(FALSE).final = "running"
      /\ ~FreshRun(FALSE).known /\ ~FreshRun(FALSE).failed /\ FreshRun(FALSE).clean
  BY DEF FreshRun, Runs, ExitCodes
<1>3. TypeOK /\ CleanupIsTrue
  BY <1>1, <1>2
  DEF Init, TypeOK, CleanupIsTrue, ContainerStates, ExitCodes, Commands, Steps
<1>4. ASSUME NEW h \in Hosts PROVE HostInv(h)
  <2>1. \A k \in Retries : <<h, k>> \in Executions /\ k \in Int /\ ~(k < 0)
    BY DEF Executions, Retries
  <2>2. pc[h] = "idle" /\ run[h] = FreshRun(FALSE) /\ retry[h] = 0 /\ breaker[h] = None
    BY DEF Init
  <2>3. Locked(h) /\ Watched(h) /\ Quiet(h) /\ Truthful(h)
    BY <1>2, <2>2
    DEF Locked, Watched, Quiet, Truthful, Inside, Untouched, Begun
  <2>4. Fresh(h)
    BY <2>1 DEF Init, Fresh
  <2>5. Confirmed(h)
    BY <2>1, <2>2 DEF Init, Confirmed
  <2>6. Counted(h)
    BY <1>1, <2>2 DEF Counted
  <2> QED BY <2>3, <2>4, <2>5, <2>6 DEF HostInv
<1> QED BY <1>3, <1>4 DEF Inv

\* The properties follow from the invariant: at most one host holds the
\* workspace, and earlier executions of a chain have confirmed cleanups.
LEMMA InvImplies ==
  Inv => /\ TypeOK /\ ReceiptIsTrue /\ CleanupIsTrue
         /\ OneWorkerPerRequest /\ RetryIsSafe /\ ChainsEnd
<1> SUFFICES ASSUME Inv
             PROVE  /\ ReceiptIsTrue /\ OneWorkerPerRequest
                    /\ RetryIsSafe /\ ChainsEnd
  BY DEF Inv
<1>1. ReceiptIsTrue
  BY DEF Inv, HostInv, Truthful, ReceiptIsTrue, Uncertain, Receipt, FinalStates
<1>2. RetryIsSafe
  BY DEF Inv, HostInv, Confirmed, RetryIsSafe, CleanupIsTrue
<1>3. ChainsEnd
  BY DEF Inv, HostInv, Counted, ChainsEnd
<1>4. OneWorkerPerRequest
  <2> SUFFICES ASSUME NEW x \in Executions, NEW y \in Executions,
                      container[x] = "running", container[y] = "running",
                      Active(x), Active(y)
               PROVE  x = y
    BY DEF OneWorkerPerRequest
  <2>1. ASSUME NEW z \in Executions, container[z] = "running", Active(z)
        PROVE  workspace = z
    <3>1. PICK h \in Hosts, k \in Retries : z = <<h, k>>
      BY DEF Executions
    <3>2. z = Current(h) /\ pc[h] \notin Resting \cup {"returned", "advised"} /\ k = retry[h]
      BY <2>1, <3>1 DEF Active, Current
    <3>3. HostInv(h) /\ pc[h] \in Steps
      BY DEF Inv, TypeOK
    <3>4. pc[h] # "prepare"
      BY <2>1, <3>1, <3>2, <3>3 DEF HostInv, Fresh, Untouched
    <3>5. pc[h] \in Inside
      BY <3>2, <3>3, <3>4 DEF Steps, Resting, Inside
    <3> QED BY <3>2, <3>3, <3>5 DEF HostInv, Locked
  <2> QED BY <2>1
<1> QED BY <1>1, <1>2, <1>3, <1>4

\* For any number of hosts and any policy: receipts and confirmed cleanups are
\* true, two workers never run on one request, and retries are safe and end.
THEOREM WorkerSafe ==
  Spec => [](/\ TypeOK /\ ReceiptIsTrue /\ CleanupIsTrue
             /\ OneWorkerPerRequest /\ RetryIsSafe /\ ChainsEnd)
BY InvInit, InvKept, InvImplies, PTL DEF Spec

\* The promises of a receipt one at a time.  cleanup_confirmed left neither
\* container nor workspace behind, and no command in flight can bring one back.
THEOREM CleanupsAreTrue == Spec => []CleanupIsTrue
BY WorkerSafe, PTL

\* However many hosts were handed a request, two live executions of it never
\* run at once.
THEOREM WorkersExclude == Spec => []OneWorkerPerRequest
BY WorkerSafe, PTL

\* A retry that supervise_execution advised starts on a clean slate.
THEOREM RetriesAreSafe == Spec => []RetryIsSafe
BY WorkerSafe, PTL

\* The circuit breaker ends every chain of advised retries.
THEOREM RetriesEnd == Spec => []ChainsEnd
BY WorkerSafe, PTL

\* The kill switch: a breaker made while it is engaged is open, and a retry is
\* advised only with a closed breaker.
THEOREM KillSwitch == Spec => KillSwitchHolds
<1>1. ASSUME Inv, [Next]_vars
      PROVE  [\A h \in Hosts : kill /\ pc'[h] = "advised" => pc[h] = "advised"]_vars
  <2> SUFFICES ASSUME NEW h \in Hosts, Next, kill, pc'[h] = "advised", pc[h] # "advised"
               PROVE  FALSE
    BY <1>1
  <2>1. pc \in [Hosts -> Steps]
    BY <1>1 DEF Inv, TypeOK
  <2>2. ASSUME NEW g \in Hosts, Step(g) \/ Crash(g) PROVE pc'[h] # "advised"
    BY <2>1, <2>2
    DEF Step, Crash, Prepare, Inspect, Create, Verify, Start, Poll, Deadline, Stop,
      Kill, Observe, Logs, Remove, RemoveWorkspace, Conclude, Raise, Goto
  <2>3. ASSUME NEW g \in Hosts, NEW cancel \in BOOLEAN,
               Begin(g, cancel) \/ Retry(g, cancel)
        PROVE  pc'[h] # "advised"
    BY <2>1, <2>3 DEF Begin, Retry, Goto
  <2>4. ASSUME NEW g \in Hosts, NEW obs \in Observations, NEW intake \in Intakes,
               Supervise(g, obs, intake)
        PROVE  pc'[h] # "advised"
    <3>1. \A class : NextBreaker(Prior(g), class, kill).open
      BY DEF NextBreaker
    <3> QED BY <2>1, <2>4, <3>1 DEF Supervise, RetryEligible, Goto
  <2>5. ASSUME UNCHANGED pc PROVE pc'[h] # "advised"
    BY <2>5
  <2> QED BY <2>2, <2>3, <2>4, <2>5
          DEF Next, WorkerEnds, LateEffect, EngageKillSwitch
<1> QED BY <1>1, InvInit, InvKept, PTL DEF Spec, KillSwitchHolds

------------------------------------------------------------------------------
(* Admission, decomposition and the packet.                                *)

\* The outcomes an admission rule can have.
Outcomes5 ==
  {"allow_within_bound", "require_human_approval", "escalate", "insufficient_evidence", "deny"}

\* The most severe outcome lets a request through only if every rule does.
LEMMA MostSevereAllows ==
  ASSUME NEW S, S \subseteq Outcomes5, S # {}, MostSevere(S) = "allow_within_bound"
  PROVE  S = {"allow_within_bound"}
<1> DEFINE Worst == \E o \in S : \A x \in S : OutcomeSeverity[x] <= OutcomeSeverity[o]
<1>1. Worst
  <2>1. CASE "deny" \in S
    BY <2>1 DEF OutcomeSeverity, Outcomes5
  <2>2. CASE "deny" \notin S /\ "insufficient_evidence" \in S
    BY <2>2 DEF OutcomeSeverity, Outcomes5
  <2>3. CASE "deny" \notin S /\ "insufficient_evidence" \notin S /\ "escalate" \in S
    BY <2>3 DEF OutcomeSeverity, Outcomes5
  <2>4. CASE "deny" \notin S /\ "insufficient_evidence" \notin S /\ "escalate" \notin S
              /\ "require_human_approval" \in S
    BY <2>4 DEF OutcomeSeverity, Outcomes5
  <2>5. CASE "deny" \notin S /\ "insufficient_evidence" \notin S /\ "escalate" \notin S
              /\ "require_human_approval" \notin S
    <3>1. \A x \in S : x = "allow_within_bound"
      BY <2>5 DEF Outcomes5
    <3>2. "allow_within_bound" \in S
      BY <3>1
    <3>3. OutcomeSeverity["allow_within_bound"] <= OutcomeSeverity["allow_within_bound"]
      BY DEF OutcomeSeverity
    <3> QED BY <3>1, <3>2, <3>3
  <2> HIDE DEF Worst
  <2> QED BY <2>1, <2>2, <2>3, <2>4, <2>5
<1>2. MostSevere(S) \in S /\ \A x \in S : OutcomeSeverity[x] <= OutcomeSeverity[MostSevere(S)]
  BY <1>1 DEF MostSevere
<1> HIDE DEF Worst
<1>3. ASSUME NEW x \in S PROVE x = "allow_within_bound"
  BY <1>2 DEF OutcomeSeverity, Outcomes5
<1> QED BY <1>2, <1>3

\* What an admitted request satisfies.
LEMMA AllowedRequest ==
  ASSUME NEW r, NEW contract, NEW escalation, NEW registry,
         RequestOutcome(r, contract, escalation, registry) = "allow_within_bound",
         r.budget \in Nat \cup {Uncapped}, contract.ceiling \in Nat \cup {Uncapped}
  PROVE  /\ escalation = {}
         /\ r.capability \notin HumanGated
         /\ r.scope \cap registry = {}
         /\ \A path \in r.scope : Under(path, contract.allowed) /\ ~Under(path, contract.forbidden)
         /\ contract.ceiling # Uncapped => r.budget # Uncapped /\ r.budget <= contract.ceiling
         /\ r.capability \in WriteCapabilities => contract.gates # {}
<1> DEFINE S == {MatrixOutcome(r.capability)} \cup ScopeOutcomes(r, contract, escalation, registry)
               \cup BudgetOutcomes(r, contract) \cup GateOutcomes(r) \cup EvidenceOutcomes(r)
<1>1. MatrixOutcome(r.capability) \in Outcomes5
  BY DEF MatrixOutcome, Outcomes5, CapabilityIds
<1>2. ScopeOutcomes(r, contract, escalation, registry) \subseteq Outcomes5 \ {"allow_within_bound"}
  BY DEF ScopeOutcomes, When, Outcomes5
<1>3. BudgetOutcomes(r, contract) \subseteq Outcomes5 \ {"allow_within_bound"}
  BY DEF BudgetOutcomes, When, Outcomes5
<1>4. GateOutcomes(r) \subseteq Outcomes5 \ {"allow_within_bound"}
  BY DEF GateOutcomes, When, Outcomes5
<1>5. EvidenceOutcomes(r) \subseteq Outcomes5 \ {"allow_within_bound"}
  BY DEF EvidenceOutcomes, When, Outcomes5
<1>6. S = {"allow_within_bound"}
  <2>1. S \subseteq Outcomes5 /\ S # {} /\ MostSevere(S) = "allow_within_bound"
    BY <1>1, <1>2, <1>3, <1>4, <1>5 DEF RequestOutcome
  <2> HIDE DEF S
  <2> QED BY <2>1, MostSevereAllows
<1>7. /\ MatrixOutcome(r.capability) = "allow_within_bound"
      /\ ScopeOutcomes(r, contract, escalation, registry) = {}
      /\ BudgetOutcomes(r, contract) = {} /\ GateOutcomes(r) = {}
  BY <1>2, <1>3, <1>4, <1>6
<1>8. /\ escalation = {} /\ r.scope \cap registry = {}
      /\ \A path \in r.scope : Under(path, contract.allowed) /\ ~Under(path, contract.forbidden)
      /\ r.capability \in WriteCapabilities => contract.gates # {}
  BY <1>7 DEF ScopeOutcomes, When
<1>9. r.capability \notin HumanGated
  BY <1>7 DEF GateOutcomes, When
<1>10. contract.ceiling # Uncapped => r.budget # Uncapped /\ r.budget <= contract.ceiling
  BY <1>7 DEF BudgetOutcomes, When
<1> QED BY <1>8, <1>9, <1>10

\* A plan without violations keeps the contract, and can be carried out.
LEMMA KeptContract ==
  ASSUME NEW contract, NEW nodes, NEW edges, PlanViolations(contract, nodes, edges) = {}
  PROVE  /\ \A id \in DOMAIN nodes :
              /\ nodes[id].scope \subseteq contract.allowed
              /\ contract.forbidden \subseteq nodes[id].forbidden
         /\ ~HasCycle(nodes, edges)
<1>1. ~HasCycle(nodes, edges)
  BY DEF PlanViolations, When
<1>2. ASSUME NEW id \in DOMAIN nodes
      PROVE  /\ nodes[id].scope \subseteq contract.allowed
             /\ contract.forbidden \subseteq nodes[id].forbidden
  <2>1. NodeViolations(contract, nodes[id], ParentScope(nodes, id)) = {}
    BY DEF PlanViolations
  <2> QED BY <2>1 DEF NodeViolations, When
<1> QED BY <1>1, <1>2

\* The plan the caller holds: made for its contract, and free of violations
\* where nothing was escalated.
IsPlan(p) ==
  /\ p = [contract |-> p.contract, evidence |-> p.evidence, nodes |-> p.nodes,
          edges |-> p.edges, escalation |-> p.escalation]
  /\ p.contract.ceiling \in Nat \cup {Uncapped}
  /\ p.escalation = {} => PlanViolations(p.contract, p.nodes, p.edges) = {}

\* A decision was made in this release, for a plan of its contract.
IsDecision(d) ==
  /\ \E contract, plan, requests :
       /\ requests \in RequestSets
       /\ plan.contract = contract
       /\ d = AdmissionDecision(contract, plan, requests, Protects)

\* A packet rests on the plan, the decision and the header that are held.
IsPacket ==
  /\ Unset \notin {execution, decision, header}
  /\ Bound(execution.contract, execution) /\ CeilingsKept(execution.contract)
  /\ packet = Bounds(header.capabilities)

\* The inductive invariant.
AssignmentInv ==
  /\ execution # Unset => IsPlan(execution)
  /\ decision # Unset => IsDecision(decision)
  /\ packet # Unset => IsPacket

\* What decompose_task returns is such a plan.
LEMMA DecomposedIsPlan ==
  ASSUME NEW contract, NEW evidence, TaskContractAccepted(contract)
  PROVE  IsPlan(Decompose(contract, evidence))
<1>1. PICK nodes, edges : Decompose(contract, evidence) =
        [contract |-> contract, evidence |-> evidence, nodes |-> nodes, edges |-> edges,
         escalation |-> EscalationReasons(contract, evidence)
                          \cup PlanViolations(contract, nodes, edges)]
  BY ZenonT(60) DEF Decompose
<1> QED BY <1>1 DEF IsPlan, TaskContractAccepted

\* So is a revision of one, whatever operations it applies.
LEMMA RevisedIsPlan ==
  ASSUME NEW p, IsPlan(p), NEW ops, RevisionApplies(p.contract, p, ops)
  PROVE  IsPlan(Revise(p.contract, p, ops))
<1> DEFINE draft == RevisionDraft(p.contract, p, ops)
<1>1. draft.escalation = {}
  BY DEF RevisionApplies
<1>2. PlanViolations(p.contract, draft.nodes, draft.edges) = {}
  BY <1>1 DEF RevisionDraft
<1> HIDE DEF draft
<1>3. Revise(p.contract, p, ops) =
        [contract |-> p.contract, evidence |-> p.evidence, nodes |-> draft.nodes,
         edges |-> draft.edges, escalation |-> {}]
  <2>1. p = [contract |-> p.contract, evidence |-> p.evidence, nodes |-> p.nodes,
             edges |-> p.edges, escalation |-> p.escalation]
    BY DEF IsPlan
  <2>2. Revise(p.contract, p, ops) =
          [p EXCEPT !.nodes = draft.nodes, !.edges = draft.edges, !.escalation = {}]
    BY DEF Revise, draft
  <2> QED BY <2>1, <2>2
<1> QED BY <1>2, <1>3 DEF IsPlan

\* Every call of the caller, in any order, preserves the invariant.
LEMMA AssignmentStep ==
  AssignmentInv /\ [AssignmentNext]_assignmentVars => AssignmentInv'
<1> SUFFICES ASSUME AssignmentInv, [AssignmentNext]_assignmentVars PROVE AssignmentInv'
  OBVIOUS
<1> USE DEF AssignmentInv
<1>1. ASSUME NEW contract \in TaskContracts, NEW model \in Models, Propose(contract, model)
      PROVE  AssignmentInv'
  BY <1>1, DecomposedIsPlan DEF Propose, IsDecision, Protects
<1>2. ASSUME NEW ops \in Revisions, ReviseExecutionPlan(ops) PROVE AssignmentInv'
  BY <1>2, RevisedIsPlan DEF ReviseExecutionPlan, IsDecision, Protects
<1>3. ASSUME NEW contract \in TaskContracts, NEW requests \in RequestSets,
             AdmitCapabilities(contract, requests)
      PROVE  AssignmentInv'
  <2>1. /\ decision' = AdmissionDecision(contract, execution, requests, Protects)
        /\ packet' = Unset /\ execution.contract = contract
        /\ UNCHANGED <<release, execution, header>>
    BY <1>3 DEF AdmitCapabilities, InputAccepted
  <2>2. IsDecision(decision)'
    BY <2>1 DEF IsDecision, Protects
  <2> QED BY <2>1, <2>2
<1>4. ASSUME NEW ceilings \in Ceilings, CreateHeader(ceilings) PROVE AssignmentInv'
  BY <1>4 DEF CreateHeader, IsDecision, Protects
<1>5. ASSUME NEW contract \in TaskContracts, CreateWorkerRequest(contract)
      PROVE  AssignmentInv'
  BY <1>5 DEF CreateWorkerRequest, IsDecision, Protects, IsPacket, Bound, CeilingsKept, Bounds
<1>6. CASE Release
  BY <1>6 DEF Release
<1>7. CASE UNCHANGED assignmentVars
  BY <1>7 DEF assignmentVars, IsDecision, Protects, IsPacket, Bound, CeilingsKept, Bounds
<1> QED BY <1>1, <1>2, <1>3, <1>4, <1>5, <1>6, <1>7 DEF AssignmentNext

\* The inductive invariant implies the property.
LEMMA PacketIsBounded == AssignmentInv => AuthorityNeverWidens
<1> SUFFICES ASSUME AssignmentInv, packet \notin {Unset, {}}
             PROVE  AuthorityNeverWidens
  BY DEF AuthorityNeverWidens
<1> DEFINE contract == execution.contract
<1>1. IsPlan(execution) /\ IsDecision(decision) /\ IsPacket
  BY DEF AssignmentInv, IsPacket
<1>2. /\ packet = Bounds(header.capabilities) /\ CeilingsKept(contract)
      /\ decision.plan = execution /\ decision.contract = contract
  BY <1>1 DEF IsPacket, Bound
<1>3. PICK requests \in RequestSets :
        decision = AdmissionDecision(contract, execution, requests, Protects)
  BY <1>1, <1>2 DEF IsDecision, AdmissionDecision
<1>4. ASSUME NEW bound \in packet
      PROVE  /\ RequestOutcome(bound, contract, execution.escalation, Protects)
                  = "allow_within_bound"
             /\ bound.budget \in Nat \cup {Uncapped}
  BY <1>2, <1>3, AssignmentAssumption DEF Bounds, AdmissionDecision
<1>5. contract.ceiling \in Nat \cup {Uncapped}
  BY <1>1 DEF IsPlan
<1>6. PICK some : some \in packet
  <2>1. Bounds(header.capabilities) # {}
    BY <1>2
  <2> QED BY <1>2, <2>1
<1>7. execution.escalation = {}
  BY <1>4, <1>5, <1>6, AllowedRequest
<1>8. PlanViolations(contract, execution.nodes, execution.edges) = {}
  BY <1>1, <1>7 DEF IsPlan
<1>9. ASSUME NEW bound \in packet
      PROVE  /\ bound.capability \notin HumanGated
             /\ bound.scope \cap Protects = {}
             /\ \A path \in bound.scope :
                  Under(path, contract.allowed) /\ ~Under(path, contract.forbidden)
             /\ contract.ceiling # Uncapped =>
                  bound.budget # Uncapped /\ bound.budget <= contract.ceiling
             /\ bound.capability \in WriteCapabilities => header.gates # {}
  <2>1. contract.gates \subseteq header.gates
    BY <1>2 DEF CeilingsKept
  <2> QED BY <1>4, <1>5, <2>1, AllowedRequest
<1> QED BY <1>8, <1>9, KeptContract DEF AuthorityNeverWidens

\* No worker is given more than its contract, its admission and the release that
\* runs allow, whatever plans, revisions, decisions and headers the caller brings
\* together, for any contracts, registries and revisions (create_worker_request).
THEOREM PacketAuthority == AssignmentSpec => []AuthorityNeverWidens
<1>1. AssignmentInit => AssignmentInv
  BY DEF AssignmentInit, AssignmentInv
<1> QED BY <1>1, AssignmentStep, PacketIsBounded, PTL DEF AssignmentSpec

------------------------------------------------------------------------------
(* The exchange with the worker (gpe_protocol.py).                         *)

\* What the supervisor holds and what was sent: a result names a request that a
\* worker was given, and there is no outcome where no request is held.
ExchangeShape ==
  /\ answers \subseteq [to : invoked, status : Claims]
  /\ Nothing \notin invoked
  /\ outgoing = Nothing => outcome = Nothing

\* The inductive invariant.
ExchangeInv == ExchangeShape /\ OutcomeIsEarned

\* An error the adapter normalises claims to know what happened only where the
\* worker cannot have run (normalize_adapter_error).
LEMMA NormalizedClaim ==
  ASSUME NEW category \in ErrorCategories, NEW ran \in BOOLEAN,
         NormalizedStatus(category, ran) # "execution_unknown"
  PROVE  ~ran
BY DEF NormalizedStatus

\* Answers lost, late, duplicated or malformed preserve the invariant.
LEMMA ExchangeStep == ExchangeInv /\ [ExchangeNext]_exchangeVars => ExchangeInv'
<1> SUFFICES ASSUME ExchangeInv, [ExchangeNext]_exchangeVars PROVE ExchangeInv'
  OBVIOUS
<1> USE DEF ExchangeInv, ExchangeShape
<1>1. ASSUME NEW a \in Attempts, NEW c \in Contexts, NEW w \in Workers, NewRequest(a, c, w)
      PROVE  ExchangeInv'
  BY <1>1 DEF NewRequest, OutcomeIsEarned
<1>2. ASSUME NEW package \in Contexts, Invoke(package) PROVE ExchangeInv'
  BY <1>2 DEF Invoke, OutcomeIsEarned
<1>3. ASSUME NEW category \in ErrorCategories, AdapterFails(category) PROVE ExchangeInv'
  <2> DEFINE ran == outgoing \in invoked \/ outgoing.attempt \in unclear
             status == NormalizedStatus(category, ran)
  <2>1. /\ outgoing # Nothing /\ outcome' = status
        /\ unclear' = IF status = "execution_unknown" THEN unclear \cup {outgoing.attempt}
                      ELSE unclear
        /\ UNCHANGED <<outgoing, invoked, answers>>
    BY <1>3 DEF AdapterFails, Record
  <2>2. status # "execution_unknown" => ~ran
    BY NormalizedClaim
  <2> HIDE DEF status
  <2> QED BY <2>1, <2>2 DEF OutcomeIsEarned
<1>4. CASE ObserveUncertainty
  BY <1>4 DEF ObserveUncertainty, OutcomeIsEarned
<1>5. ASSUME NEW given \in invoked, NEW claim \in Claims, Answer(given, claim)
      PROVE  ExchangeInv'
  BY <1>5 DEF Answer, OutcomeIsEarned
<1>6. ASSUME NEW message \in answers \cup {Garbage}, Receive(message) PROVE ExchangeInv'
  <2> DEFINE status == ReceivedStatus(message)
  <2>1. /\ outgoing \in invoked /\ outcome' = status
        /\ unclear' = IF status = "execution_unknown" THEN unclear \cup {outgoing.attempt}
                      ELSE unclear
        /\ UNCHANGED <<outgoing, invoked, answers>>
    BY <1>6 DEF Receive, Record
  <2>2. NormalizedStatus("unknown_failure", TRUE) = "execution_unknown"
    BY DEF NormalizedStatus
  <2>3. status # "execution_unknown" =>
          /\ message \in answers /\ message.to = outgoing /\ message.status = status
          /\ outgoing.attempt \notin unclear
    BY <2>2 DEF ReceivedStatus, ResultMatches
  <2>4. message \in answers => message = [to |-> message.to, status |-> message.status]
    OBVIOUS
  <2> HIDE DEF status
  <2>5. status # "execution_unknown" => [to |-> outgoing, status |-> status] \in answers
    BY <2>3, <2>4
  <2> QED BY <2>1, <2>3, <2>5 DEF OutcomeIsEarned
<1>7. CASE DropRequest
  BY <1>7 DEF DropRequest, OutcomeIsEarned
<1>8. CASE UNCHANGED exchangeVars
  BY <1>8 DEF exchangeVars, OutcomeIsEarned
<1> QED BY <1>1, <1>2, <1>3, <1>4, <1>5, <1>6, <1>7, <1>8 DEF ExchangeNext

\* A recorded outcome was earned: only an answer to this very request, from a
\* worker that was given it, says what happened; anything late, lost or malformed
\* is recorded as unknown (gpe_protocol.py).
THEOREM WorkerOutcomes == ExchangeSpec => []OutcomeIsEarned
<1>1. ExchangeInit => ExchangeInv
  BY DEF ExchangeInit, ExchangeInv, ExchangeShape, OutcomeIsEarned
<1>2. ExchangeInv => OutcomeIsEarned
  BY DEF ExchangeInv
<1> QED BY <1>1, <1>2, ExchangeStep, PTL DEF ExchangeSpec

\* A request that has no outcome yet is of an attempt that has no result.
HeldIsOpen == outgoing # Nothing /\ outcome = Nothing => outgoing.attempt \notin settled

\* Whatever arrives becomes a status, so the request it is for is over.
LEMMA StatusIsRecorded ==
  ASSUME ExchangeShape, ExchangeAssumption
  PROVE  /\ \A category \in ErrorCategories, ran \in BOOLEAN :
              NormalizedStatus(category, ran) # Nothing
         /\ \A message \in answers \cup {Garbage} : ReceivedStatus(message) # Nothing
<1>1. \A category \in ErrorCategories, ran \in BOOLEAN : NormalizedStatus(category, ran) \in Statuses
  BY DEF NormalizedStatus, Statuses, Claims, ErrorCategories
<1>2. NormalizedStatus("unknown_failure", TRUE) \in Statuses
  BY <1>1 DEF ErrorCategories
<1>3. ASSUME NEW message \in answers \cup {Garbage} PROVE ReceivedStatus(message) \in Statuses
  <2>1. message \in answers => message.status \in Statuses
    BY DEF ExchangeShape, Statuses
  <2> QED BY <1>2, <2>1 DEF ReceivedStatus
<1> QED BY <1>1, <1>3 DEF ExchangeAssumption

\* No attempt is given to a worker again after its result was recorded, however
\* requests and answers are delayed (gpe_protocol.py).
THEOREM SettledAttempts == ExchangeSpec => NoRunAfterResult
<1> DEFINE Held == ExchangeInv /\ HeldIsOpen
           NoneAgain == \A r \in invoked' \ invoked : r.attempt \notin settled
<1>1. ExchangeInit => Held
  BY DEF ExchangeInit, ExchangeInv, ExchangeShape, OutcomeIsEarned, HeldIsOpen
<1>2. ASSUME Held, [ExchangeNext]_exchangeVars PROVE HeldIsOpen'
  <2>1. CASE \E category \in ErrorCategories : AdapterFails(category)
    <3>1. PICK category \in ErrorCategories : AdapterFails(category)
      BY <2>1
    <3>2. outcome' # Nothing
      BY <1>2, <3>1, StatusIsRecorded, ExchangeAssumption DEF AdapterFails, Record, ExchangeInv
    <3> QED BY <3>2 DEF HeldIsOpen
  <2>2. CASE \E message \in answers \cup {Garbage} : Receive(message)
    <3>1. PICK message \in answers \cup {Garbage} : Receive(message)
      BY <2>2
    <3>2. outcome' # Nothing
      BY <1>2, <3>1, StatusIsRecorded, ExchangeAssumption DEF Receive, Record, ExchangeInv
    <3> QED BY <3>2 DEF HeldIsOpen
  <2> QED BY <1>2, <2>1, <2>2
        DEF ExchangeNext, exchangeVars, HeldIsOpen, NewRequest, Invoke, ObserveUncertainty,
            Answer, DropRequest
<1>3. Held /\ [ExchangeNext]_exchangeVars => Held'
  BY <1>2, ExchangeStep
<1>4. ASSUME Held, [ExchangeNext]_exchangeVars PROVE [NoneAgain]_exchangeVars
  <2>1. CASE invoked' = invoked
    BY <2>1
  <2>2. ASSUME NEW package \in Contexts, Invoke(package) PROVE NoneAgain
    BY <1>4, <2>2 DEF Invoke, HeldIsOpen
  <2> QED BY <1>4, <2>1, <2>2
        DEF ExchangeNext, exchangeVars, NewRequest, AdapterFails, ObserveUncertainty, Answer,
            Receive, DropRequest
<1> QED BY <1>1, <1>3, <1>4, PTL DEF ExchangeSpec, NoRunAfterResult
==============================================================================
