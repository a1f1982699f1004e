--------------------------- MODULE ToolOperations ---------------------------
(***************************************************************************)
(* The durable approval queue for model-selected write tools:              *)
(* backend/tool_operations.py, with the executor it calls                  *)
(* (backend/tool_executor.py) and the Run rows that executor writes        *)
(* (backend/runs.py).                                                      *)
(*                                                                         *)
(* HTTP handlers run on a thread pool, so approve and reject requests      *)
(* interleave.  A handler is not one transaction but a sequence of them,   *)
(* and every action below is exactly one committed (or failed) SQLite      *)
(* transaction of one request.  SQLite's BEGIN IMMEDIATE makes each of     *)
(* them atomic; nothing makes the sequence atomic.                         *)
(***************************************************************************)
EXTENDS Naturals

CONSTANTS Ops,          \* operation ids that may ever be created
          Reqs,         \* approve / reject HTTP requests, each handled once
          Versions,     \* versions the one write tool can be registered with
          Ttl,          \* DEFAULT_OPERATION_TTL_SECONDS, in clock ticks
          MaxTime,      \* bound on the clock
          None          \* no registered tool, no expiry, no result Run

ASSUME TtlAssumption == Ttl \in Nat \ {0}
ASSUME MaxTimeAssumption == MaxTime \in Nat
ASSUME NoneAssumption == None \notin Nat /\ None \notin Versions /\ None \notin Reqs

VARIABLES
  status,     \* tool_operations.status, "absent" before the INSERT
  version,    \* tool_operations.tool_version, frozen at creation
  expires,    \* tool_operations.expires_at
  resultRun,  \* tool_operations.result_run_id (a Run is named by its request)
  runs,       \* runs.status of the tool Run a request started
  registry,   \* version the process has registered, None when unregistered
  pc,         \* the next transaction of each request
  target,     \* the operation each request is about
  arrived,    \* the time each request arrived
  now,        \* the wall clock
  writes,     \* history: committed executor writes, per operation
  ran,        \* history: tool versions whose executor committed
  lost        \* history: claims whose owner died or whose finalize failed

rows == <<status, version, expires, resultRun>>
history == <<writes, ran, lost>>
vars == <<status, version, expires, resultRun, runs, registry, pc, target,
          arrived, now, writes, ran, lost>>

Terminal == {"succeeded", "rejected", "failed", "expired"}
Statuses == Terminal \cup {"absent", "pending", "executing"}
RunStatuses == {"none", "started", "succeeded", "failed"}

\* Program points of approve_operation after its claim has committed.
Owning == {"claimed", "refuse", "execute", "finish_failure", "finish_success",
           "finalize_failed", "finalize_succeeded"}
InFlight == Owning \cup {"approve_expire", "claim", "reject_expire", "reject"}
Points == InFlight \cup {"idle", "done", "dead"}

Owns(r, o) == pc[r] \in Owning /\ target[r] = o

(***************************************************************************)
(* The state a fresh database and a freshly started process are in.        *)
(***************************************************************************)
Init ==
  /\ status = [o \in Ops |-> "absent"]
  /\ version = [o \in Ops |-> None]
  /\ expires = [o \in Ops |-> None]
  /\ resultRun = [o \in Ops |-> None]
  /\ runs = [r \in Reqs |-> "none"]
  /\ registry \in Versions
  /\ pc = [r \in Reqs |-> "idle"]
  /\ target \in [Reqs -> Ops]
  /\ arrived = [r \in Reqs |-> 0]
  /\ now = 0
  /\ writes = [o \in Ops |-> 0]
  /\ ran = [o \in Ops |-> {}]
  /\ lost = {}

Goto(r, point) == pc' = [pc EXCEPT ![r] = point]

-----------------------------------------------------------------------------
(* Mutants: operations of the next section with a plausible mistake in     *)
(* them.  No action uses them; each shows that a property can fail.        *)

\* The claim without its WHERE status = 'pending'.
ClaimAnyUndecided(r) ==
  LET o == target[r] IN
  /\ pc[r] = "claim"
  /\ \/ /\ status[o] \in {"pending", "executing"}
        /\ status' = [status EXCEPT ![o] = "executing"]
        /\ Goto(r, "claimed")
     \/ /\ status[o] \notin {"pending", "executing"}
        /\ Goto(r, "done")
        /\ UNCHANGED status
  /\ UNCHANGED <<version, expires, resultRun, runs, registry, target, arrived,
                 now, history>>

\* The version check looks for the tool's name only.
ToolIsRegistered(o) == registry # None

\* A refused attempt returns without finalizing the operation.
FinishRunFailureReturns(r) ==
  /\ pc[r] \in {"refuse", "finish_failure"}
  /\ runs' = [runs EXCEPT ![r] = "failed"]
  /\ Goto(r, IF pc[r] = "refuse" THEN "done" ELSE "finalize_failed")
  /\ UNCHANGED <<rows, registry, target, arrived, now, history>>

\* The expiry comparison is the wrong way round.
StaleReversed(o) ==
  /\ status[o] = "pending"
  /\ expires[o] # None
  /\ expires[o] > now

\* Expiry of a row whatever its status.
StaleInAnyStatus(o) ==
  /\ status[o] # "absent"
  /\ expires[o] # None
  /\ expires[o] < now

-----------------------------------------------------------------------------
(* Operations                                                              *)

(***************************************************************************)
(* create_pending_operation: freeze the call, with the registered version  *)
(* and an expiry (the default TTL) or none (ttl_seconds=None).             *)
(***************************************************************************)
CreatePending(o) ==
  /\ status[o] = "absent"
  /\ registry # None
  /\ status' = [status EXCEPT ![o] = "pending"]
  /\ version' = [version EXCEPT ![o] = registry]
  /\ \E deadline \in {now + Ttl, None} :
       expires' = [expires EXCEPT ![o] = deadline]
  /\ UNCHANGED <<resultRun, runs, registry, pc, target, arrived, now, history>>

\* POST /tool-operations/{id}/approve and /reject reach their handler.
Request(r) ==
  /\ pc[r] = "idle"
  /\ \E first \in {"approve_expire", "reject_expire"} : Goto(r, first)
  /\ arrived' = [arrived EXCEPT ![r] = now]
  /\ UNCHANGED <<rows, runs, registry, target, now, history>>

Stale(o) ==
  /\ status[o] = "pending"
  /\ expires[o] # None
  /\ expires[o] < now

(***************************************************************************)
(* _expire_stale_pending_operation: its own committed transaction, the     *)
(* first of both handlers.  When it expired the row the handler raises     *)
(* OperationExpiredError; otherwise the handler opens a second one.        *)
(***************************************************************************)
ExpireStale(r) ==
  LET o == target[r] IN
  /\ pc[r] \in {"approve_expire", "reject_expire"}
  /\ \/ /\ Stale(o)
        /\ status' = [status EXCEPT ![o] = "expired"]
        /\ Goto(r, "done")
     \/ /\ ~Stale(o)
        /\ Goto(r, IF pc[r] = "approve_expire" THEN "claim" ELSE "reject")
        /\ UNCHANGED status
  /\ UNCHANGED <<version, expires, resultRun, runs, registry, target, arrived,
                 now, history>>

(***************************************************************************)
(* _claim_pending_operation, second transaction.  The expiry is not read   *)
(* again.  A row that is missing or not pending raises, changing nothing.  *)
(***************************************************************************)
Claim(r) ==
  LET o == target[r] IN
  /\ pc[r] = "claim"
  /\ \/ /\ status[o] = "pending"
        /\ status' = [status EXCEPT ![o] = "executing"]
        /\ Goto(r, "claimed")
     \/ /\ status[o] # "pending"
        /\ Goto(r, "done")
        /\ UNCHANGED status
  /\ UNCHANGED <<version, expires, resultRun, runs, registry, target, arrived,
                 now, history>>

\* reject_operation, second transaction.
Reject(r) ==
  LET o == target[r] IN
  /\ pc[r] = "reject"
  /\ status' = IF status[o] = "pending"
               THEN [status EXCEPT ![o] = "rejected"] ELSE status
  /\ Goto(r, "done")
  /\ UNCHANGED <<version, expires, resultRun, runs, registry, target, arrived,
                 now, history>>

VersionMatches(o) == registry # None /\ registry = version[o]

(***************************************************************************)
(* start_tool_run.  A missing tool or a changed version is refused through *)
(* record_rejected_tool_attempt, which starts a Run only to fail it; a     *)
(* matching one goes on to execute_tool.                                   *)
(***************************************************************************)
StartRun(r) ==
  /\ pc[r] = "claimed"
  /\ runs' = [runs EXCEPT ![r] = "started"]
  /\ Goto(r, IF VersionMatches(target[r]) THEN "execute" ELSE "refuse")
  /\ UNCHANGED <<rows, registry, target, arrived, now, history>>

\* definition.executor(...): the tool's own transaction commits.
Execute(r) ==
  LET o == target[r] IN
  /\ pc[r] = "execute"
  /\ writes' = [writes EXCEPT ![o] = @ + 1]
  /\ ran' = [ran EXCEPT ![o] = @ \cup {registry}]
  /\ Goto(r, "finish_success")
  /\ UNCHANGED <<rows, runs, registry, target, arrived, now, lost>>

\* Validation, permission or the executor raises before anything committed.
ExecuteRaises(r) ==
  /\ pc[r] = "execute"
  /\ Goto(r, "finish_failure")
  /\ UNCHANGED <<rows, runs, registry, target, arrived, now, history>>

\* finish_tool_run_failure, of a refused or of a failed execution.
FinishRunFailure(r) ==
  /\ pc[r] \in {"refuse", "finish_failure"}
  /\ runs' = [runs EXCEPT ![r] = "failed"]
  /\ Goto(r, "finalize_failed")
  /\ UNCHANGED <<rows, registry, target, arrived, now, history>>

\* finish_tool_run_success, outside execute_tool's try block.
FinishRunSuccess(r) ==
  /\ pc[r] = "finish_success"
  /\ runs' = [runs EXCEPT ![r] = "succeeded"]
  /\ Goto(r, "finalize_succeeded")
  /\ UNCHANGED <<rows, registry, target, arrived, now, history>>

\* _finalize_operation: UPDATE ... WHERE status = 'executing'.
Finalize(r) ==
  LET o == target[r] IN
  /\ pc[r] \in {"finalize_failed", "finalize_succeeded"}
  /\ status[o] = "executing"
  /\ status' = [status EXCEPT ![o] =
                  IF pc[r] = "finalize_succeeded" THEN "succeeded" ELSE "failed"]
  /\ resultRun' = [resultRun EXCEPT ![o] =
                     IF pc[r] = "finalize_succeeded" THEN r ELSE None]
  /\ Goto(r, "done")
  /\ UNCHANGED <<version, expires, runs, registry, target, arrived, now, history>>

(***************************************************************************)
(* A transaction fails (busy timeout, full disk) and is rolled back.  An   *)
(* error inside execute_tool is caught by approve_operation, which goes    *)
(* on to finalize the operation as failed; anywhere else it escapes to the *)
(* client, and a claimed operation stays in executing.                     *)
(***************************************************************************)
CaughtByApprove(r) ==
  \/ pc[r] \in {"finish_failure", "finish_success"}
  \/ pc[r] = "claimed" /\ VersionMatches(target[r])

StorageFault(r) ==
  /\ pc[r] \in InFlight \ {"execute"}
  /\ \/ /\ CaughtByApprove(r)
        /\ Goto(r, "finalize_failed")
        /\ UNCHANGED lost
     \/ /\ ~CaughtByApprove(r)
        /\ Goto(r, "done")
        /\ lost' = lost \cup {o \in Ops : Owns(r, o)}
  /\ UNCHANGED <<rows, runs, registry, target, arrived, now, writes, ran>>

(***************************************************************************)
(* The process dies and is started again, perhaps with another build.  The *)
(* registry is built once per process, so it only changes here.            *)
(***************************************************************************)
Restart ==
  /\ pc' = [r \in Reqs |-> IF pc[r] \in InFlight THEN "dead" ELSE pc[r]]
  /\ lost' = lost \cup {o \in Ops : \E r \in Reqs : Owns(r, o)}
  /\ registry' \in Versions \cup {None}
  /\ UNCHANGED <<rows, runs, target, arrived, now, writes, ran>>

Tick ==
  /\ now < MaxTime
  /\ now' = now + 1
  /\ UNCHANGED <<rows, runs, registry, pc, target, arrived, history>>

\* One transaction of the request, whatever it is due to do next.
Step(r) ==
  \/ ExpireStale(r) \/ Claim(r) \/ Reject(r) \/ StartRun(r)
  \/ Execute(r) \/ ExecuteRaises(r)
  \/ FinishRunFailure(r) \/ FinishRunSuccess(r) \/ Finalize(r)

Next ==
  \/ \E o \in Ops : CreatePending(o)
  \/ \E r \in Reqs : Request(r) \/ Step(r) \/ StorageFault(r)
  \/ Restart
  \/ Tick

(***************************************************************************)
(* A started handler runs on: the thread pool schedules every thread, and  *)
(* the five-second busy timeout turns a blocked transaction into a fault.  *)
(* No fairness on requests, creation, time, faults or restarts.            *)
(***************************************************************************)
Fairness == \A r \in Reqs : WF_vars(Step(r))

Spec == Init /\ [][Next]_vars
FairSpec == Spec /\ Fairness

-----------------------------------------------------------------------------
(* Properties                                                              *)

\* Every variable has the type the schema and the handlers give it.
TypeOK ==
  /\ status \in [Ops -> Statuses]
  /\ version \in [Ops -> Versions \cup {None}]
  /\ expires \in [Ops -> Nat \cup {None}]
  /\ resultRun \in [Ops -> Reqs \cup {None}]
  /\ runs \in [Reqs -> RunStatuses]
  /\ registry \in Versions \cup {None}
  /\ pc \in [Reqs -> Points]
  /\ target \in [Reqs -> Ops]
  /\ arrived \in [Reqs -> Nat]
  /\ now \in Nat
  /\ writes \in [Ops -> Nat]
  /\ ran \in [Ops -> SUBSET Versions]
  /\ lost \subseteq Ops

\* approve_operation "executes the frozen call exactly once": however many
\* approvals, retries, faults and restarts there are, the tool's write commits
\* at most once, and a succeeded operation's committed exactly once.
ExecutedAtMostOnce ==
  \A o \in Ops : /\ writes[o] <= 1
                 /\ status[o] = "succeeded" => writes[o] = 1

\* Nothing runs before the claim, and nothing ever runs for an operation a
\* reviewer rejected or that expired, even with an approval racing them.
UnapprovedWroteNothing ==
  \A o \in Ops :
    status[o] \in {"absent", "pending", "rejected", "expired"} => writes[o] = 0

\* A write happens once, and only inside an approval: both of the above.
WritesNeedApproval == ExecutedAtMostOnce /\ UnapprovedWroteNothing

\* Only the version the reviewer saw ever runs, although the registry may have
\* changed between freezing, claiming and executing (approve_operation, 331).
OnlyTheReviewedVersionRan == \A o \in Ops : ran[o] \subseteq {version[o]}

\* The claim is exclusive: two approvals never both hold one operation, and the
\* one that holds it finds it still executing, so the RuntimeError of
\* _finalize_operation cannot be raised.
ClaimIsExclusive ==
  \A r \in Reqs :
    pc[r] \in Owning =>
      /\ status[target[r]] = "executing"
      /\ \A s \in Reqs : Owns(s, target[r]) => s = r

\* An operation is left in executing only by a crash or by a storage fault that
\* escaped the handler, the two ways the module's docstring accepts.
ExecutingIsOwnedOrLost ==
  \A o \in Ops : status[o] = "executing" => o \in lost \/ \E r \in Reqs : Owns(r, o)

\* Every operation in executing has one owner, who alone can finalize it, or
\* lost it to a crash or an escaped fault: both of the above.
ClaimsAreOwned == ClaimIsExclusive /\ ExecutingIsOwnedOrLost

\* The audit trail agrees with the operation: a succeeded operation names the
\* succeeded Run of the request that claimed it, and a failed Run never belongs
\* to an operation recorded as succeeded.
ResultRunSucceeded ==
  \A o \in Ops :
    /\ status[o] = "succeeded" =>
         \E r \in Reqs : /\ resultRun[o] = r
                         /\ runs[r] = "succeeded"
                         /\ target[r] = o
    /\ status[o] # "succeeded" => resultRun[o] = None

\* An operation already past its expiry when the request arrived is never
\* claimed by that request.
NoClaimOfStaleArrival ==
  \A r \in Reqs :
    pc[r] \in Owning =>
      expires[target[r]] = None \/ arrived[r] <= expires[target[r]]

\* Every claim is settled: unless its owner is lost, an executing operation
\* reaches a terminal status.
ClaimSettles ==
  \A o \in Ops :
    status[o] = "executing" ~> (status[o] \in Terminal \/ o \in lost)

Contract == INSTANCE OperationContract WITH Ops <- Ops, status <- status, writes <- writes

\* Behind its transactions, faults and restarts the queue implements the
\* reviewer's contract: every step is one arrow of the documented state machine
\* or the single write inside a claim (docstring of tool_operations.py, 8-32).
ImplementsContract == Contract!Spec

-----------------------------------------------------------------------------
(* The inductive invariant of the safety proofs (ToolOperationsProofs).    *)

\* What has been written and recorded by the time a claim's owner is at each of
\* its program points.
OwnerProgress ==
  \A r \in Reqs :
    /\ pc[r] \in {"claimed", "refuse", "execute", "finish_failure"} =>
         writes[target[r]] = 0
    /\ pc[r] \in {"finish_success", "finalize_succeeded"} =>
         writes[target[r]] = 1
    /\ pc[r] = "execute" => VersionMatches(target[r])
    /\ pc[r] = "finalize_succeeded" => runs[r] = "succeeded"

\* A version is in the history only because its executor has written.
RanOnlyByWriting == \A o \in Ops : writes[o] = 0 => ran[o] = {}

\* A recorded result Run belongs to a request that is over, so no later step
\* of anyone can change it.
ResultRunSettled ==
  \A o \in Ops :
    /\ status[o] = "succeeded" =>
         /\ resultRun[o] \in Reqs
         /\ runs[resultRun[o]] = "succeeded"
         /\ target[resultRun[o]] = o
         /\ pc[resultRun[o]] \in {"done", "dead"}
    /\ status[o] # "succeeded" => resultRun[o] = None

IndInv ==
  /\ TypeOK
  /\ ExecutedAtMostOnce
  /\ UnapprovedWroteNothing
  /\ OnlyTheReviewedVersionRan
  /\ ClaimIsExclusive
  /\ ExecutingIsOwnedOrLost
  /\ OwnerProgress
  /\ RanOnlyByWriting
  /\ ResultRunSettled

-----------------------------------------------------------------------------
(* What the documentation says and the code does not do.                   *)

\* "rejected, failed, and expired are terminal and executed nothing"
\* (tool_operations.py:31).
FailedExecutedNothing == \A o \in Ops : status[o] = "failed" => writes[o] = 0
=============================================================================
