---------------------------- MODULE BuilderQueue ----------------------------
(***************************************************************************)
(* The Continuous Builder's product queue: slices of one stored blueprint, *)
(* their append-only event chains (queue_store.py), attempts and leases    *)
(* (leases.py), and the planner that turns a leased slice into a worker    *)
(* action (worker_planning.py).                                            *)
(*                                                                         *)
(* Every operation is one BEGIN IMMEDIATE transaction, so one action.      *)
(* What interleaves are the callers: a writer reads a slice and its        *)
(* dependencies and appends later, a planner reads in five transactions.   *)
(* Chains only grow and digests bind the whole history, so an expected     *)
(* (sequence, digest) is the durable one exactly when nothing was appended *)
(* since the read; a view keeps that as its field chain.                   *)
(***************************************************************************)
EXTENDS Naturals, Sequences

CONSTANTS
  Slices,      \* slices of the stored blueprint
  HardDeps,    \* hard_dependencies of each slice
  SoftDeps,    \* soft_dependencies of each slice
  Attempts,    \* attempt identities; an attempt has at most one lease
  Writers,     \* callers of append_event
  Planners     \* callers of plan_inert_worker_action

ASSUME DepsAssumption ==
  HardDeps \in [Slices -> SUBSET Slices] /\ SoftDeps \in [Slices -> SUBSET Slices]

VARIABLES
  state,       \* next_state of the last event of each slice
  attempts,    \* slice of each created attempt, or NoSlice
  leases,      \* lease row of each attempt
  view,        \* what each writer last read
  plan,        \* where each planner is
  author,      \* attempt_id of the last event of each slice
  reviewed     \* history: reviewed since it was last in building

vars == <<state, attempts, leases, view, plan, author, reviewed>>

-----------------------------------------------------------------------------
(* The lifecycle table of queue_store.py                                   *)

PRIMARY == <<"idea", "researching", "designing", "ready", "scheduled", "building",
             "reviewing", "staging", "testing", "ready_for_main", "done">>

SIDE == {"blocked", "changes_requested", "paused", "superseded", "retired",
         "cancelled"}

States == {PRIMARY[i] : i \in 1..Len(PRIMARY)} \cup SIDE

\* TRANSITIONS; "none" is the state of a slice without events.
TRANSITIONS(s) ==
  CASE s = "none" -> {"idea"}
    [] s = "blocked" -> {"researching", "designing", "ready", "cancelled"}
    [] s = "changes_requested" -> {"building", "cancelled"}
    [] s = "paused" -> {"researching", "designing", "ready", "scheduled", "cancelled"}
    [] s \in {"superseded", "retired", "cancelled", "done"} -> {}
    [] OTHER -> {PRIMARY[i + 1] : i \in {j \in 1..10 : PRIMARY[j] = s}}
                \cup {"blocked", "paused", "cancelled", "superseded", "retired"}
                \cup (IF s = "reviewing" THEN {"changes_requested"} ELSE {})

\* EXECUTION_CAPABLE_STATES: from "ready" on.
ExecutionCapable == {PRIMARY[i] : i \in 4..11}

NoSlice == "no_slice"
NoAttempt == "no_attempt"

\* The sentinels are not slices or attempts.
ASSUME SentinelsAssumption == NoSlice \notin Slices /\ NoAttempt \notin Attempts

\* A lease row: no row, held before or after its expiry, held although its
\* worker was confirmed running after expiry, or released.
LeaseStatuses == {"none", "active", "expired_uncertain", "needs_human", "released"}

Held(a) == leases[a] \in {"active", "expired_uncertain", "needs_human"}

\* The attempts with an unreleased lease on slice s.
HoldersOf(s) == {a \in Attempts : attempts[a] = s /\ Held(a)}

\* Has an event been appended to a chain since it was read?
Chain == {"same", "moved"}

Views == [slice: Slices, seen: States \cup {"none"}, chain: Chain]
NoView == [slice |-> NoSlice, seen |-> "none", chain |-> "moved"]

Stages == {"sources", "projected", "inspected", "receipts", "planned"}
Plans == [slice: Slices, lease: Attempts, stage: Stages, chain: Chain]
NoPlan == [slice |-> NoSlice, lease |-> NoAttempt, stage |-> "idle", chain |-> "moved"]

Init ==
  /\ state = [s \in Slices |-> "none"]
  /\ attempts = [a \in Attempts |-> NoSlice]
  /\ leases = [a \in Attempts |-> "none"]
  /\ view = [w \in Writers |-> NoView]
  /\ plan = [p \in Planners |-> NoPlan]
  /\ author = [s \in Slices |-> NoAttempt]
  /\ reviewed = [s \in Slices |-> FALSE]

-----------------------------------------------------------------------------
(* append_event and its callers                                            *)

\* A writer reads the head of the chain and the dependency snapshot.
Read(w, s) ==
  /\ view[w] = NoView
  /\ view' = [view EXCEPT ![w] = [slice |-> s, seen |-> state[s], chain |-> "same"]]
  /\ UNCHANGED <<state, attempts, leases, plan, author, reviewed>>

\* Mutant: dependencies are only proven on the literal transition to ready.
DependenciesDoneOnReady(s, next) ==
  next = "ready" => \A d \in HardDeps[s] : state[d] = "done"

\* Entering an execution-capable state needs every hard dependency done.
DependenciesDone(s, next) ==
  next \in ExecutionCapable => \A d \in HardDeps[s] : state[d] = "done"

\* The event names no attempt or one of this slice; while a lease is held, the
\* attempt that holds it.
AttemptMaySpeak(s, a) ==
  /\ a # NoAttempt => attempts[a] = s
  /\ HoldersOf(s) \subseteq {a}

\* Mutant: sequence and digest are not compared.
CompareAndSwapAny(w, s) == view[w].slice = s

\* Expected sequence, digest and dependency snapshot are the durable ones.
CompareAndSwap(w, s) == view[w].slice = s /\ view[w].chain = "same"

\* The views of s, and of the slices whose dependency snapshot contains s.
Shows(w, s) ==
  view[w].slice = s \/ (view[w].slice \in Slices /\ s \in HardDeps[view[w].slice])

Outdated(s) ==
  [w \in Writers |->
     [view[w] EXCEPT !.chain = IF Shows(w, s) THEN "moved" ELSE @]]

\* append_event commits: checks in one transaction, then the row.
AppendEvent(w, s, next, a) ==
  /\ CompareAndSwap(w, s)
  /\ DependenciesDone(s, next)
  /\ AttemptMaySpeak(s, a)
  /\ next \in TRANSITIONS(state[s])
  /\ state' = [state EXCEPT ![s] = next]
  /\ view' = [Outdated(s) EXCEPT ![w] = NoView]
  /\ plan' = [p \in Planners |->
                [plan[p] EXCEPT !.chain = IF plan[p].slice = s THEN "moved" ELSE @]]
  /\ author' = [author EXCEPT ![s] = a]
  /\ reviewed' = [reviewed EXCEPT ![s] = (@ /\ next # "building") \/ next = "reviewing"]
  /\ UNCHANGED <<attempts, leases>>

\* append_event raises and rolls back, or the writer gives up.
Abandon(w) ==
  /\ view[w] # NoView
  /\ view' = [view EXCEPT ![w] = NoView]
  /\ UNCHANGED <<state, attempts, leases, plan, author, reviewed>>

-----------------------------------------------------------------------------
(* Attempts and leases                                                     *)

CreateAttempt(a, s) ==
  /\ attempts[a] = NoSlice
  /\ attempts' = [attempts EXCEPT ![a] = s]
  /\ UNCHANGED <<state, leases, view, plan, author, reviewed>>

\* idx_builder_active_lease_identity: no unreleased row of the same slice.
LeaseFree(s) == HoldersOf(s) = {}

AcquireLease(a) ==
  /\ attempts[a] # NoSlice
  /\ leases[a] = "none"
  /\ LeaseFree(attempts[a])
  /\ leases' = [leases EXCEPT ![a] = "active"]
  /\ UNCHANGED <<state, attempts, view, plan, author, reviewed>>

\* expires_at passes; nothing is written.
Expire(a) ==
  /\ leases[a] = "active"
  /\ leases' = [leases EXCEPT ![a] = "expired_uncertain"]
  /\ UNCHANGED <<state, attempts, view, plan, author, reviewed>>

\* reconcile_expired_lease: only an expired, unreleased lease has a verdict, and
\* only worker_confirmed_stopped releases it.
ReconcileExpiredLease(a, stopped) ==
  /\ leases[a] \in {"expired_uncertain", "needs_human"}
  /\ leases' = [leases EXCEPT ![a] = IF stopped THEN "released" ELSE "needs_human"]
  /\ UNCHANGED <<state, attempts, view, plan, author, reviewed>>

\* release_lease by the lease's owner, expired or not.
ReleaseLease(a) ==
  /\ Held(a)
  /\ leases' = [leases EXCEPT ![a] = "released"]
  /\ UNCHANGED <<state, attempts, view, plan, author, reviewed>>

-----------------------------------------------------------------------------
(* plan_inert_worker_action: five reads, each its own connection           *)

Advance(p, stage) == plan' = [plan EXCEPT ![p].stage = stage]

\* The stored slice and the lease row, bound to it and not released.
ReadSources(p, s, a) ==
  /\ plan[p] = NoPlan
  /\ attempts[a] = s /\ Held(a)
  /\ plan' = [plan EXCEPT ![p] = [slice |-> s, lease |-> a, stage |-> "sources",
                                  chain |-> "same"]]
  /\ UNCHANGED <<state, attempts, leases, view, author, reviewed>>

\* replay_slice: the slice must be scheduled.
Project(p) ==
  /\ plan[p].stage = "sources"
  /\ state[plan[p].slice] = "scheduled"
  /\ plan' = [plan EXCEPT ![p].stage = "projected", ![p].chain = "same"]
  /\ UNCHANGED <<state, attempts, leases, view, author, reviewed>>

\* inspect_lease: the status must be active.
Inspect(p) ==
  /\ plan[p].stage = "projected"
  /\ leases[plan[p].lease] = "active"
  /\ Advance(p, "inspected")
  /\ UNCHANGED <<state, attempts, leases, view, author, reviewed>>

\* derive_dependency_receipts: every hard and soft dependency is done.
Receipts(p) ==
  /\ plan[p].stage = "inspected"
  /\ \A d \in HardDeps[plan[p].slice] \cup SoftDeps[plan[p].slice] : state[d] = "done"
  /\ Advance(p, "receipts")
  /\ UNCHANGED <<state, attempts, leases, view, author, reviewed>>

\* Mutant: the projection is not replayed again before the result is built.
UnchangedSinceProjectionSkipped(p) == TRUE

\* The second replay_slice equals the first.
UnchangedSinceProjection(p) == plan[p].chain = "same"

Finish(p) ==
  /\ plan[p].stage = "receipts"
  /\ UnchangedSinceProjection(p)
  /\ Advance(p, "planned")
  /\ UNCHANGED <<state, attempts, leases, view, author, reviewed>>

\* A check fails and WorkerPlanningError is raised, or the result is used up.
LeavePlan(p) ==
  /\ plan[p] # NoPlan
  /\ plan' = [plan EXCEPT ![p] = NoPlan]
  /\ UNCHANGED <<state, attempts, leases, view, author, reviewed>>

-----------------------------------------------------------------------------

Next ==
  \/ \E w \in Writers, s \in Slices :
       \/ Read(w, s)
       \/ \E next \in States, a \in Attempts \cup {NoAttempt} : AppendEvent(w, s, next, a)
  \/ \E w \in Writers : Abandon(w)
  \/ \E a \in Attempts :
       \/ \E s \in Slices : CreateAttempt(a, s)
       \/ AcquireLease(a)
       \/ Expire(a)
       \/ \E stopped \in BOOLEAN : ReconcileExpiredLease(a, stopped)
       \/ ReleaseLease(a)
  \/ \E p \in Planners :
       \/ \E s \in Slices, a \in Attempts : ReadSources(p, s, a)
       \/ Project(p) \/ Inspect(p) \/ Receipts(p) \/ Finish(p) \/ LeavePlan(p)

Spec == Init /\ [][Next]_vars

-----------------------------------------------------------------------------
(* Properties                                                              *)

\* Every variable has its type.
TypeOK ==
  /\ state \in [Slices -> States \cup {"none"}]
  /\ attempts \in [Attempts -> Slices \cup {NoSlice}]
  /\ leases \in [Attempts -> LeaseStatuses]
  /\ view \in [Writers -> Views \cup {NoView}]
  /\ plan \in [Planners -> Plans \cup {NoPlan}]
  /\ author \in [Slices -> Attempts \cup {NoAttempt}]
  /\ reviewed \in [Slices -> BOOLEAN]

\* A slice in an execution-capable state has every hard dependency done, by
\* whatever route it came there and whatever happened to the dependency since.
DependenciesComplete ==
  \A s \in Slices :
    state[s] \in ExecutionCapable => \A d \in HardDeps[s] : state[d] = "done"

\* Nothing is staged, tested or done that was not reviewed after its last build,
\* through pauses, blocks and requested changes.
ReviewedBeforeStaged ==
  \A s \in Slices :
    state[s] \in {"staging", "testing", "ready_for_main", "done"} => reviewed[s]

\* No silent takeover: at most one attempt holds a lease on a slice, an expired
\* lease and one whose worker still runs included.
SingleHolder == \A s \in Slices : \A a, b \in HoldersOf(s) : a = b

\* An accepted event moves the slice from the state its writer had read: no
\* writer acts on a slice that moved on in between.
NoLostUpdate ==
  [][\A s \in Slices : state'[s] # state[s] =>
       \E w \in Writers :
         view[w].slice = s /\ view[w].seen = state[s] /\ view'[w] = NoView]_vars

\* While an attempt holds the lease of a slice only its own events move the
\* slice, an earlier holder's late event and an operator's included.
HolderDecides ==
  [][\A s \in Slices : \A a \in HoldersOf(s) : state'[s] # state[s] => author'[s] = a]_vars

\* A finished plan is about a slice that is still scheduled with its hard and
\* soft dependencies done, although the planner read them at different times.
PlannedIsReady ==
  [][\A p \in Planners :
       plan[p].stage # "planned" /\ plan'[p].stage = "planned" =>
         LET s == plan[p].slice IN
           /\ state[s] = "scheduled"
           /\ \A d \in HardDeps[s] \cup SoftDeps[s] : state[d] = "done"]_vars
=============================================================================
