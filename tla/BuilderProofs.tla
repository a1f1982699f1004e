----------------------------- MODULE BuilderProofs -----------------------------
(***************************************************************************)
(* Proofs about the builder's product queue and its context engine.        *)
(*                                                                         *)
(* BuilderQueue: for any blueprint (any slices and any dependencies        *)
(* between them) and any number of attempts, writers and planners.         *)
(*                                                                         *)
(* ContextEngine: for any tree of files, any tasks and any bounds.  Its    *)
(* folds and recursive tables are instances of RecursionTheorems.  The     *)
(* plan is compared with the components near the task, the package in      *)
(* progress is followed from the plan to its seal, and the supplement from *)
(* the request to the answer.                                              *)
(***************************************************************************)
EXTENDS BuilderQueue, ContextEngine, Integers, SequenceTheorems, FiniteSetTheorems, TLAPS

-----------------------------------------------------------------------------
(* The queue: the inductive invariant                                      *)

\* The strengthening of ReviewedBeforeStaged: from the review on.
ReviewedFromReview ==
  \A s \in Slices :
    state[s] \in {"reviewing", "staging", "testing", "ready_for_main", "done"} =>
      reviewed[s]

\* A view whose compare-and-swap would succeed shows the durable state: what
\* makes NoLostUpdate hold.
CurrentViewIsTrue ==
  \A w \in Writers : view[w].chain = "same" => view[w].seen = state[view[w].slice]

\* What a planner has established so far and cannot be undone behind its back:
\* completed dependencies, and the projection while it is current.
PlanEvidence ==
  \A p \in Planners :
    /\ plan[p].chain = "same" /\ plan[p].stage \in {"projected", "inspected", "receipts"} =>
         state[plan[p].slice] = "scheduled"
    /\ plan[p].stage = "receipts" =>
         \A d \in HardDeps[plan[p].slice] \cup SoftDeps[plan[p].slice] : state[d] = "done"

\* A lease row belongs to a created attempt (its foreign key).
LeaseHasAttempt == \A a \in Attempts : leases[a] # "none" => attempts[a] # NoSlice

\* The inductive invariant.
IndInv ==
  /\ TypeOK
  /\ LeaseHasAttempt
  /\ DependenciesComplete
  /\ ReviewedFromReview
  /\ SingleHolder
  /\ CurrentViewIsTrue
  /\ PlanEvidence

-----------------------------------------------------------------------------
(* Facts about the lifecycle table                                         *)

\* A done slice has no successor, and a state after review has one predecessor
\* that is reviewed already.
LEMMA Lifecycle ==
  ASSUME NEW x \in States \cup {"none"}, NEW y \in TRANSITIONS(x)
  PROVE  /\ x # "done"
         /\ y = "staging" => x = "reviewing"
         /\ y = "testing" => x = "staging"
         /\ y = "ready_for_main" => x = "testing"
         /\ y = "done" => x = "ready_for_main"
BY DEF TRANSITIONS, PRIMARY, States, SIDE

\* An accepted event changes its slice's state and nothing else of the table.
LEMMA EventEffect ==
  ASSUME IndInv, NEW w \in Writers, NEW s \in Slices, NEW next \in States,
         NEW a \in Attempts \cup {NoAttempt}, AppendEvent(w, s, next, a)
  PROVE  /\ state'[s] = next /\ next \in TRANSITIONS(state[s])
         /\ state[s] \in States \cup {"none"}
         /\ \A t \in Slices : t # s => state'[t] = state[t]
         /\ \A t \in Slices : state[t] = "done" => t # s /\ state'[t] = "done"
<1>1. state \in [Slices -> States \cup {"none"}]
  BY DEF IndInv, TypeOK
<1>2. state' = [state EXCEPT ![s] = next] /\ next \in TRANSITIONS(state[s])
  BY DEF AppendEvent
<1>3. state[s] # "done"
  BY <1>1, <1>2, Lifecycle
<1> QED BY <1>1, <1>2, <1>3

-----------------------------------------------------------------------------
(* Preservation, one lemma for the event and one step per other action     *)

\* An accepted event preserves the invariant (append_event).
LEMMA EventPreserves ==
  ASSUME IndInv, NEW w \in Writers, NEW s \in Slices, NEW next \in States,
         NEW a \in Attempts \cup {NoAttempt}, AppendEvent(w, s, next, a)
  PROVE  IndInv'
<1>1. TypeOK'
  <2>1. /\ state' \in [Slices -> States \cup {"none"}]
        /\ author' \in [Slices -> Attempts \cup {NoAttempt}]
        /\ attempts' = attempts /\ leases' = leases
    BY DEF IndInv, TypeOK, AppendEvent
  <2>2. reviewed' \in [Slices -> BOOLEAN]
    BY DEF IndInv, TypeOK, AppendEvent
  <2>3. view' \in [Writers -> Views \cup {NoView}]
    <3>1. Outdated(s) \in [Writers -> Views \cup {NoView}]
      <4> SUFFICES ASSUME NEW v \in Writers
                   PROVE  Outdated(s)[v] \in Views \cup {NoView}
        BY DEF Outdated
      <4>1. view[v] \in Views \cup {NoView}
        BY DEF IndInv, TypeOK
      <4>2. CASE view[v] \in Views
        BY <4>2 DEF Outdated, Views, Chain
      <4>3. CASE view[v] = NoView
        BY <4>3 DEF Outdated, NoView
      <4> QED BY <4>1, <4>2, <4>3
    <3> QED BY <3>1 DEF AppendEvent
  <2>4. plan' \in [Planners -> Plans \cup {NoPlan}]
    <3> SUFFICES ASSUME NEW p \in Planners
                 PROVE  [plan[p] EXCEPT !.chain = IF plan[p].slice = s THEN "moved" ELSE @]
                          \in Plans \cup {NoPlan}
      BY DEF AppendEvent
    <3>1. plan[p] \in Plans \cup {NoPlan}
      BY DEF IndInv, TypeOK
    <3>2. CASE plan[p] \in Plans
      BY <3>2 DEF Plans, Chain
    <3>3. CASE plan[p] = NoPlan
      BY <3>3 DEF NoPlan
    <3> QED BY <3>1, <3>2, <3>3
  <2> QED BY <2>1, <2>2, <2>3, <2>4 DEF IndInv, TypeOK
<1>2. DependenciesComplete'
  <2> SUFFICES ASSUME NEW t \in Slices, state'[t] \in ExecutionCapable,
                      NEW d \in HardDeps[t]
               PROVE  state'[d] = "done"
    BY DEF DependenciesComplete
  <2>1. d \in Slices
    BY DepsAssumption
  <2>2. state[d] = "done"
    <3>1. CASE t = s
      <4>1. next \in ExecutionCapable
        BY <3>1, EventEffect
      <4>2. DependenciesDone(s, next)
        BY DEF AppendEvent
      <4> QED BY <3>1, <4>1, <4>2 DEF DependenciesDone
    <3>2. CASE t # s
      BY <3>2, EventEffect DEF IndInv, DependenciesComplete
    <3> QED BY <3>1, <3>2
  <2> QED BY <2>1, <2>2, EventEffect
<1>3. ReviewedFromReview'
  <2> SUFFICES ASSUME NEW t \in Slices,
                      state'[t] \in {"reviewing", "staging", "testing",
                                     "ready_for_main", "done"}
               PROVE  reviewed'[t]
    BY DEF ReviewedFromReview
  <2>1. reviewed' = [reviewed EXCEPT ![s] = (@ /\ next # "building") \/ next = "reviewing"]
        /\ reviewed \in [Slices -> BOOLEAN]
    BY DEF AppendEvent, IndInv, TypeOK
  <2>2. CASE t # s
    BY <2>1, <2>2, EventEffect DEF IndInv, ReviewedFromReview
  <2>3. CASE t = s
    <3>1. state'[s] = next /\ next \in TRANSITIONS(state[s])
          /\ state[s] \in States \cup {"none"}
      BY EventEffect
    <3>2. CASE next = "reviewing"
      BY <2>1, <2>3, <3>2
    <3>3. CASE next # "reviewing"
      <4>1. state[s] \in {"reviewing", "staging", "testing", "ready_for_main"}
        BY <2>3, <3>1, <3>3, Lifecycle
      <4>2. reviewed[s]
        BY <4>1 DEF IndInv, ReviewedFromReview
      <4>3. next # "building"
        BY <2>3, <3>1
      <4> QED BY <2>1, <2>3, <4>2, <4>3
    <3> QED BY <3>2, <3>3
  <2> QED BY <2>2, <2>3
<1>4. LeaseHasAttempt' /\ SingleHolder'
  BY DEF AppendEvent, IndInv, LeaseHasAttempt, SingleHolder, HoldersOf, Held
<1>5. CurrentViewIsTrue'
  <2> SUFFICES ASSUME NEW v \in Writers, view'[v].chain = "same"
               PROVE  view'[v].seen = state'[view'[v].slice]
    BY DEF CurrentViewIsTrue
  <2>1. view' = [Outdated(s) EXCEPT ![w] = NoView]
    BY DEF AppendEvent
  <2>2. v # w
    BY <2>1 DEF Outdated, NoView
  <2>3. view'[v] = [view[v] EXCEPT !.chain = IF Shows(v, s) THEN "moved" ELSE @]
    BY <2>1, <2>2 DEF Outdated
  <2>4. view[v] \in Views
    <3>1. view[v] \in Views \cup {NoView}
      BY DEF IndInv, TypeOK
    <3>2. view[v] # NoView
      BY <2>3 DEF NoView
    <3> QED BY <3>1, <3>2
  <2>5. view[v].chain = "same" /\ view[v].slice # s /\ view[v].slice \in Slices
        /\ view'[v].seen = view[v].seen /\ view'[v].slice = view[v].slice
    BY <2>3, <2>4 DEF Views, Shows
  <2> QED BY <2>5, EventEffect DEF IndInv, CurrentViewIsTrue
<1>6. PlanEvidence'
  <2> SUFFICES ASSUME NEW p \in Planners
               PROVE  /\ plan'[p].chain = "same"
                         /\ plan'[p].stage \in {"projected", "inspected", "receipts"} =>
                           state'[plan'[p].slice] = "scheduled"
                      /\ plan'[p].stage = "receipts" =>
                           \A d \in HardDeps[plan'[p].slice] \cup SoftDeps[plan'[p].slice] :
                             state'[d] = "done"
    BY DEF PlanEvidence
  <2>1. plan'[p] = [plan[p] EXCEPT !.chain = IF plan[p].slice = s THEN "moved" ELSE @]
    BY DEF AppendEvent
  <2>2. plan[p] \in Plans \cup {NoPlan}
    BY DEF IndInv, TypeOK
  <2>3. CASE plan[p] = NoPlan
    BY <2>1, <2>3 DEF NoPlan
  <2>4. CASE plan[p] \in Plans
    <3>1. /\ plan'[p].slice = plan[p].slice /\ plan'[p].stage = plan[p].stage
          /\ plan'[p].chain = "same" => plan[p].chain = "same" /\ plan[p].slice # s
          /\ plan[p].slice \in Slices
      BY <2>1, <2>4 DEF Plans
    <3>2. \A d \in HardDeps[plan[p].slice] \cup SoftDeps[plan[p].slice] : d \in Slices
      BY <3>1, DepsAssumption
    <3> QED BY <3>1, <3>2, EventEffect DEF IndInv, PlanEvidence
  <2> QED BY <2>2, <2>3, <2>4
<1> QED BY <1>1, <1>2, <1>3, <1>4, <1>5, <1>6 DEF IndInv

\* Reading, leasing and planning leave the chains alone, so they leave alone what
\* the invariant says of states.
LEMMA QuietStep ==
  ASSUME IndInv, UNCHANGED <<state, reviewed>>
  PROVE  DependenciesComplete' /\ ReviewedFromReview'
BY DEF IndInv, DependenciesComplete, ReviewedFromReview

\* Reading a chain and giving up preserve it.
LEMMA WriterPreserves ==
  ASSUME IndInv, NEW w \in Writers,
         (\E s \in Slices : Read(w, s)) \/ Abandon(w)
  PROVE  IndInv'
<1>1. UNCHANGED <<state, attempts, leases, plan, author, reviewed>>
  BY DEF Read, Abandon
<1>2. PICK v \in Views \cup {NoView} :
        /\ view' = [view EXCEPT ![w] = v]
        /\ v.chain = "same" => v.seen = state[v.slice]
  <2>1. CASE \E s \in Slices : Read(w, s)
    <3>1. PICK s \in Slices : Read(w, s)
      BY <2>1
    <3> DEFINE v == [slice |-> s, seen |-> state[s], chain |-> "same"]
    <3>2. v \in Views /\ view' = [view EXCEPT ![w] = v] /\ v.seen = state[v.slice]
      BY <3>1 DEF Read, Views, Chain, IndInv, TypeOK
    <3> HIDE DEF v
    <3> QED BY <3>2
  <2>2. CASE Abandon(w)
    <3>1. NoView.chain # "same" /\ view' = [view EXCEPT ![w] = NoView]
      BY <2>2 DEF Abandon, NoView
    <3> QED BY <3>1
  <2> QED BY <2>1, <2>2
<1>3. TypeOK'
  BY <1>1, <1>2 DEF IndInv, TypeOK
<1>4. CurrentViewIsTrue'
  BY <1>1, <1>2 DEF IndInv, TypeOK, CurrentViewIsTrue
<1>5. LeaseHasAttempt' /\ SingleHolder' /\ PlanEvidence'
  BY <1>1 DEF IndInv, LeaseHasAttempt, SingleHolder, HoldersOf, Held, PlanEvidence
<1> QED BY <1>1, <1>3, <1>4, <1>5, QuietStep DEF IndInv

\* Attempts, leases, expiry, verdicts and releases preserve it (leases.py).
LEMMA LeasePreserves ==
  ASSUME IndInv, NEW a \in Attempts,
         \/ \E s \in Slices : CreateAttempt(a, s)
         \/ AcquireLease(a) \/ Expire(a) \/ ReleaseLease(a)
         \/ \E stopped \in BOOLEAN : ReconcileExpiredLease(a, stopped)
  PROVE  IndInv'
<1>1. UNCHANGED <<state, view, plan, author, reviewed>>
  BY DEF CreateAttempt, AcquireLease, Expire, ReleaseLease, ReconcileExpiredLease
<1>2. TypeOK'
  BY <1>1 DEF IndInv, TypeOK, LeaseStatuses, CreateAttempt, AcquireLease, Expire,
              ReleaseLease, ReconcileExpiredLease
<1>3. CurrentViewIsTrue' /\ PlanEvidence'
  BY <1>1 DEF IndInv, CurrentViewIsTrue, PlanEvidence
<1>4. SingleHolder'
  <2> USE DEF IndInv, TypeOK, SingleHolder, HoldersOf, Held
  <2>1. CASE \E s \in Slices : CreateAttempt(a, s)
    <3>1. PICK s \in Slices : CreateAttempt(a, s)
      BY <2>1
    <3>2. ~Held(a)
      BY <3>1 DEF CreateAttempt, LeaseHasAttempt
    <3> QED BY <3>1, <3>2 DEF CreateAttempt
  <2>2. CASE AcquireLease(a)
    BY <2>2 DEF AcquireLease, LeaseFree
  <2>3. CASE Expire(a)
    BY <2>3 DEF Expire
  <2>4. CASE ReleaseLease(a)
    BY <2>4 DEF ReleaseLease
  <2>5. CASE \E stopped \in BOOLEAN : ReconcileExpiredLease(a, stopped)
    BY <2>5 DEF ReconcileExpiredLease
  <2> QED BY <2>1, <2>2, <2>3, <2>4, <2>5
<1>5. LeaseHasAttempt'
  BY <1>1, SentinelsAssumption
     DEF IndInv, TypeOK, LeaseHasAttempt, Held, CreateAttempt, AcquireLease, Expire,
         ReleaseLease, ReconcileExpiredLease
<1> QED BY <1>1, <1>2, <1>3, <1>4, <1>5, QuietStep DEF IndInv

\* The five reads of a planner preserve it (worker_planning.py).
LEMMA PlannerPreserves ==
  ASSUME IndInv, NEW p \in Planners,
         \/ \E s \in Slices, a \in Attempts : ReadSources(p, s, a)
         \/ Project(p) \/ Inspect(p) \/ Receipts(p) \/ Finish(p) \/ LeavePlan(p)
  PROVE  IndInv'
<1>1. UNCHANGED <<state, attempts, leases, view, author, reviewed>>
  BY DEF ReadSources, Project, Inspect, Receipts, Finish, LeavePlan, Advance
<1>2. plan[p] \in Plans \cup {NoPlan} /\ plan \in [Planners -> Plans \cup {NoPlan}]
  BY DEF IndInv, TypeOK
<1>3. PICK q \in Plans \cup {NoPlan} :
        /\ plan' = [plan EXCEPT ![p] = q]
        /\ q.chain = "same" /\ q.stage \in {"projected", "inspected", "receipts"} =>
             state[q.slice] = "scheduled"
        /\ q.stage = "receipts" =>
             \A d \in HardDeps[q.slice] \cup SoftDeps[q.slice] : state[d] = "done"
  <2>1. CASE \E s \in Slices, a \in Attempts : ReadSources(p, s, a)
    <3>1. PICK s \in Slices, a \in Attempts : ReadSources(p, s, a)
      BY <2>1
    <3> DEFINE q == [slice |-> s, lease |-> a, stage |-> "sources", chain |-> "same"]
    <3>2. q \in Plans /\ plan' = [plan EXCEPT ![p] = q] /\ q.stage = "sources"
      BY <3>1 DEF ReadSources, Plans, Stages, Chain
    <3> HIDE DEF q
    <3> QED BY <3>2
  <2>2. CASE LeavePlan(p)
    <3>1. NoPlan.stage = "idle" /\ plan' = [plan EXCEPT ![p] = NoPlan]
      BY <2>2 DEF LeavePlan, NoPlan
    <3> QED BY <3>1
  <2>3. CASE Project(p) \/ Inspect(p) \/ Receipts(p) \/ Finish(p)
    <3>1. plan[p] \in Plans
      BY <1>2, <2>3 DEF Project, Inspect, Receipts, Finish, NoPlan
    <3> DEFINE q == plan'[p]
    <3>2. CASE Project(p)
      <4>1. /\ plan' = [plan EXCEPT ![p] = q] /\ q \in Plans /\ q.stage = "projected"
            /\ q.slice = plan[p].slice /\ state[plan[p].slice] = "scheduled"
        BY <1>2, <3>1, <3>2 DEF Project, Plans, Stages, Chain
      <4> HIDE DEF q
      <4> QED BY <4>1
    <3>3. CASE Inspect(p)
      <4>1. /\ plan' = [plan EXCEPT ![p] = q] /\ q \in Plans /\ q.stage = "inspected"
            /\ q.slice = plan[p].slice /\ q.chain = plan[p].chain
            /\ plan[p].stage = "projected"
        BY <1>2, <3>1, <3>3 DEF Inspect, Advance, Plans, Stages, Chain
      <4> HIDE DEF q
      <4> QED BY <4>1 DEF IndInv, PlanEvidence
    <3>4. CASE Receipts(p)
      <4>1. /\ plan' = [plan EXCEPT ![p] = q] /\ q \in Plans /\ q.stage = "receipts"
            /\ q.slice = plan[p].slice /\ q.chain = plan[p].chain
            /\ plan[p].stage = "inspected"
            /\ \A d \in HardDeps[plan[p].slice] \cup SoftDeps[plan[p].slice] :
                 state[d] = "done"
        BY <1>2, <3>1, <3>4 DEF Receipts, Advance, Plans, Stages, Chain
      <4> HIDE DEF q
      <4>2. q.chain = "same" => state[q.slice] = "scheduled"
        BY <4>1 DEF IndInv, PlanEvidence
      <4>3. \A d \in HardDeps[q.slice] \cup SoftDeps[q.slice] : state[d] = "done"
        BY <4>1
      <4> QED BY <4>1, <4>2, <4>3
    <3>5. CASE Finish(p)
      <4>1. plan' = [plan EXCEPT ![p] = q] /\ q \in Plans /\ q.stage = "planned"
        BY <1>2, <3>1, <3>5 DEF Finish, Advance, Plans, Stages, Chain
      <4> HIDE DEF q
      <4> QED BY <4>1
    <3> QED BY <2>3, <3>2, <3>3, <3>4, <3>5
  <2> QED BY <2>1, <2>2, <2>3
<1>4. TypeOK'
  BY <1>1, <1>3 DEF IndInv, TypeOK
<1>5. PlanEvidence'
  BY <1>1, <1>2, <1>3 DEF IndInv, PlanEvidence
<1>6. LeaseHasAttempt' /\ SingleHolder' /\ CurrentViewIsTrue'
  BY <1>1 DEF IndInv, LeaseHasAttempt, SingleHolder, HoldersOf, Held, CurrentViewIsTrue
<1> QED BY <1>1, <1>4, <1>5, <1>6, QuietStep DEF IndInv

-----------------------------------------------------------------------------
(* The theorems                                                            *)

\* The empty queue satisfies the invariant.
LEMMA InitInv == Init => IndInv
<1> SUFFICES ASSUME Init PROVE IndInv
  OBVIOUS
<1>1. TypeOK
  BY DEF Init, TypeOK, LeaseStatuses
<1>2. DependenciesComplete /\ ReviewedFromReview
  <2>1. "none" \notin ExecutionCapable
    BY DEF ExecutionCapable, PRIMARY
  <2> QED BY <2>1 DEF Init, DependenciesComplete, ReviewedFromReview
<1>3. LeaseHasAttempt /\ SingleHolder
  BY DEF Init, LeaseHasAttempt, SingleHolder, HoldersOf, Held
<1>4. CurrentViewIsTrue /\ PlanEvidence
  BY DEF Init, CurrentViewIsTrue, PlanEvidence, NoView, NoPlan
<1> QED BY <1>1, <1>2, <1>3, <1>4 DEF IndInv

\* Every step preserves the invariant.
LEMMA NextInv == IndInv /\ [Next]_vars => IndInv'
<1> SUFFICES ASSUME IndInv, [Next]_vars PROVE IndInv'
  OBVIOUS
<1>1. CASE UNCHANGED vars
  BY <1>1 DEF vars, IndInv, TypeOK, LeaseHasAttempt, DependenciesComplete,
              ReviewedFromReview, SingleHolder, HoldersOf, Held, CurrentViewIsTrue,
              PlanEvidence
<1>2. CASE Next
  BY <1>2, EventPreserves, WriterPreserves, LeasePreserves, PlannerPreserves DEF Next
<1> QED BY <1>1, <1>2

\* The inductive invariant holds in every reachable state.
THEOREM QueueInvariance == Spec => []IndInv
BY InitInv, NextInv, PTL DEF Spec

\* A slice in an execution-capable state has every hard dependency done, for
\* every dependency relation and every route through the lifecycle.
THEOREM DependenciesFirst == Spec => []DependenciesComplete
BY QueueInvariance, PTL DEF IndInv

\* Nothing is staged, tested or done without a review after its last build.
THEOREM ReviewFirst == Spec => []ReviewedBeforeStaged
<1>1. IndInv => ReviewedBeforeStaged
  BY DEF IndInv, ReviewedFromReview, ReviewedBeforeStaged
<1> QED BY <1>1, QueueInvariance, PTL

\* At most one attempt holds a slice, expired and needs-human leases included.
THEOREM NoTakeover == Spec => []SingleHolder
BY QueueInvariance, PTL DEF IndInv

\* Every variable keeps its type.
THEOREM QueueTypes == Spec => []TypeOK
BY QueueInvariance, PTL DEF IndInv

\* The only steps that change a slice's state are accepted events.
LEMMA OnlyEventsMove ==
  ASSUME [Next]_vars, NEW s \in Slices, state'[s] # state[s], IndInv
  PROVE  \E w \in Writers, next \in States, a \in Attempts \cup {NoAttempt} :
           AppendEvent(w, s, next, a)
<1>1. PICK t \in Slices, w \in Writers, next \in States, a \in Attempts \cup {NoAttempt} :
        AppendEvent(w, t, next, a)
  BY DEF Next, vars, Read, Abandon, CreateAttempt, AcquireLease, Expire, ReleaseLease,
         ReconcileExpiredLease, ReadSources, Project, Inspect, Receipts, Finish,
         LeavePlan
<1>2. t = s
  BY <1>1 DEF AppendEvent, IndInv, TypeOK
<1> QED BY <1>1, <1>2

\* An accepted event moves the slice from the state its writer had read.
THEOREM CompareAndSwapWorks == Spec => NoLostUpdate
<1>1. ASSUME IndInv, [Next]_vars
      PROVE  \A s \in Slices : state'[s] # state[s] =>
               \E w \in Writers :
                 view[w].slice = s /\ view[w].seen = state[s] /\ view'[w] = NoView
  <2> SUFFICES ASSUME NEW s \in Slices, state'[s] # state[s]
               PROVE  \E w \in Writers :
                        view[w].slice = s /\ view[w].seen = state[s] /\ view'[w] = NoView
    OBVIOUS
  <2>1. PICK w \in Writers, next \in States, a \in Attempts \cup {NoAttempt} :
          AppendEvent(w, s, next, a)
    BY <1>1, OnlyEventsMove
  <2>2. view[w].slice = s /\ view[w].chain = "same"
    BY <2>1 DEF AppendEvent, CompareAndSwap
  <2>3. view[w].seen = state[s]
    BY <1>1, <2>2 DEF IndInv, CurrentViewIsTrue
  <2>4. view'[w] = NoView
    BY <2>1 DEF AppendEvent, Outdated
  <2> QED BY <2>2, <2>3, <2>4
<1> QED BY <1>1, QueueInvariance, PTL DEF Spec, NoLostUpdate

\* While an attempt holds the lease of a slice only its own events move it.
THEOREM HoldersDecide == Spec => HolderDecides
<1>1. ASSUME IndInv, [Next]_vars
      PROVE  \A s \in Slices : \A a \in HoldersOf(s) :
               state'[s] # state[s] => author'[s] = a
  <2> SUFFICES ASSUME NEW s \in Slices, NEW a \in HoldersOf(s), state'[s] # state[s]
               PROVE  author'[s] = a
    OBVIOUS
  <2>1. PICK w \in Writers, next \in States, b \in Attempts \cup {NoAttempt} :
          AppendEvent(w, s, next, b)
    BY <1>1, OnlyEventsMove
  <2> QED BY <1>1, <2>1 DEF AppendEvent, AttemptMaySpeak, IndInv, TypeOK
<1> QED BY <1>1, QueueInvariance, PTL DEF Spec, HolderDecides

\* A finished plan is about a slice that is still scheduled and ready.
THEOREM PlansAreReady == Spec => PlannedIsReady
<1>1. ASSUME IndInv, [Next]_vars
      PROVE  \A p \in Planners :
               plan[p].stage # "planned" /\ plan'[p].stage = "planned" =>
                 LET s == plan[p].slice IN
                   /\ state[s] = "scheduled"
                   /\ \A d \in HardDeps[s] \cup SoftDeps[s] : state[d] = "done"
  <2> SUFFICES ASSUME NEW p \in Planners, plan[p].stage # "planned",
                      plan'[p].stage = "planned"
               PROVE  /\ state[plan[p].slice] = "scheduled"
                      /\ \A d \in HardDeps[plan[p].slice] \cup SoftDeps[plan[p].slice] :
                           state[d] = "done"
    OBVIOUS
  <2>1. plan[p].stage = "receipts" /\ plan[p].chain = "same"
    <3>1. plan \in [Planners -> Plans \cup {NoPlan}]
      BY <1>1 DEF IndInv, TypeOK
    <3>2. plan' # plan
      OBVIOUS
    <3>3. CASE \E w \in Writers, s \in Slices, next \in States,
                  a \in Attempts \cup {NoAttempt} : AppendEvent(w, s, next, a)
      <4>1. PICK s \in Slices :
              plan'[p] = [plan[p] EXCEPT !.chain = IF plan[p].slice = s THEN "moved" ELSE @]
        BY <3>3 DEF AppendEvent
      <4>2. plan'[p].stage = plan[p].stage
        BY <3>1, <4>1 DEF Plans, NoPlan
      <4> QED BY <4>2
    <3>4. CASE \E r \in Planners :
                 \/ \E s \in Slices, a \in Attempts : ReadSources(r, s, a)
                 \/ Project(r) \/ Inspect(r) \/ Receipts(r) \/ Finish(r) \/ LeavePlan(r)
      <4>1. PICK r \in Planners :
                 \/ \E s \in Slices, a \in Attempts : ReadSources(r, s, a)
                 \/ Project(r) \/ Inspect(r) \/ Receipts(r) \/ Finish(r) \/ LeavePlan(r)
        BY <3>4
      <4>2. r = p
        BY <3>1, <4>1 DEF ReadSources, Project, Inspect, Receipts, Finish, LeavePlan,
                          Advance
      <4>3. plan[p] \in Plans \cup {NoPlan}
        BY <3>1
      <4>4. Finish(p)
        BY <3>1, <4>1, <4>2, <4>3 DEF ReadSources, Project, Inspect, Receipts, LeavePlan,
                                     Advance, Plans, NoPlan
      <4> QED BY <4>4 DEF Finish, UnchangedSinceProjection
    <3> QED
      BY <1>1, <3>2, <3>3, <3>4
         DEF Next, vars, Read, Abandon, CreateAttempt, AcquireLease, Expire, ReleaseLease,
             ReconcileExpiredLease
  <2> QED BY <1>1, <2>1 DEF IndInv, PlanEvidence
<1> QED BY <1>1, QueueInvariance, PTL DEF Spec, PlannedIsReady

-----------------------------------------------------------------------------
(* The context engine: sequences without repetitions.                      *)

\* No element comes twice.
Distinct(s) == \A i, j \in DOMAIN s : s[i] = s[j] => i = j

\* What a sequence has after one more element.
LEMMA AppendedSet ==
  ASSUME NEW T, NEW s \in Seq(T), NEW x \in T
  PROVE  ToSet(Append(s, x)) = ToSet(s) \cup {x}
<1>1. DOMAIN s = 1..Len(s) /\ Len(s) \in Nat /\ DOMAIN Append(s, x) = 1..(Len(s) + 1)
  BY AppendProperties
<1>2. Append(s, x)[Len(s) + 1] = x /\ \A i \in 1..Len(s) : Append(s, x)[i] = s[i]
  BY AppendProperties
<1>3. Len(s) + 1 \in 1..(Len(s) + 1) /\ \A i \in 1..(Len(s) + 1) : i \in 1..Len(s) \/ i = Len(s) + 1
  BY <1>1
<1>4. \A i \in 1..Len(s) : i \in 1..(Len(s) + 1)
  BY <1>1
<1> QED BY <1>1, <1>2, <1>3, <1>4 DEF ToSet

\* A new element repeats nothing.
LEMMA AppendedDistinct ==
  ASSUME NEW T, NEW s \in Seq(T), NEW x \in T, Distinct(s), x \notin ToSet(s)
  PROVE  Distinct(Append(s, x))
<1>1. DOMAIN s = 1..Len(s) /\ Len(s) \in Nat /\ DOMAIN Append(s, x) = 1..(Len(s) + 1)
  BY AppendProperties
<1>2. Append(s, x)[Len(s) + 1] = x /\ \A i \in 1..Len(s) : Append(s, x)[i] = s[i]
  BY AppendProperties
<1>3. \A i \in 1..(Len(s) + 1) : i \in 1..Len(s) \/ i = Len(s) + 1
  BY <1>1
<1>4. \A i \in 1..Len(s) : s[i] # x
  BY <1>1 DEF ToSet
<1> QED BY <1>1, <1>2, <1>3, <1>4 DEF Distinct

\* A sequence without repetitions is as long as it has elements.
LEMMA DistinctLength ==
  ASSUME NEW T, NEW s \in Seq(T), Distinct(s)
  PROVE  IsFiniteSet(ToSet(s)) /\ Cardinality(ToSet(s)) = Len(s)
<1>1. Len(s) \in Nat /\ DOMAIN s = 1..Len(s)
  OBVIOUS
<1>2. s \in [1..Len(s) -> ToSet(s)]
  BY DEF ToSet
<1>3. s \in Bijection(1..Len(s), ToSet(s))
  BY <1>1, <1>2 DEF Bijection, Injection, Surjection, IsInjective, Distinct, ToSet
<1>4. IsFiniteSet(1..Len(s)) /\ Cardinality(1..Len(s)) = Len(s)
  <2> DEFINE n == Len(s)
  <2>1. n \in Int
    BY <1>1
  <2> HIDE DEF n
  <2>2. IsFiniteSet(1..n) /\ Cardinality(1..n) = IF 1 > n THEN 0 ELSE n - 1 + 1
    BY <2>1, FS_Interval
  <2>3. n \in Nat
    BY <1>1 DEF n
  <2>4. IsFiniteSet(1..n) /\ Cardinality(1..n) = n
    BY <2>2, <2>3
  <2> QED BY <2>4 DEF n
<1>5. ExistsBijection(1..Len(s), ToSet(s))
  BY <1>3 DEF ExistsBijection
<1> QED BY <1>4, <1>5, FS_Bijection

\* A sequence has finitely many elements.
LEMMA SeqIsFinite ==
  ASSUME NEW T, NEW s \in Seq(T)
  PROVE  IsFiniteSet(ToSet(s))
<1>1. Len(s) \in Nat /\ DOMAIN s = 1..Len(s)
  OBVIOUS
<1>2. IsFiniteSet(1..Len(s))
  BY <1>1, FS_Interval
<1>3. s \in [1..Len(s) -> ToSet(s)]
  BY DEF ToSet
<1>4. s \in Surjection(1..Len(s), ToSet(s))
  BY <1>1, <1>3 DEF Surjection, ToSet
<1> QED BY <1>2, <1>4, FS_Surjection

-----------------------------------------------------------------------------
(* The elements of a sequence that are in a set.                           *)

\* One element of Chosen.
ChosenNext(S, x, kept) == IF x \in S THEN Append(kept, x) ELSE kept

\* Chosen as a fold.
Chosens == INSTANCE RecursionTheorems WITH Value <- ChosenNext

\* Chosen adds one element after the other.
LEMMA ChosenIsFold ==
  ASSUME NEW s, NEW S
  PROVE  Chosen(s, S) = Chosens!Fold(S, << >>, s)
BY Zenon DEF Chosen, FoldLeft, MapThenFoldSet, Max, ChosenNext,
             Chosens!Fold, Chosens!FoldFrom, Chosens!Greatest

\* Chosen keeps the elements that are in the set, once each if they were once there.
LEMMA ChosenElements ==
  ASSUME NEW T, NEW s \in Seq(T), NEW S
  PROVE  /\ Chosen(s, S) \in Seq(T)
         /\ ToSet(Chosen(s, S)) = ToSet(s) \cap S
         /\ Distinct(s) => Distinct(Chosen(s, S))
<1> DEFINE upTo(k) == {s[i] : i \in 1..k}
           Good(k) == {q \in Seq(T) : ToSet(q) = upTo(k) \cap S /\ (Distinct(s) => Distinct(q))}
           sets == [k \in 0..Len(s) |-> Good(k)]
<1>1. Len(s) \in Nat /\ DOMAIN s = 1..Len(s)
  OBVIOUS
<1>2. << >> \in sets[0]
  <2>1. << >> \in Seq(T) /\ ToSet(<< >>) = {} /\ Distinct(<< >>) /\ upTo(0) = {} /\ 0 \in 0..Len(s)
    BY <1>1 DEF ToSet, Distinct
  <2> HIDE DEF upTo
  <2> QED BY <2>1
<1>3. ASSUME NEW k \in 1..Len(s), NEW q \in sets[k - 1] PROVE ChosenNext(S, s[k], q) \in sets[k]
  <2>1. k \in 0..Len(s) /\ k - 1 \in 0..Len(s) /\ k \in Nat /\ s[k] \in T
    BY <1>1, ElementOfSeq
  <2>2. q \in Seq(T) /\ ToSet(q) = upTo(k - 1) \cap S /\ (Distinct(s) => Distinct(q))
    BY <2>1
  <2>3. upTo(k) = upTo(k - 1) \cup {s[k]}
    BY <2>1
  <2>4. CASE s[k] \in S
    <3>1. Append(q, s[k]) \in Seq(T) /\ ToSet(Append(q, s[k])) = upTo(k) \cap S
      <4> HIDE DEF upTo
      <4>1. ToSet(Append(q, s[k])) = ToSet(q) \cup {s[k]}
        BY <2>1, <2>2, AppendedSet
      <4>2. Append(q, s[k]) \in Seq(T)
        BY <2>1, <2>2
      <4> QED BY <2>2, <2>3, <2>4, <4>1, <4>2
    <3>2. ASSUME Distinct(s) PROVE Distinct(Append(q, s[k]))
      <4>1. s[k] \notin upTo(k - 1)
        <5>1. \A i \in 1..(k - 1) : i \in 1..Len(s) /\ i # k
          BY <1>1, <2>1
        <5> QED BY <1>1, <3>2, <5>1 DEF Distinct
      <4> HIDE DEF upTo
      <4> QED BY <2>1, <2>2, <3>2, <4>1, AppendedDistinct
    <3> HIDE DEF upTo
    <3> QED BY <2>1, <2>4, <3>1, <3>2 DEF ChosenNext
  <2>5. CASE s[k] \notin S
    <3> HIDE DEF upTo
    <3> QED BY <2>1, <2>2, <2>3, <2>5 DEF ChosenNext
  <2> QED BY <2>4, <2>5
<1>4. Chosens!Keeps(sets, S, << >>, s)
  <2> HIDE DEF sets
  <2> QED BY <1>2, <1>3 DEF Chosens!Keeps
<1>5. Chosen(s, S) \in sets[Len(s)]
  <2> HIDE DEF sets
  <2>1. Chosens!Fold(S, << >>, s) \in sets[Len(s)]
    BY <1>4, Chosens!FoldKeeps
  <2> QED BY <2>1, ChosenIsFold
<1>6. upTo(Len(s)) = ToSet(s)
  BY <1>1 DEF ToSet
<1> HIDE DEF upTo
<1> QED BY <1>1, <1>5, <1>6

-----------------------------------------------------------------------------
(* The sizes of lines and of parts.                                        *)

\* One line of Bytes.
LineNext(c, size, sum) == sum + size

\* Bytes as a fold.
Lines == INSTANCE RecursionTheorems WITH Value <- LineNext

\* Bytes adds the size of one line after the other.
LEMMA BytesIsFold ==
  ASSUME NEW content, NEW n
  PROVE  Bytes(content, n) = Lines!Fold(0, 0, SubSeq(LineSizes[content], 1, n))
BY Zenon DEF Bytes, FoldLeft, MapThenFoldSet, Max, LineNext,
             Lines!Fold, Lines!FoldFrom, Lines!Greatest

\* The bytes of some lines are a number.
LEMMA BytesType ==
  ASSUME NEW content \in Contents \ NoText, NEW n \in 0..Len(LineSizes[content])
  PROVE  Bytes(content, n) \in Nat
<1> DEFINE s == SubSeq(LineSizes[content], 1, n)
           sets == [k \in 0..Len(s) |-> Nat]
<1>1. LineSizes[content] \in Seq(Nat)
  BY SizesAssumption
<1>2. s \in Seq(Nat) /\ Len(s) \in Nat
  BY <1>1, SubSeqProperties
<1>3. ASSUME NEW k \in 1..Len(s), NEW v \in sets[k - 1] PROVE LineNext(0, s[k], v) \in sets[k]
  <2> HIDE DEF s
  <2>1. k \in 0..Len(s) /\ k - 1 \in 0..Len(s)
    BY <1>2
  <2>2. s[k] \in Nat /\ v \in Nat
    BY <1>2, <2>1
  <2> QED BY <2>1, <2>2 DEF LineNext
<1>4. 0 \in sets[0]
  BY <1>2
<1> HIDE DEF sets, s
<1>5. Lines!Keeps(sets, 0, 0, s)
  BY <1>3, <1>4 DEF Lines!Keeps
<1>6. Lines!Fold(0, 0, s) \in sets[Len(s)]
  BY <1>2, <1>5, Lines!FoldKeeps
<1>7. sets[Len(s)] = Nat
  BY <1>2 DEF sets
<1> QED BY <1>6, <1>7, BytesIsFold DEF s

\* No lines have no bytes.
LEMMA NoBytes ==
  ASSUME NEW content
  PROVE  Bytes(content, 0) = 0
<1>1. SubSeq(LineSizes[content], 1, 0) = << >>
  OBVIOUS
<1> QED BY <1>1, BytesIsFold, Lines!FoldNothing

\* The lines shown of a file fit the budget.
LEMMA LinesFit ==
  ASSUME NEW content \in Contents \ NoText, NEW region \in Nat, NEW budget \in Nat
  PROVE  /\ Bytes(content, LinesShown(content, region, budget)) \in Nat
         /\ Bytes(content, LinesShown(content, region, budget)) <= budget
<1> DEFINE most == Min({region, Len(LineSizes[content])})
           fit == {n \in 0..most : Bytes(content, n) <= budget}
<1>1. Len(LineSizes[content]) \in Nat
  BY SizesAssumption
<1>2. most \in 0..Len(LineSizes[content])
  <2> DEFINE len == Len(LineSizes[content])
             Least(x) == \A y \in {region, len} : x =< y
  <2>1. \E x \in {region, len} : Least(x)
    BY <1>1
  <2>2. most \in {region, len} /\ Least(most)
    <3> HIDE DEF Least
    <3>1. (CHOOSE x \in {region, len} : Least(x)) \in {region, len}
          /\ Least(CHOOSE x \in {region, len} : Least(x))
      BY <2>1, Zenon
    <3> QED BY <3>1, Zenon DEF Min, Least
  <2> QED BY <1>1, <2>2
<1>3. fit \subseteq 0..most /\ most \in Nat
  BY <1>1, <1>2
<1>4. 0 \in fit
  BY <1>3, NoBytes
<1> HIDE DEF fit, most
<1>5. Lines!Greatest(fit) \in fit
  BY <1>3, <1>4, Lines!GreatestNumber
<1>6. LinesShown(content, region, budget) = Lines!Greatest(fit)
  BY Zenon DEF LinesShown, Lines!Greatest, Max, fit, most
<1> DEFINE shown == LinesShown(content, region, budget)
<1>7. shown \in 0..most /\ Bytes(content, shown) <= budget
  BY <1>5, <1>6 DEF fit
<1> HIDE DEF shown
<1>8. shown \in 0..Len(LineSizes[content])
  BY <1>1, <1>2, <1>3, <1>7
<1>9. Bytes(content, shown) \in Nat
  BY <1>8, BytesType
<1> QED BY <1>7, <1>9 DEF shown

-----------------------------------------------------------------------------
(* The parts of a package.                                                 *)

\* Why a part of a package shows nothing.
Reasons == {"none", "secret", "unavailable", "non_python", "parse_failure"}

\* What a part of a package is.
Parts == [path : PathSet, available : BOOLEAN, why : Reasons, of : Contents \cup {Nothing}, size : Nat]

\* What the tree is.
Files == [PathSet -> Contents \cup {Gone, Link}]

\* A part that shows no secret.
Safe(e) == e.available => e.of \notin Secret /\ e.path \notin SecretPaths

\* What an excerpt is (extract_excerpt): of the file asked for, within its budget,
\* and without a secret.
LEMMA ExcerptIsSafe ==
  ASSUME tree \in Files, NEW path \in PathSet, NEW region \in Nat, NEW budget \in Nat
  PROVE  LET e == Excerpt(path, region, budget)
         IN  e \in Parts /\ e.path = path /\ e.size <= 1 + budget /\ Safe(e)
<1> DEFINE found == tree[path]
<1>1. \A why \in Reasons : Unavailable(path, why) \in Parts /\ Unavailable(path, why).path = path
                          /\ Unavailable(path, why).size <= 1 + budget /\ Safe(Unavailable(path, why))
  BY DEF Unavailable, Parts, Safe
<1>2. CASE path \in SecretPaths \/ path \in RejectedPaths \/ found \in {Gone, Link} \cup NoText
           \/ found \in Secret
  <2>1. \E why \in Reasons : Excerpt(path, region, budget) = Unavailable(path, why)
    <3>1. Excerpt(path, region, budget) \in {Unavailable(path, "secret"), Unavailable(path, "unavailable")}
      BY <1>2 DEF Excerpt
    <3> QED BY <3>1 DEF Reasons
  <2> QED BY <1>1, <2>1
<1>3. CASE ~(path \in SecretPaths \/ path \in RejectedPaths \/ found \in {Gone, Link} \cup NoText
           \/ found \in Secret)
  <2>1. found \in Contents \ NoText
    BY <1>3 DEF Files
  <2> DEFINE size == Bytes(found, LinesShown(found, region, budget))
  <2>2. size \in Nat /\ size <= budget
    BY <2>1, LinesFit
  <2>3. Excerpt(path, region, budget)
          = [path |-> path, available |-> TRUE, why |-> "none", of |-> found, size |-> 1 + size]
    BY <1>3 DEF Excerpt
  <2> HIDE DEF size
  <2>4. [path |-> path, available |-> TRUE, why |-> "none", of |-> found, size |-> 1 + size] \in Parts
    <3>1. 1 + size \in Nat /\ found \in Contents \cup {Nothing}
      BY <2>1, <2>2
    <3> HIDE DEF found
    <3> QED BY ONLY <3>1, path \in PathSet DEF Parts, Reasons
  <2> QED BY <1>3, <2>2, <2>3, <2>4 DEF Safe
<1> QED BY <1>2, <1>3

\* What is described of it (enrich_interface_summary) is no secret either.
LEMMA DescribedIsSafe ==
  ASSUME tree \in Files, NEW first \in Parts, Safe(first)
  PROVE  LET e == Described(first)
         IN  e \in Parts /\ e.path = first.path /\ Safe(e)
<1> DEFINE found == tree[first.path]
           source == IF found \in {Gone, Link} \cup NoText THEN first.of ELSE found
           e == Described(first)
<1>1. first.path \in PathSet /\ source \in Contents \cup {Nothing}
  BY DEF Files, Parts
<1>2. \A why \in Reasons : Unavailable(first.path, why) \in Parts
          /\ Unavailable(first.path, why).path = first.path /\ Safe(Unavailable(first.path, why))
  BY <1>1 DEF Unavailable, Parts, Safe
<1>3. CASE ~first.available
  BY <1>3 DEF Described
<1>4. CASE first.available
           /\ (~IsPython(first.path) \/ source \in Secret \/ source \in Unparsable)
  <2>1. Described(first) \in {Unavailable(first.path, "non_python"), Unavailable(first.path, "secret"),
                              Unavailable(first.path, "parse_failure")}
    BY <1>4 DEF Described
  <2> QED BY <1>2, <2>1 DEF Reasons
<1>5. CASE first.available
           /\ ~(~IsPython(first.path) \/ source \in Secret \/ source \in Unparsable)
  <2>1. e = [first EXCEPT !.of = source, !.size = 1]
    BY <1>5 DEF Described
  <2> HIDE DEF e, source
  <2>2. e \in Parts /\ e.path = first.path /\ e.of = source
    BY <1>1, <2>1 DEF Parts
  <2>3. source \notin Secret /\ first.path \notin SecretPaths
    BY <1>5 DEF Safe
  <2> QED BY <2>2, <2>3 DEF Safe, e
<1> QED BY <1>3, <1>4, <1>5

\* One part of SizeOf.
PartNext(c, part, sum) == sum + part.size

\* SizeOf as a fold.
Sizes == INSTANCE RecursionTheorems WITH Value <- PartNext

\* SizeOf adds the size of one part after the other.
LEMMA SizeIsFold ==
  ASSUME NEW parts
  PROVE  SizeOf(parts) = Sizes!Fold(0, 0, parts)
BY Zenon DEF SizeOf, FoldLeft, MapThenFoldSet, Max, PartNext,
             Sizes!Fold, Sizes!FoldFrom, Sizes!Greatest

\* One more part adds its size.
LEMMA SizeOfAppended ==
  ASSUME NEW parts \in Seq(Parts), NEW e \in Parts
  PROVE  SizeOf(Append(parts, e)) = SizeOf(parts) + e.size
<1>1. Sizes!Fold(0, 0, Append(parts, e)) = PartNext(0, e, Sizes!Fold(0, 0, parts))
  BY Sizes!FoldAppended
<1> QED BY <1>1, SizeIsFold DEF PartNext

\* No parts have no size.
LEMMA SizeOfNothing == SizeOf(<< >>) = 0
BY SizeIsFold, Sizes!FoldNothing

\* The size of parts is a number.
LEMMA SizeType ==
  ASSUME NEW parts \in Seq(Parts)
  PROVE  SizeOf(parts) \in Nat
<1> DEFINE sets == [k \in 0..Len(parts) |-> Nat]
<1>1. Len(parts) \in Nat
  OBVIOUS
<1>2. ASSUME NEW k \in 1..Len(parts), NEW v \in sets[k - 1] PROVE PartNext(0, parts[k], v) \in sets[k]
  <2>1. k \in 0..Len(parts) /\ k - 1 \in 0..Len(parts)
    BY <1>1
  <2>2. parts[k] \in Parts
    BY ElementOfSeq
  <2>3. parts[k].size \in Nat /\ v \in Nat
    BY <2>1, <2>2 DEF Parts
  <2> QED BY <2>1, <2>3 DEF PartNext
<1>3. 0 \in sets[0] /\ sets[Len(parts)] = Nat
  BY <1>1
<1> HIDE DEF sets
<1>4. Sizes!Keeps(sets, 0, 0, parts)
  BY <1>2, <1>3 DEF Sizes!Keeps
<1>5. Sizes!Fold(0, 0, parts) \in sets[Len(parts)]
  BY <1>4, Sizes!FoldKeeps
<1> QED BY <1>3, <1>5, SizeIsFold

-----------------------------------------------------------------------------
(* The system model.                                                       *)

\* The components a file may belong to.
Components == ToSet(ComponentOrder)

\* The files of a model are files of the tree, and its edges lead between
\* components or to nothing.
IsModel(m) ==
  /\ DOMAIN m = {"base", "files", "edges", "doubts"}
  /\ DOMAIN m.files \subseteq PathSet
  /\ \A e \in m.edges : e.source \in Components /\ e.target \in Components \cup {NoComponent}

\* A new model is one.
LEMMA NewModelIsModel ==
  ASSUME NEW base
  PROVE  IsModel(NewModel(base))
<1>1. DOMAIN << >> = {}
  OBVIOUS
<1>2. DOMAIN NewModel(base) = {"base", "files", "edges", "doubts"}
  BY DEF NewModel
<1>3. NewModel(base).files = << >> /\ NewModel(base).edges = {}
  BY DEF NewModel
<1> QED BY <1>1, <1>2, <1>3 DEF IsModel

\* A model with one more file is one (build_repository_inventory).
LEMMA InventoriedIsModel ==
  ASSUME NEW m, IsModel(m), NEW path \in PathSet, NEW found
  PROVE  IsModel(Inventoried(m, path, found))
<1> DEFINE more == [p \in DOMAIN m.files \cup {path} |-> IF p = path THEN found ELSE m.files[p]]
           n == [m EXCEPT !.files = more]
<1>1. DOMAIN more \subseteq PathSet
  BY DEF IsModel
<1> HIDE DEF more
<1>2. DOMAIN n = DOMAIN m /\ n.files = more /\ n.edges = m.edges
  BY DEF IsModel
<1>3. IsModel(n)
  <2> HIDE DEF n
  <2> QED BY <1>1, <1>2 DEF IsModel
<1>4. Inventoried(m, path, found) \in {m, n}
  BY DEF Inventoried, more
<1> HIDE DEF n
<1> QED BY <1>3, <1>4

\* The files that have an owner are files of the tree, and the owners are components.
LEMMA OwnersAreComponents ==
  ASSUME NEW m, IsModel(m)
  PROVE  OwnedFiles(m) \subseteq PathSet /\ ComponentIds(m) \subseteq Components
<1>1. OwnedFiles(m) \subseteq PathSet
  BY DEF OwnedFiles, IsModel
<1> QED BY <1>1, ComponentsAssumption DEF ComponentIds, Components

\* An import is resolved to a component, or to nothing.
LEMMA ResolvedTarget ==
  ASSUME NEW name \in Seq(STRING), NEW ids
  PROVE  ResolveImport(name, ids).target \in ids \cup {NoComponent}
<1> DEFINE matches == {n \in 1..Len(name) : SubSeq(name, 1, n) \in ids}
           Longest(n) == \A k \in matches : k <= n
           best == CHOOSE n \in matches : Longest(n)
<1>1. CASE name[1] \notin InternalRoots
  BY <1>1, Zenon DEF ResolveImport
<1>2. CASE name[1] \in InternalRoots /\ matches = {}
  BY <1>2, Zenon DEF ResolveImport
<1>3. CASE name[1] \in InternalRoots /\ matches # {}
  <2>1. best \in matches
    <3>1. Len(name) \in Nat /\ matches \subseteq 0..Len(name)
      OBVIOUS
    <3> HIDE DEF matches
    <3>2. Lines!Greatest(matches) \in matches /\ \A y \in matches : Lines!Greatest(matches) >= y
      BY <1>3, <3>1, Lines!GreatestNumber
    <3>3. Longest(Lines!Greatest(matches))
      <4>1. matches \subseteq Int
        BY <3>1
      <4> QED BY <3>2, <4>1
    <3> HIDE DEF Longest
    <3> QED BY <3>2, <3>3, Zenon
  <2>2. ResolveImport(name, ids) = [kind |-> "internal_import", target |-> SubSeq(name, 1, best)]
    BY <1>3, Zenon DEF ResolveImport
  <2> HIDE DEF best
  <2>3. SubSeq(name, 1, best) \in ids
    BY <2>1
  <2> QED BY <2>2, <2>3
<1> QED BY <1>1, <1>2, <1>3

\* A model with the imports of one more file is one (_build_dependency_edges).
LEMMA ScannedIsModel ==
  ASSUME NEW m, IsModel(m), NEW path \in PathSet, NEW found \in Contents \cup {Gone, Link}
  PROVE  IsModel(Scanned(m, path, found))
<1> DEFINE resolved(name) ==
             IF name[1] = "." THEN RelativeImport(name) ELSE ResolveImport(name, ComponentIds(m))
           edge(name) ==
             [source |-> ComponentOf(path), target |-> resolved(name).target,
              kind |-> resolved(name).kind, path |-> path, name |-> name]
           names == Imports[found]
           unclear == {n \in names : resolved(n).kind \in {"unresolved_import", "ambiguous_import"}}
           edges == {edge(n) : n \in {k \in names : resolved(k).target # ComponentOf(path)}}
           doubts == {Doubt(resolved(n).kind, path \o n) : n \in unclear}
           result == Scanned(m, path, found)
<1>1. ASSUME NEW more PROVE IsModel([m EXCEPT !.doubts = @ \cup more])
  BY DEF IsModel
<1>2. CASE found \in {Gone, Link}
  <2>1. result = [m EXCEPT !.doubts = @ \cup {Doubt("skipped_non_regular", path)}]
    BY <1>2, Zenon DEF Scanned
  <2> HIDE DEF result
  <2>2. IsModel(result)
    BY <1>1, <2>1
  <2> QED BY <2>2 DEF result
<1>3. CASE found \notin {Gone, Link} /\ found \in Unparsable
  <2>1. result = [m EXCEPT !.doubts = @ \cup {Doubt("parse_failure", path)}]
    BY <1>3, Zenon DEF Scanned
  <2> HIDE DEF result
  <2>2. IsModel(result)
    BY <1>1, <2>1
  <2> QED BY <2>2 DEF result
<1>4. CASE found \notin {Gone, Link} /\ found \notin Unparsable
  <2>1. names \subseteq Seq(STRING)
    BY <1>4, ImportsAssumption
  <2>2. ASSUME NEW n \in names PROVE resolved(n).target \in Components \cup {NoComponent}
    <3>1. CASE n[1] = "."
      BY <3>1 DEF RelativeImport
    <3>2. CASE n[1] # "."
      <4>1. ResolveImport(n, ComponentIds(m)).target \in ComponentIds(m) \cup {NoComponent}
        BY <2>1, ResolvedTarget
      <4> QED BY <3>2, <4>1, OwnersAreComponents
    <3> QED BY <3>1, <3>2
  <2>3. ComponentOf(path) \in Components
    BY ComponentsAssumption DEF Components
  <2>4. result = [m EXCEPT !.edges = @ \cup edges, !.doubts = @ \cup doubts]
    BY <1>4, Zenon DEF Scanned
  <2>5. \A e \in edges : e.source \in Components /\ e.target \in Components \cup {NoComponent}
    <3> HIDE DEF resolved, names
    <3> QED BY <2>2, <2>3
  <2> HIDE DEF edges, doubts, result
  <2>6. DOMAIN result = DOMAIN m /\ result.files = m.files /\ result.edges = m.edges \cup edges
    BY <2>4 DEF IsModel
  <2>7. IsModel(result)
    BY <2>5, <2>6 DEF IsModel
  <2> QED BY <2>7 DEF result
<1> QED BY <1>2, <1>3, <1>4

\* A sealed model is one.
LEMMA SealedIsModel ==
  ASSUME NEW m, IsModel(m)
  PROVE  IsModel(Sealed(m))
BY DEF IsModel, Sealed

\* What a component imports or is imported by is a component.
LEMMA NeighboursAreComponents ==
  ASSUME NEW m, IsModel(m), NEW c
  PROVE  Neighbours(m, c) \subseteq Components
BY DEF Neighbours, DependenciesOf, DependentsOf, IsModel, NoComponent

\* What a change has an impact on are components (impacted_components).
LEMMA ImpactedAreComponents ==
  ASSUME NEW m, IsModel(m), NEW paths \in SUBSET PathSet
  PROVE  Impact(m, paths).components \subseteq Components
<1>1. \A p \in paths : OwnerOf(m, p) \notin Uncertain => OwnerOf(m, p) \in Components
  BY ComponentsAssumption DEF OwnerOf, Uncertain, Components, OwnedFiles
<1> DEFINE owners == {OwnerOf(m, p) : p \in paths}
           changed == owners \ Uncertain
           rest == {e.source : e \in {d \in m.edges : d.target \in changed}}
<1>2. Impact(m, paths).components = changed \cup rest
  BY DEF Impact
<1>3. changed \subseteq Components
  BY <1>1
<1>4. rest \subseteq Components
  BY DEF IsModel
<1> HIDE DEF changed, rest
<1> QED BY <1>2, <1>3, <1>4

\* Two sequences one after the other have the elements of both.
LEMMA JoinedSet ==
  ASSUME NEW T, NEW s \in Seq(T), NEW t \in Seq(T)
  PROVE  s \o t \in Seq(T) /\ ToSet(s \o t) = ToSet(s) \cup ToSet(t)
<1> DEFINE u == s \o t
           a == Len(s)
           b == Len(t)
<1>1. /\ a \in Nat /\ b \in Nat
      /\ DOMAIN s = 1..a /\ DOMAIN t = 1..b
  OBVIOUS
<1>2. /\ u \in Seq(T) /\ Len(u) = a + b
      /\ \A i \in 1..(a + b) : u[i] = IF i <= a THEN s[i] ELSE t[i - a]
  BY ConcatProperties
<1>3. DOMAIN u = 1..(a + b)
  BY <1>2
<1> HIDE DEF u, a, b
<1>4. ASSUME NEW i \in 1..a PROVE i \in 1..(a + b) /\ u[i] = s[i]
  <2>1. i \in 1..(a + b) /\ i <= a
    BY ONLY <1>1, <1>4
  <2> QED BY <1>2, <2>1
<1>5. ASSUME NEW i \in 1..b PROVE i + a \in 1..(a + b) /\ u[i + a] = t[i]
  <2>1. i + a \in 1..(a + b) /\ ~(i + a <= a) /\ (i + a) - a = i
    BY ONLY <1>1, <1>5
  <2> QED BY <1>2, <2>1
<1>6. ASSUME NEW i \in 1..(a + b) PROVE (\E j \in 1..a : u[i] = s[j]) \/ (\E j \in 1..b : u[i] = t[j])
  <2>1. CASE i <= a
    <3>1. i \in 1..a
      BY ONLY <1>1, <1>6, <2>1
    <3> QED BY <1>4, <3>1
  <2>2. CASE ~(i <= a)
    <3>1. i - a \in 1..b
      BY ONLY <1>1, <1>6, <2>2
    <3> QED BY <1>2, <2>2, <3>1
  <2> QED BY <2>1, <2>2
<1>7. ToSet(u) = ToSet(s) \cup ToSet(t)
  <2>1. ToSet(s) \subseteq ToSet(u)
    BY <1>1, <1>3, <1>4 DEF ToSet
  <2>2. ToSet(t) \subseteq ToSet(u)
    BY <1>1, <1>3, <1>5 DEF ToSet
  <2>3. ToSet(u) \subseteq ToSet(s) \cup ToSet(t)
    BY <1>1, <1>3, <1>6 DEF ToSet
  <2> QED BY <2>1, <2>2, <2>3
<1> QED BY <1>2, <1>7 DEF u

\* UpTo cuts a sequence off after n elements, and keeps it if it is shorter.
LEMMA UpToFacts ==
  ASSUME NEW T, NEW s \in Seq(T), NEW n \in Nat
  PROVE  /\ UpTo(s, n) \in Seq(T) /\ Len(UpTo(s, n)) <= n
         /\ ToSet(UpTo(s, n)) \subseteq ToSet(s)
         /\ Distinct(s) => Distinct(UpTo(s, n))
         /\ Len(UpTo(s, n)) < n => UpTo(s, n) = s
<1> DEFINE k == IF Len(s) < n THEN Len(s) ELSE n
           u == SubSeq(s, 1, k)
<1>1. Len(s) \in Nat /\ DOMAIN s = 1..Len(s)
  OBVIOUS
<1>2. k \in Nat /\ k <= n /\ k <= Len(s) /\ (k < n => k = Len(s))
  <2> DEFINE l == Len(s)
             j == IF l < n THEN l ELSE n
  <2>1. l \in Nat
    BY <1>1
  <2> HIDE DEF l
  <2>2. j \in Nat /\ j <= n /\ j <= l /\ (j < n => j = l)
    BY ONLY n \in Nat, <2>1
  <2> QED BY <2>2 DEF l
<1> HIDE DEF k
<1>3. \A i \in 1..k : i \in 1..Len(s) /\ s[i] \in T
  <2>1. \A i \in 1..k : i \in 1..Len(s)
    <3> DEFINE l == Len(s)
    <3>1. l \in Nat /\ k \in Nat /\ k <= l
      BY <1>1, <1>2
    <3> HIDE DEF l
    <3>2. \A i \in 1..k : i \in 1..l
      BY ONLY <3>1
    <3> QED BY Zenon, <3>2 DEF l
  <2> QED BY <2>1, ElementOfSeq
<1>4. /\ u \in Seq(T)
      /\ Len(u) = k
      /\ \A i \in 1..k : u[i] = s[i]
  <2>1. /\ u \in Seq(T)
        /\ Len(u) = IF 1 <= k THEN k - 1 + 1 ELSE 0
        /\ \A i \in 1..(k - 1 + 1) : u[i] = s[1 + i - 1]
    BY <1>2, <1>3, SubSeqProperties
  <2>2. k - 1 + 1 = k /\ (~(1 <= k) => k = 0) /\ \A i \in 1..k : 1 + i - 1 = i
    BY <1>2
  <2> HIDE DEF u
  <2> QED BY <2>1, <2>2
<1>5. DOMAIN u = 1..k
  BY <1>4
<1>6. Len(u) < n => u = s
  <2> SUFFICES ASSUME Len(u) < n PROVE u = s
    OBVIOUS
  <2>1. k = Len(s)
    BY <1>2, <1>4
  <2> QED BY <1>1, <2>1, SubSeqFull
<1>7. UpTo(s, n) = u
  BY DEF UpTo, k
<1> HIDE DEF u
<1>8. ToSet(u) \subseteq ToSet(s)
  BY ONLY <1>1, <1>3, <1>4, <1>5 DEF ToSet
<1>9. Distinct(s) => Distinct(u)
  BY ONLY <1>1, <1>3, <1>4, <1>5 DEF Distinct
<1>10. Len(u) <= n
  BY <1>2, <1>4
<1> QED BY ONLY <1>4, <1>6, <1>7, <1>8, <1>9, <1>10

-----------------------------------------------------------------------------
(* The plan: first items.                                                  *)

\* The tags of the items of a plan.
Tags == {"REQUIRED", "SUPPORTING", "POSSIBLE", "OMITTED", "UNKNOWN"}

\* What an item of a plan is.
Items == [path : PathSet \cup {NoPath}, component : Components \cup {NoComponent}, tag : Tags]

\* What a context task request is.
Requests ==
  [base : Bases, seeds : SUBSET PathSet, allowed : SUBSET PathSet, forbidden : SUBSET PathSet,
   components : SUBSET Components, package : Nat, excerpt : Nat,
   maxExcerpts : Nat, maxComponents : Nat, depth : Nat]

\* The allowed paths that are no seeds and are in the inventory.
Listed(r, m) == (r.allowed \ r.seeds) \cap DOMAIN m.files

\* Ordered keeps the paths of the set, once each.
LEMMA OrderedElements ==
  ASSUME NEW S
  PROVE  Ordered(S) \in Seq(PathSet) /\ ToSet(Ordered(S)) = PathSet \cap S /\ Distinct(Ordered(S))
<1>1. Paths \in Seq(PathSet) /\ ToSet(Paths) = PathSet /\ Distinct(Paths)
  BY PathsAssumption DEF ToSet, PathSet, Distinct
<1> QED BY <1>1, ChosenElements DEF Ordered

\* OrderedComponents keeps the components of the set, once each.
LEMMA OrderedComponentsElements ==
  ASSUME NEW S
  PROVE  /\ OrderedComponents(S) \in Seq(Components)
         /\ ToSet(OrderedComponents(S)) = Components \cap S
         /\ Distinct(OrderedComponents(S))
<1>1. ComponentOrder \in Seq(Components) /\ Distinct(ComponentOrder)
  BY ComponentsAssumption DEF Components, Distinct
<1> QED BY <1>1, ChosenElements DEF OrderedComponents, Components

\* An owner that is certain is the component of a file of the inventory.
LEMMA OwnerFacts ==
  ASSUME NEW m, IsModel(m), NEW p \in PathSet
  PROVE  /\ ComponentOf(p) \notin Uncertain
         /\ OwnerOf(m, p) \notin Uncertain => OwnerOf(m, p) = ComponentOf(p) /\ p \in OwnedFiles(m)
         /\ p \in OwnedFiles(m) => OwnerOf(m, p) = ComponentOf(p)
<1>1. ComponentOf(p) \notin Uncertain
  <2>1. \A x \in TopLevel : x # "UNKNOWN" /\ x # "EXCLUDED"
    BY DEF TopLevel
  <2> DEFINE c == ComponentOf(p)
             one == <<p[1]>>
             two == <<"backend", p[2]>>
             other == <<"other", p[1]>>
  <2>2. \/ c \in {<<"backend", "continuous_builder">>, <<"backend">>, two, <<"root">>, other}
        \/ c = one /\ p[1] \in TopLevel
    <3>1. CASE p[1] = "backend" /\ Len(p) >= 2
      <4>1. p[1] \notin TopLevel
        BY <3>1 DEF TopLevel
      <4>2. Len(p) # 1
        <5>1. p \in Seq(STRING)
          BY PathsAssumption
        <5>2. Len(p) \in Nat
          BY <5>1, LenProperties
        <5>3. \A l \in Nat : l >= 2 => l # 1
          OBVIOUS
        <5> QED BY <3>1, <5>2, <5>3, Zenon
      <4> QED BY <3>1, <4>1, <4>2, Zenon DEF ComponentOf
    <3>2. CASE ~(p[1] = "backend" /\ Len(p) >= 2) /\ p[1] \in TopLevel
      BY <3>2, Zenon DEF ComponentOf
    <3>3. CASE ~(p[1] = "backend" /\ Len(p) >= 2) /\ p[1] \notin TopLevel /\ Len(p) = 1
      BY <3>3, Zenon DEF ComponentOf
    <3>4. CASE ~(p[1] = "backend" /\ Len(p) >= 2) /\ p[1] \notin TopLevel /\ Len(p) # 1
      BY <3>4, Zenon DEF ComponentOf
    <3> QED BY <3>1, <3>2, <3>3, <3>4
  <2> HIDE DEF c
  <2>3. c \notin Uncertain
    BY <2>1, <2>2 DEF Uncertain
  <2> QED BY <2>3 DEF c
<1>2. p \in OwnedFiles(m) => OwnerOf(m, p) = ComponentOf(p)
  BY Zenon DEF OwnerOf, OwnedFiles
<1>3. p \notin OwnedFiles(m) => OwnerOf(m, p) \in Uncertain
  BY DEF OwnerOf, OwnedFiles, Uncertain
<1> QED BY <1>1, <1>2, <1>3

\* The first items are those of the seeds and of the listed allowed paths.
LEMMA FirstItemsAre ==
  ASSUME NEW r \in Requests, NEW m, IsModel(m)
  PROVE  /\ FirstItems(r, m) \in Seq(Items)
         /\ ToSet(FirstItems(r, m)) =
              {SeedItem(m, p) : p \in r.seeds} \cup {AllowedItem(m, p) : p \in Listed(r, m)}
<1> DEFINE seeds == Ordered(r.seeds)
           allowed == Ordered(Listed(r, m))
           s == [i \in DOMAIN seeds |-> SeedItem(m, seeds[i])]
           t == [i \in DOMAIN allowed |-> AllowedItem(m, allowed[i])]
<1>1. r.seeds \subseteq PathSet /\ Listed(r, m) \subseteq PathSet
  BY DEF Requests, Listed
<1>2. ASSUME NEW p \in PathSet PROVE SeedItem(m, p) \in Items /\ AllowedItem(m, p) \in Items
  <2>1. OwnerOf(m, p) \notin Uncertain => OwnerOf(m, p) \in Components
    BY OwnerFacts, ComponentsAssumption DEF Components
  <2>2. \A c \in Components \cup {NoComponent}, tag \in Tags : Item(p, c, tag) \in Items
    BY DEF Item, Items
  <2> DEFINE own == IF OwnerOf(m, p) \notin Uncertain THEN OwnerOf(m, p) ELSE NoComponent
  <2>4. own \in Components \cup {NoComponent}
    BY <2>1
  <2>5. \E tag \in Tags, c \in {own, NoComponent} : SeedItem(m, p) = Item(p, c, tag)
    BY Zenon DEF SeedItem, Tags
  <2>6. \E tag \in Tags, c \in {own, NoComponent} : AllowedItem(m, p) = Item(p, c, tag)
    BY Zenon DEF AllowedItem, Tags
  <2> HIDE DEF own
  <2>7. {own, NoComponent} \subseteq Components \cup {NoComponent}
    BY <2>4
  <2>8. SeedItem(m, p) \in Items
    BY <2>2, <2>5, <2>7, Zenon
  <2>9. AllowedItem(m, p) \in Items
    BY <2>2, <2>6, <2>7, Zenon
  <2> QED BY <2>8, <2>9
<1>3. /\ seeds \in Seq(PathSet) /\ DOMAIN seeds = 1..Len(seeds) /\ Len(seeds) \in Nat
      /\ ToSet(seeds) = r.seeds
  <2>1. seeds \in Seq(PathSet) /\ ToSet(seeds) = PathSet \cap r.seeds
    BY OrderedElements
  <2> HIDE DEF seeds
  <2>2. DOMAIN seeds = 1..Len(seeds) /\ Len(seeds) \in Nat
    BY <2>1, LenProperties
  <2> QED BY <1>1, <2>1, <2>2
<1>4. /\ allowed \in Seq(PathSet) /\ DOMAIN allowed = 1..Len(allowed) /\ Len(allowed) \in Nat
      /\ ToSet(allowed) = Listed(r, m)
  <2>1. allowed \in Seq(PathSet) /\ ToSet(allowed) = PathSet \cap Listed(r, m)
    BY OrderedElements
  <2> HIDE DEF allowed
  <2>2. DOMAIN allowed = 1..Len(allowed) /\ Len(allowed) \in Nat
    BY <2>1, LenProperties
  <2> QED BY <1>1, <2>1, <2>2
<1> HIDE DEF seeds, allowed
<1>5. s \in Seq(Items) /\ ToSet(s) = {SeedItem(m, p) : p \in r.seeds}
  <2>1. \A i \in 1..Len(seeds) : s[i] = SeedItem(m, seeds[i]) /\ seeds[i] \in PathSet
    BY <1>3, ElementOfSeq
  <2>2. s \in Seq(Items)
    BY <1>2, <1>3, <2>1
  <2>3. ToSet(s) = {SeedItem(m, p) : p \in ToSet(seeds)}
    BY <1>3, <2>1 DEF ToSet
  <2> QED BY <1>3, <2>2, <2>3
<1>6. t \in Seq(Items) /\ ToSet(t) = {AllowedItem(m, p) : p \in Listed(r, m)}
  <2>1. \A i \in 1..Len(allowed) : t[i] = AllowedItem(m, allowed[i]) /\ allowed[i] \in PathSet
    BY <1>4, ElementOfSeq
  <2>2. t \in Seq(Items)
    BY <1>2, <1>4, <2>1
  <2>3. ToSet(t) = {AllowedItem(m, p) : p \in ToSet(allowed)}
    BY <1>4, <2>1 DEF ToSet
  <2> QED BY <1>4, <2>2, <2>3
<1>7. FirstItems(r, m) = s \o t
  BY Zenon DEF FirstItems, s, t, seeds, allowed, Listed
<1> HIDE DEF s, t
<1> QED BY <1>5, <1>6, <1>7, JoinedSet

-----------------------------------------------------------------------------
(* The components of the request and the owners of the first items.        *)

\* One item of SeedComponents.
OwnerNext(c, item, found) ==
  IF item.component = NoComponent \/ Contains(found, item.component)
  THEN found ELSE Append(found, item.component)

\* SeedComponents as a fold.
Owners == INSTANCE RecursionTheorems WITH Value <- OwnerNext

\* The components the request and its first items name.
Named(r, items) == r.components \cup ({i.component : i \in ToSet(items)} \ {NoComponent})

\* SeedComponents adds the owner of one item after the other, and cuts.
LEMMA SeedComponentsIsFold ==
  ASSUME NEW r, NEW items
  PROVE  SeedComponents(r, items)
           = UpTo(Owners!Fold(0, OrderedComponents(r.components), items), r.maxComponents)
BY Zenon DEF SeedComponents, FoldLeft, MapThenFoldSet, Max, OwnerNext,
             Owners!Fold, Owners!FoldFrom, Owners!Greatest

\* Contains asks for an element.
LEMMA ContainsSet ==
  ASSUME NEW T, NEW s \in Seq(T), NEW x
  PROVE  Contains(s, x) <=> x \in ToSet(s)
BY DEF Contains, ToSet

\* The seed components are those named, all of them unless the bound is reached.
LEMMA SeedComponentsAre ==
  ASSUME NEW r \in Requests, NEW items \in Seq(Items)
  PROVE  LET seeds == SeedComponents(r, items)
         IN  /\ seeds \in Seq(Components) /\ Distinct(seeds)
             /\ ToSet(seeds) \subseteq Named(r, items)
             /\ Len(seeds) < r.maxComponents => ToSet(seeds) = Named(r, items)
<1> DEFINE base == OrderedComponents(r.components)
           of(k) == {items[i].component : i \in 1..k} \ {NoComponent}
           Good(k) == {q \in Seq(Components) : Distinct(q) /\ ToSet(q) = r.components \cup of(k)}
           sets == [k \in 0..Len(items) |-> Good(k)]
<1>1. Len(items) \in Nat /\ DOMAIN items = 1..Len(items)
  OBVIOUS
<1>2. base \in sets[0]
  <2>1. 0 \in 0..Len(items) /\ of(0) = {}
    BY <1>1
  <2>2. base \in Seq(Components) /\ ToSet(base) = Components \cap r.components /\ Distinct(base)
    BY OrderedComponentsElements
  <2>3. r.components \subseteq Components
    BY DEF Requests
  <2> HIDE DEF base, of
  <2> QED BY <2>1, <2>2, <2>3
<1>3. ASSUME NEW k \in 1..Len(items), NEW q \in sets[k - 1]
      PROVE  OwnerNext(0, items[k], q) \in sets[k]
  <2>1. k \in 0..Len(items) /\ k - 1 \in 0..Len(items) /\ k \in Nat
    BY <1>1
  <2>2. q \in Seq(Components) /\ Distinct(q) /\ ToSet(q) = r.components \cup of(k - 1)
    BY <2>1
  <2> DEFINE x == items[k].component
  <2>3. of(k) = of(k - 1) \cup ({x} \ {NoComponent})
    BY <2>1
  <2>4. x \in Components \cup {NoComponent}
    <3>1. items[k] \in Items
      BY ElementOfSeq
    <3> QED BY <3>1 DEF Items
  <2>5. OwnerNext(0, items[k], q) = IF x = NoComponent \/ x \in ToSet(q) THEN q ELSE Append(q, x)
    <3>1. Contains(q, x) <=> x \in ToSet(q)
      BY <2>2, ContainsSet
    <3> QED BY <3>1, Zenon DEF OwnerNext
  <2> HIDE DEF x, of
  <2>6. CASE x = NoComponent \/ x \in ToSet(q)
    BY <2>1, <2>2, <2>3, <2>5, <2>6
  <2>7. CASE ~(x = NoComponent \/ x \in ToSet(q))
    <3>1. x \in Components
      BY <2>4, <2>7
    <3>2. Append(q, x) \in Seq(Components)
      BY <2>2, <3>1
    <3>3. ToSet(Append(q, x)) = ToSet(q) \cup {x}
      BY <2>2, <3>1, AppendedSet
    <3>4. Distinct(Append(q, x))
      BY <2>2, <2>7, <3>1, AppendedDistinct
    <3>5. ToSet(Append(q, x)) = r.components \cup of(k)
      BY <2>2, <2>3, <2>7, <3>3
    <3> QED BY <2>1, <2>5, <2>7, <3>2, <3>4, <3>5
  <2> QED BY <2>6, <2>7
<1> DEFINE all == Owners!Fold(0, base, items)
<1>4. all \in sets[Len(items)]
  <2> HIDE DEF sets, base
  <2>1. Owners!Keeps(sets, 0, base, items)
    BY <1>2, <1>3 DEF Owners!Keeps
  <2> QED BY <2>1, Owners!FoldKeeps
<1>5. r.components \cup of(Len(items)) = Named(r, items)
  BY <1>1 DEF Named, ToSet
<1>6. all \in Seq(Components) /\ Distinct(all) /\ ToSet(all) = Named(r, items)
  <2>1. Len(items) \in 0..Len(items)
    BY <1>1
  <2> HIDE DEF all, of
  <2>2. all \in Good(Len(items))
    BY <1>4, <2>1
  <2> QED BY <1>5, <2>2
<1>7. SeedComponents(r, items) = UpTo(all, r.maxComponents)
  BY SeedComponentsIsFold
<1>8. r.maxComponents \in Nat
  BY DEF Requests
<1> HIDE DEF all
<1> DEFINE u == UpTo(all, r.maxComponents)
<1>9. /\ u \in Seq(Components) /\ Distinct(u) /\ ToSet(u) \subseteq ToSet(all)
      /\ Len(u) < r.maxComponents => u = all
  BY <1>6, <1>8, UpToFacts
<1> HIDE DEF u
<1> QED BY <1>6, <1>7, <1>9 DEF u

-----------------------------------------------------------------------------
(* The neighbourhood.                                                      *)

\* One component of the frontier: c is the model and the bound.
OneNext(c, x, acc) ==
  LET new == Neighbours(c[1], x) \ acc.selected
  IN IF Cardinality(acc.selected) >= c[2] THEN acc
     ELSE [selected |-> acc.selected \cup new, frontier |-> acc.frontier \o OrderedComponents(new)]

\* One level of Expand as a fold.
Ones == INSTANCE RecursionTheorems WITH Value <- OneNext

\* One level: c is the model, the seeds and the bound.
LevelNext(c, n, before) ==
  IF n = 0 THEN [selected |-> ToSet(c[2]), frontier |-> c[2]]
  ELSE Ones!Fold(<<c[1], c[3]>>, [before EXCEPT !.frontier = << >>], before.frontier)

\* The levels of Expand as a recursion.
Levels == INSTANCE RecursionTheorems WITH Value <- LevelNext

\* f is the table of the levels of Expand.
IsLevels(f, m, seeds, depth, bound) ==
  LET one(acc, c) ==
        LET new == Neighbours(m, c) \ acc.selected
        IN IF Cardinality(acc.selected) >= bound THEN acc
           ELSE [selected |-> acc.selected \cup new, frontier |-> acc.frontier \o OrderedComponents(new)]
  IN f = [n \in 0..depth |->
            IF n = 0 THEN [selected |-> ToSet(seeds), frontier |-> seeds]
            ELSE FoldLeft(one, [f[n - 1] EXCEPT !.frontier = << >>], f[n - 1].frontier)]

\* The table of the levels.
LevelTable(m, seeds, depth, bound) == CHOOSE f : IsLevels(f, m, seeds, depth, bound)

\* Expand takes the last level of its table.
LEMMA ExpandIsTable ==
  ASSUME NEW m, NEW seeds, NEW depth, NEW bound
  PROVE  Expand(m, seeds, depth, bound) = LevelTable(m, seeds, depth, bound)[depth].selected
BY Zenon DEF Expand, LevelTable, IsLevels, FoldLeft, MapThenFoldSet

\* One level of Expand.
OneFold(m, bound, base, s) ==
  LET one(acc, c) ==
        LET new == Neighbours(m, c) \ acc.selected
        IN IF Cardinality(acc.selected) >= bound THEN acc
           ELSE [selected |-> acc.selected \cup new, frontier |-> acc.frontier \o OrderedComponents(new)]
  IN FoldLeft(one, base, s)

\* One level adds the neighbours of one component after the other.
LEMMA OneIsFold ==
  ASSUME NEW c, NEW base, NEW s
  PROVE  OneFold(c[1], c[2], base, s) = Ones!Fold(c, base, s)
BY Zenon DEF OneFold, FoldLeft, MapThenFoldSet, Max, OneNext, Ones!Fold, Ones!FoldFrom, Ones!Greatest

\* A level is a fold over the frontier of the level before it.
LEMMA LevelsAreFolds ==
  ASSUME NEW m, NEW seeds, NEW depth \in Nat, NEW bound, NEW f
  PROVE  IsLevels(f, m, seeds, depth, bound) <=> Levels!Follows(f, <<m, seeds, bound>>, depth)
<1> DEFINE c == <<m, seeds, bound>>
           g == [n \in 0..depth |->
                   IF n = 0 THEN [selected |-> ToSet(seeds), frontier |-> seeds]
                   ELSE OneFold(m, bound, [f[n - 1] EXCEPT !.frontier = << >>], f[n - 1].frontier)]
           h == [n \in 0..depth |-> LevelNext(c, n, f[n - 1])]
<1>1. c[1] = m /\ c[2] = seeds /\ c[3] = bound
  OBVIOUS
<1>2. IsLevels(f, m, seeds, depth, bound) <=> f = g
  BY Zenon DEF IsLevels, OneFold, FoldLeft, MapThenFoldSet
<1>3. Levels!Follows(f, c, depth) <=> f = h
  BY Zenon DEF Levels!Follows
<1> HIDE DEF c
<1>4. ASSUME NEW n \in 0..depth PROVE g[n] = h[n]
  <2>1. CASE n = 0
    BY <1>1, <2>1 DEF LevelNext
  <2>2. CASE n # 0
    <3>1. OneFold(m, bound, [f[n - 1] EXCEPT !.frontier = << >>], f[n - 1].frontier)
            = Ones!Fold(<<m, bound>>, [f[n - 1] EXCEPT !.frontier = << >>], f[n - 1].frontier)
      <4> DEFINE d == <<m, bound>>
      <4>1. d[1] = m /\ d[2] = bound
        OBVIOUS
      <4> HIDE DEF d
      <4>2. \A base, s : OneFold(d[1], d[2], base, s) = Ones!Fold(d, base, s)
        BY OneIsFold
      <4> QED BY <4>1, <4>2 DEF d
    <3> QED BY <1>1, <2>2, <3>1 DEF LevelNext
  <2> QED BY <2>1, <2>2
<1>5. g = h
  <2>1. g = [n \in 0..depth |-> g[n]] /\ h = [n \in 0..depth |-> h[n]]
    OBVIOUS
  <2> HIDE DEF g, h
  <2> QED BY <1>4, <2>1
<1> HIDE DEF g, h
<1> QED BY <1>2, <1>3, <1>5 DEF c

\* The table exists, and its lines are what its recursion says.
LEMMA LevelTableLines ==
  ASSUME NEW m, NEW seeds, NEW depth \in Nat, NEW bound
  PROVE  \A n \in 0..depth :
           LevelTable(m, seeds, depth, bound)[n]
             = LevelNext(<<m, seeds, bound>>, n, LevelTable(m, seeds, depth, bound)[n - 1])
<1> DEFINE c == <<m, seeds, bound>>
<1>1. \A v, w : LevelNext(c, 0, v) = LevelNext(c, 0, w)
  BY DEF LevelNext
<1> HIDE DEF c
<1>2. \E f : Levels!Follows(f, c, depth)
  BY <1>1, Levels!Recursion, Zenon
<1>3. \E f : IsLevels(f, m, seeds, depth, bound)
  BY <1>2, LevelsAreFolds, Zenon DEF c
<1>4. IsLevels(LevelTable(m, seeds, depth, bound), m, seeds, depth, bound)
  BY <1>3, Zenon DEF LevelTable
<1>5. Levels!Follows(LevelTable(m, seeds, depth, bound), c, depth)
  BY <1>4, LevelsAreFolds, Zenon DEF c
<1> QED BY <1>5 DEF Levels!Follows, c

\* The components within n imports: c is the model and the owners.
WithinNext(c, n, before) ==
  IF n = 0 THEN c[2] ELSE before \cup UNION {Neighbours(c[1], x) : x \in before}

\* Near as a recursion.
Withins == INSTANCE RecursionTheorems WITH Value <- WithinNext

\* The components the task is about.
OwnersOf(r, m) == {OwnerOf(m, p) : p \in r.seeds \cup r.allowed} \cup r.components

\* f is the table of the components within n imports.
IsWithin(f, r, m) ==
  f = [n \in 0..r.depth |->
         IF n = 0 THEN OwnersOf(r, m)
         ELSE f[n - 1] \cup UNION {Neighbours(m, c) : c \in f[n - 1]}]

\* The table of the components within n imports.
NearTable(r, m) == CHOOSE f : IsWithin(f, r, m)

\* Near takes the last line of its table.
LEMMA NearIsTable ==
  ASSUME NEW r, NEW m
  PROVE  Near(r, m) = NearTable(r, m)[r.depth]
BY Zenon DEF Near, NearTable, IsWithin, OwnersOf

\* The table exists, and its lines are what its recursion says.
LEMMA NearTableLines ==
  ASSUME NEW r \in Requests, NEW m
  PROVE  IsWithin(NearTable(r, m), r, m)
<1> DEFINE owners == OwnersOf(r, m)
           c == <<m, owners>>
<1>1. \A v, w : WithinNext(c, 0, v) = WithinNext(c, 0, w)
  BY DEF WithinNext
<1>2. r.depth \in Nat
  BY DEF Requests
<1>3. c[1] = m /\ c[2] = owners
  OBVIOUS
<1> HIDE DEF c, owners
<1>4. PICK f : Withins!Follows(f, c, r.depth)
  BY <1>1, <1>2, Withins!Recursion, Zenon
<1>5. f = [n \in 0..r.depth |-> IF n = 0 THEN owners ELSE f[n - 1] \cup UNION {Neighbours(m, x) : x \in f[n - 1]}]
  <2>1. f = [n \in 0..r.depth |-> WithinNext(c, n, f[n - 1])]
    BY <1>4 DEF Withins!Follows
  <2>2. ASSUME NEW n
        PROVE  WithinNext(c, n, f[n - 1])
                 = IF n = 0 THEN owners ELSE f[n - 1] \cup UNION {Neighbours(m, x) : x \in f[n - 1]}
    BY <1>3 DEF WithinNext
  <2> QED BY <2>1, <2>2
<1>6. \E g : IsWithin(g, r, m)
  BY <1>5, Zenon DEF IsWithin, owners
<1> QED BY <1>6, Zenon DEF NearTable

\* The levels of Expand.
Accs == [selected : SUBSET Components, frontier : Seq(Components)]

\* The neighbours of these components.
Around(m, S) == UNION {Neighbours(m, x) : x \in S}

\* There are finitely many components.
LEMMA ComponentsFinite ==
  /\ IsFiniteSet(Components)
  /\ \A S \in SUBSET Components : IsFiniteSet(S) /\ Cardinality(S) \in Nat
<1>1. IsFiniteSet(Components)
  BY ComponentsAssumption, SeqIsFinite DEF Components
<1>2. ASSUME NEW S \in SUBSET Components PROVE IsFiniteSet(S) /\ Cardinality(S) \in Nat
  <2>1. IsFiniteSet(S)
    BY <1>1, FS_Subset
  <2> QED BY <2>1, FS_CardinalityType
<1> QED BY <1>1, <1>2

\* What a level of the neighbourhood adds.
Grown(before, after, m, bound) ==
  /\ after \in Accs
  /\ before.selected \subseteq after.selected /\ ToSet(after.frontier) \subseteq after.selected
  /\ after.selected \subseteq before.selected \cup Around(m, ToSet(before.frontier))
  /\ Cardinality(after.selected) < bound =>
       /\ Around(m, ToSet(before.frontier)) \subseteq after.selected
       /\ ToSet(after.frontier) = after.selected \ before.selected

\* One level takes all the neighbours of its frontier, unless the bound is reached.
LEMMA OneLevel ==
  ASSUME NEW m, IsModel(m), NEW bound \in Nat, NEW before \in Accs
  PROVE  Grown(before,
               Ones!Fold(<<m, bound>>, [before EXCEPT !.frontier = << >>], before.frontier), m, bound)
<1> DEFINE c == <<m, bound>>
           fr == before.frontier
           base == [before EXCEPT !.frontier = << >>]
           first(k) == {fr[i] : i \in 1..k}
           reach(k) == Around(m, first(k))
           Fine(k, acc) == /\ before.selected \subseteq acc.selected
                           /\ ToSet(acc.frontier) \subseteq acc.selected
                           /\ acc.selected \subseteq before.selected \cup reach(k)
                           /\ Cardinality(acc.selected) < bound =>
                                /\ reach(k) \subseteq acc.selected
                                /\ ToSet(acc.frontier) = acc.selected \ before.selected
           sets == [k \in 0..Len(fr) |-> {acc \in Accs : Fine(k, acc)}]
<1>1. fr \in Seq(Components) /\ before.selected \subseteq Components
  BY DEF Accs
<1>2. Len(fr) \in Nat /\ DOMAIN fr = 1..Len(fr)
  BY <1>1
<1>3. c[1] = m /\ c[2] = bound
  OBVIOUS
<1> HIDE DEF c
<1>4. base \in sets[0]
  <2>1. base \in Accs /\ base.selected = before.selected /\ base.frontier = << >>
    <3>1. << >> \in Seq(Components)
      OBVIOUS
    <3> QED BY <3>1 DEF Accs
  <2>2. reach(0) = {} /\ 0 \in 0..Len(fr)
    BY <1>2 DEF Around
  <2>3. ToSet(<< >>) = {}
    BY DEF ToSet
  <2> HIDE DEF base, reach, fr
  <2> QED BY <2>1, <2>2, <2>3
<1>5. ASSUME NEW k \in 1..Len(fr), NEW acc \in sets[k - 1] PROVE OneNext(c, fr[k], acc) \in sets[k]
  <2>1. k \in 0..Len(fr) /\ k - 1 \in 0..Len(fr) /\ k \in Nat /\ k >= 1
    BY <1>2
  <2>2. acc \in Accs /\ Fine(k - 1, acc)
    BY <2>1
  <2>3. fr[k] \in Components /\ Neighbours(m, fr[k]) \subseteq Components
    BY <1>1, ElementOfSeq, NeighboursAreComponents
  <2>4. reach(k) = reach(k - 1) \cup Neighbours(m, fr[k])
    <3>1. first(k) = first(k - 1) \cup {fr[k]}
      BY <2>1
    <3> HIDE DEF first
    <3> QED BY <3>1 DEF Around
  <2>5. acc.selected \subseteq Components /\ acc.frontier \in Seq(Components)
    BY <2>2 DEF Accs
  <2>6. Cardinality(acc.selected) \in Nat
    BY <2>5, ComponentsFinite
  <2> HIDE DEF reach, first, fr, Fine
  <2>7. CASE Cardinality(acc.selected) >= bound
    <3>1. OneNext(c, fr[k], acc) = acc
      BY <1>3, <2>7 DEF OneNext
    <3>2. ~(Cardinality(acc.selected) < bound)
      BY <2>6, <2>7
    <3>3. Fine(k, acc)
      BY <2>2, <2>4, <3>2 DEF Fine
    <3> QED BY <2>1, <2>2, <3>1, <3>3
  <2>8. CASE ~(Cardinality(acc.selected) >= bound)
    <3> DEFINE new == Neighbours(m, fr[k]) \ acc.selected
               out == [selected |-> acc.selected \cup new,
                       frontier |-> acc.frontier \o OrderedComponents(new)]
    <3>1. OneNext(c, fr[k], acc) = out
      BY <1>3, <2>8 DEF OneNext
    <3>2. Cardinality(acc.selected) < bound
      BY <2>6, <2>8
    <3>3. reach(k - 1) \subseteq acc.selected /\ ToSet(acc.frontier) = acc.selected \ before.selected
      BY <2>2, <3>2 DEF Fine
    <3>4. OrderedComponents(new) \in Seq(Components) /\ ToSet(OrderedComponents(new)) = Components \cap new
      BY OrderedComponentsElements
    <3>5. new \subseteq Components /\ new \cap acc.selected = {}
          /\ Neighbours(m, fr[k]) \subseteq acc.selected \cup new /\ new \subseteq Neighbours(m, fr[k])
      BY <2>3
    <3>6. /\ out.frontier \in Seq(Components)
          /\ ToSet(out.frontier) = ToSet(acc.frontier) \cup ToSet(OrderedComponents(new))
          /\ out.selected = acc.selected \cup new
      <4> HIDE DEF new
      <4> QED BY <2>5, <3>4, JoinedSet
    <3>7. out \in Accs
      <4>1. out = [selected |-> out.selected, frontier |-> out.frontier]
        OBVIOUS
      <4> HIDE DEF out, new
      <4>2. out.selected \subseteq Components
        BY <2>5, <3>5, <3>6
      <4> QED BY <3>6, <4>1, <4>2 DEF Accs
    <3> HIDE DEF out, new
    <3>8. before.selected \subseteq acc.selected /\ acc.selected \subseteq before.selected \cup reach(k - 1)
      BY <2>2 DEF Fine
    <3>9. ToSet(out.frontier) = out.selected \ before.selected
      BY <3>3, <3>4, <3>5, <3>6, <3>8
    <3>10. reach(k) \subseteq out.selected
      BY <2>4, <3>3, <3>5, <3>6
    <3>11. before.selected \subseteq out.selected /\ out.selected \subseteq before.selected \cup reach(k)
      BY <2>4, <3>5, <3>6, <3>8
    <3>12. Fine(k, out)
      BY <3>9, <3>10, <3>11 DEF Fine
    <3> QED BY <2>1, <3>1, <3>7, <3>12
  <2> QED BY <2>7, <2>8
<1> DEFINE after == Ones!Fold(c, base, fr)
<1>6. after \in sets[Len(fr)]
  <2> HIDE DEF sets, base, fr
  <2>1. Ones!Keeps(sets, c, base, fr)
    BY <1>4, <1>5 DEF Ones!Keeps
  <2> QED BY <1>1, <2>1, Ones!FoldKeeps
<1>7. first(Len(fr)) = ToSet(fr)
  BY <1>2 DEF ToSet
<1>8. Len(fr) \in 0..Len(fr)
  BY <1>2
<1>9. after \in Accs /\ Fine(Len(fr), after)
  <2> HIDE DEF after, fr, Fine
  <2> QED BY <1>6, <1>8
<1>10. reach(Len(fr)) = Around(m, ToSet(fr))
  BY <1>7
<1> HIDE DEF after, first
<1>11. Grown(before, after, m, bound)
  BY <1>9, <1>10 DEF Grown
<1> QED BY <1>11 DEF after, c

-----------------------------------------------------------------------------
(* The neighbourhood and the components near the task.                     *)

\* A level of the neighbourhood against the components within as many imports.
Reached(acc, within, seeds, owners, m, bound) ==
  /\ acc \in Accs
  /\ ToSet(seeds) \subseteq acc.selected
  /\ acc.selected \subseteq within
  /\ ToSet(acc.frontier) \subseteq acc.selected
  /\ Cardinality(acc.selected) < bound /\ ToSet(seeds) = owners =>
       /\ within \subseteq acc.selected
       /\ Around(m, acc.selected \ ToSet(acc.frontier)) \subseteq acc.selected

\* One level more reaches the components within one import more.
LEMMA ReachedNext ==
  ASSUME NEW m, IsModel(m), NEW bound \in Nat, NEW before, NEW within, NEW seeds, NEW owners,
         Reached(before, within, seeds, owners, m, bound),
         NEW after, Grown(before, after, m, bound)
  PROVE  Reached(after, within \cup Around(m, within), seeds, owners, m, bound)
<1> DEFINE next == within \cup Around(m, within)
<1>1. before \in Accs /\ after \in Accs /\ before.selected \subseteq after.selected
  BY DEF Reached, Grown
<1>2. after.selected \subseteq next
  <2>1. ToSet(before.frontier) \subseteq within
    BY DEF Reached
  <2>2. Around(m, ToSet(before.frontier)) \subseteq Around(m, within)
    BY <2>1 DEF Around
  <2> QED BY <2>2 DEF Grown, Reached
<1>3. ASSUME Cardinality(after.selected) < bound, ToSet(seeds) = owners
      PROVE  /\ next \subseteq after.selected
             /\ Around(m, after.selected \ ToSet(after.frontier)) \subseteq after.selected
  <2>1. Cardinality(before.selected) < bound
    <3>1. /\ after.selected \subseteq Components /\ IsFiniteSet(after.selected)
          /\ Cardinality(after.selected) \in Nat /\ Cardinality(before.selected) \in Nat
      BY <1>1, ComponentsFinite DEF Accs
    <3>2. Cardinality(before.selected) <= Cardinality(after.selected)
      BY <1>1, <3>1, FS_Subset
    <3> QED BY <1>3, <3>1, <3>2
  <2>2. /\ within \subseteq before.selected
        /\ Around(m, before.selected \ ToSet(before.frontier)) \subseteq before.selected
    BY <1>3, <2>1 DEF Reached
  <2>3. /\ Around(m, ToSet(before.frontier)) \subseteq after.selected
        /\ ToSet(after.frontier) = after.selected \ before.selected
    BY <1>3 DEF Grown
  <2>4. Around(m, before.selected) \subseteq after.selected
    BY <1>1, <2>2, <2>3 DEF Around
  <2>5. Around(m, within) \subseteq Around(m, before.selected)
    BY <2>2 DEF Around
  <2>6. after.selected \ ToSet(after.frontier) = before.selected
    BY <1>1, <2>3
  <2> QED BY <1>1, <2>2, <2>4, <2>5, <2>6
<1> HIDE DEF next
<1>4. ToSet(seeds) \subseteq after.selected /\ ToSet(after.frontier) \subseteq after.selected
  BY <1>1 DEF Reached, Grown
<1>5. Reached(after, next, seeds, owners, m, bound)
  BY <1>1, <1>2, <1>3, <1>4 DEF Reached
<1> QED BY <1>5 DEF next

\* After every level, unless the bound is reached, all the components within as many
\* imports are selected.
LEMMA LevelsReach ==
  ASSUME NEW r \in Requests, NEW m, IsModel(m),
         NEW seeds \in Seq(Components), ToSet(seeds) \subseteq OwnersOf(r, m)
  PROVE  LET T == LevelTable(m, seeds, r.depth, r.maxComponents)
         IN  Reached(T[r.depth], Near(r, m), seeds, OwnersOf(r, m), m, r.maxComponents)
<1> DEFINE T == LevelTable(m, seeds, r.depth, r.maxComponents)
           W == NearTable(r, m)
           bound == r.maxComponents
           owners == OwnersOf(r, m)
           c == <<m, seeds, bound>>
           depth == r.depth
           S == {n \in 0..depth : Reached(T[n], W[n], seeds, owners, m, bound)}
<1>1. depth \in Nat /\ bound \in Nat
  BY DEF Requests
<1>2. c[1] = m /\ c[2] = seeds /\ c[3] = bound
  OBVIOUS
<1>3. \A n \in 0..depth : T[n] = LevelNext(c, n, T[n - 1])
  BY <1>1, LevelTableLines
<1>4. W = [n \in 0..depth |-> IF n = 0 THEN owners ELSE W[n - 1] \cup Around(m, W[n - 1])]
  BY NearTableLines DEF IsWithin, Around
<1>5. Near(r, m) = W[depth]
  BY NearIsTable
<1> HIDE DEF T, W, bound, c, depth, owners
<1>6. 0 \in S
  <2>1. 0 \in 0..depth
    BY <1>1
  <2>2. T[0] = [selected |-> ToSet(seeds), frontier |-> seeds]
    <3>1. T[0] = LevelNext(c, 0, T[0 - 1])
      BY <1>3, <2>1
    <3> QED BY <1>2, <3>1 DEF LevelNext
  <2>3. W[0] = owners
    BY <1>4, <2>1
  <2>4. ToSet(seeds) \subseteq Components
    BY ElementOfSeq DEF ToSet
  <2>5. T[0] \in Accs
    BY <2>2, <2>4 DEF Accs
  <2>6. T[0].selected = ToSet(seeds) /\ T[0].frontier = seeds
    BY <2>2
  <2>7. Around(m, T[0].selected \ ToSet(T[0].frontier)) = {}
    BY <2>6 DEF Around
  <2>8. ToSet(seeds) \subseteq owners
    BY DEF owners
  <2>9. Reached(T[0], W[0], seeds, owners, m, bound)
    BY <2>3, <2>5, <2>6, <2>7, <2>8 DEF Reached
  <2> QED BY <2>1, <2>9
<1>7. ASSUME NEW n \in 0..depth, n < depth, n \in S PROVE n + 1 \in S
  <2>1. n + 1 \in 0..depth /\ n + 1 # 0 /\ (n + 1) - 1 = n
    BY ONLY <1>1, <1>7
  <2>2. Reached(T[n], W[n], seeds, owners, m, bound) /\ T[n] \in Accs
    BY <1>7 DEF Reached
  <2>3. T[n + 1] = Ones!Fold(<<m, bound>>, [T[n] EXCEPT !.frontier = << >>], T[n].frontier)
    <3>1. T[n + 1] = LevelNext(c, n + 1, T[n])
      BY <1>3, <2>1
    <3> QED BY <1>2, <2>1, <3>1 DEF LevelNext
  <2>4. Grown(T[n], T[n + 1], m, bound)
    BY <1>1, <2>2, <2>3, OneLevel
  <2>5. W[n + 1] = W[n] \cup Around(m, W[n])
    BY <1>4, <2>1
  <2>6. Reached(T[n + 1], W[n] \cup Around(m, W[n]), seeds, owners, m, bound)
    BY <1>1, <2>2, <2>4, ReachedNext
  <2> QED BY <2>1, <2>5, <2>6
<1>8. \A n \in 0..depth : n \in S
  <2> HIDE DEF S
  <2> QED BY <1>1, <1>6, <1>7, Lines!Induction
<1>9. Reached(T[depth], W[depth], seeds, owners, m, bound)
  <2>1. depth \in 0..depth
    BY <1>1
  <2> QED BY <1>8, <2>1
<1> QED BY <1>5, <1>9 DEF T, bound, owners, depth

\* The neighbourhood has the seeds and only components near the task; if it
\* was not cut and neither were the seeds, it has them all.
LEMMA ExpandedIsNear ==
  ASSUME NEW r \in Requests, NEW m, IsModel(m),
         NEW seeds \in Seq(Components), ToSet(seeds) \subseteq OwnersOf(r, m)
  PROVE  LET near == Expand(m, seeds, r.depth, r.maxComponents)
         IN  /\ near \subseteq Components /\ ToSet(seeds) \subseteq near /\ near \subseteq Near(r, m)
             /\ Cardinality(near) < r.maxComponents /\ ToSet(seeds) = OwnersOf(r, m) =>
                  near = Near(r, m)
<1> DEFINE acc == LevelTable(m, seeds, r.depth, r.maxComponents)[r.depth]
           near == Expand(m, seeds, r.depth, r.maxComponents)
<1>1. Reached(acc, Near(r, m), seeds, OwnersOf(r, m), m, r.maxComponents)
  BY LevelsReach
<1>2. near = acc.selected
  BY ExpandIsTable
<1> HIDE DEF acc, near
<1>3. acc.selected \subseteq Components
  BY <1>1 DEF Reached, Accs
<1>4. /\ near \subseteq Components /\ ToSet(seeds) \subseteq near /\ near \subseteq Near(r, m)
      /\ Cardinality(near) < r.maxComponents /\ ToSet(seeds) = OwnersOf(r, m) => near = Near(r, m)
  BY <1>1, <1>2, <1>3 DEF Reached
<1> QED BY <1>4 DEF near

-----------------------------------------------------------------------------
(* The files of the components.                                            *)

\* One file: c is the request and what the components were selected for.
FileNext(c, p, acc) ==
  IF Cardinality(acc.seen) >= c[1].maxExcerpts THEN [acc EXCEPT !.cut = TRUE]
  ELSE IF p \in acc.seen THEN acc
  ELSE [acc EXCEPT !.seen = @ \cup {p},
                   !.items = @ \cup {Item(p, ComponentOf(p), FileTag(c[1], p, c[2][ComponentOf(p)]))}]

\* The files of a component as a fold.
FileSteps == INSTANCE RecursionTheorems WITH Value <- FileNext

\* The files of one component.
FileFold(r, why, acc, files) ==
  LET full(a) == Cardinality(a.seen) >= r.maxExcerpts
      file(a, p) ==
        IF full(a) THEN [a EXCEPT !.cut = TRUE]
        ELSE IF p \in a.seen THEN a
        ELSE [a EXCEPT !.seen = @ \cup {p},
                       !.items = @ \cup {Item(p, ComponentOf(p), FileTag(r, p, why[ComponentOf(p)]))}]
  IN FoldLeft(file, acc, files)

\* TakeFiles takes one file of a component after the other.
LEMMA FilesAreFold ==
  ASSUME NEW c, NEW acc, NEW files
  PROVE  FileFold(c[1], c[2], acc, files) = FileSteps!Fold(c, acc, files)
BY Zenon DEF FileFold, FoldLeft, MapThenFoldSet, Max, FileNext,
             FileSteps!Fold, FileSteps!FoldFrom, FileSteps!Greatest

\* One component: c is the request, the model and what the components were selected for.
ComponentNext(c, x, acc) ==
  IF acc.stop THEN acc
  ELSE LET taken == FileFold(c[1], c[3], acc, FilesOf(c[2], x))
       IN [taken EXCEPT !.stop = Cardinality(taken.seen) >= c[1].maxExcerpts]

\* The components as a fold.
ComponentSteps == INSTANCE RecursionTheorems WITH Value <- ComponentNext

\* What TakeFiles starts with.
FirstAcc(m, items) ==
  [seen |-> {items[i].path : i \in DOMAIN items} \cap DOMAIN m.files,
   items |-> ToSet(items), cut |-> FALSE, stop |-> FALSE]

\* TakeFiles takes the files of one component after the other.
LEMMA TakeFilesIsFold ==
  ASSUME NEW c, NEW items
  PROVE  TakeFiles(c[1], c[2], c[3], items)
           = ComponentSteps!Fold(c, FirstAcc(c[2], items), OrderedComponents(DOMAIN c[3]))
BY Zenon DEF TakeFiles, FirstAcc, FileFold, FoldLeft, MapThenFoldSet, Max, ComponentNext,
             ComponentSteps!Fold, ComponentSteps!FoldFrom, ComponentSteps!Greatest

\* What TakeFiles has so far.
FileAccs == [seen : SUBSET PathSet, items : SUBSET Items, cut : BOOLEAN, stop : BOOLEAN]

\* The tags of the items that are read.
Picked == {"REQUIRED", "SUPPORTING", "POSSIBLE"}

\* The paths the request names.
Stated(r) == r.seeds \cup r.allowed

\* The files of some components.
FilesIn(m, S) == {p \in OwnedFiles(m) : ComponentOf(p) \in S}

\* The plan's items so far: one for each path, and none of a forbidden file.
Planned(items, r) ==
  /\ \A i, j \in items : i.path = j.path => i = j
  /\ \A i \in items : i.path \in PathSet /\ (i.tag # "OMITTED" => i.path \notin r.forbidden)

\* The files seen so far have their items, and are not too many.
Seen(acc, r, m, why) ==
  /\ acc.seen \subseteq DOMAIN m.files
  /\ acc.seen \subseteq Stated(r) \cup FilesIn(m, DOMAIN why)
  /\ \A i \in acc.items : i.path \in acc.seen \/ i.path \in Stated(r) \ DOMAIN m.files
  /\ \A p \in acc.seen \ (Stated(r) \cup r.forbidden \cup SecretPaths) :
       \E i \in acc.items : i.path = p /\ i.tag \in Picked
  /\ Cardinality(Stated(r)) <= r.maxExcerpts => Cardinality(acc.seen) <= r.maxExcerpts

\* The invariant of TakeFiles: the first items are there, one item for each path, none
\* of a forbidden file, and an item for every file seen.
Kept(acc, r, m, why) ==
  /\ acc \in FileAccs
  /\ ToSet(FirstItems(r, m)) \subseteq acc.items
  /\ Planned(acc.items, r)
  /\ Seen(acc, r, m, why)

\* There are finitely many paths.
LEMMA PathsFinite ==
  /\ IsFiniteSet(PathSet)
  /\ \A S \in SUBSET PathSet : IsFiniteSet(S) /\ Cardinality(S) \in Nat
<1>1. IsFiniteSet(PathSet)
  <2>1. PathSet = ToSet(Paths)
    BY DEF PathSet, ToSet
  <2> QED BY <2>1, PathsAssumption, SeqIsFinite
<1>2. ASSUME NEW S \in SUBSET PathSet PROVE IsFiniteSet(S) /\ Cardinality(S) \in Nat
  <2>1. IsFiniteSet(S)
    BY <1>1, FS_Subset
  <2> QED BY <2>1, FS_CardinalityType
<1> QED BY <1>1, <1>2

\* A file is omitted if it is forbidden or secret, and picked otherwise.
LEMMA FileTagIs ==
  ASSUME NEW r, NEW p, NEW why
  PROVE  /\ FileTag(r, p, why) \in Picked \cup {"OMITTED"}
         /\ FileTag(r, p, why) = "OMITTED" <=> p \in r.forbidden \cup SecretPaths
<1>1. CASE p \in r.forbidden \cup SecretPaths
  BY <1>1 DEF FileTag
<1>2. CASE p \notin r.forbidden \cup SecretPaths
  <2>1. FileTag(r, p, why) \in Picked
    BY <1>2 DEF FileTag, Picked
  <2>2. "OMITTED" \notin Picked
    BY DEF Picked
  <2> QED BY <1>2, <2>1, <2>2
<1> QED BY <1>1, <1>2

\* One more file.
LEMMA FileKept ==
  ASSUME NEW r \in Requests, NEW m, IsModel(m), NEW why, NEW acc, Kept(acc, r, m, why),
         NEW p \in FilesIn(m, DOMAIN why)
  PROVE  LET out == FileNext(<<r, why>>, p, acc)
         IN  /\ Kept(out, r, m, why) /\ acc.seen \subseteq out.seen /\ out.stop = acc.stop
             /\ ~out.cut => ~acc.cut /\ p \in out.seen
<1> DEFINE c == <<r, why>>
           out == FileNext(c, p, acc)
           item == Item(p, ComponentOf(p), FileTag(r, p, why[ComponentOf(p)]))
<1>1. c[1] = r /\ c[2] = why
  OBVIOUS
<1> HIDE DEF c
<1>2. acc \in FileAccs
  BY DEF Kept
<1>3. /\ acc.seen \subseteq PathSet /\ acc.items \subseteq Items /\ acc.cut \in BOOLEAN /\ acc.stop \in BOOLEAN
      /\ DOMAIN acc = {"seen", "items", "cut", "stop"}
  BY <1>2 DEF FileAccs
<1>4. p \in PathSet /\ p \in DOMAIN m.files /\ p \in OwnedFiles(m)
  BY OwnersAreComponents DEF FilesIn, OwnedFiles
<1>5. CASE Cardinality(acc.seen) >= r.maxExcerpts
  <2>1. out = [acc EXCEPT !.cut = TRUE]
    BY <1>1, <1>5 DEF FileNext
  <2> HIDE DEF out
  <2>2. out \in FileAccs
    BY <1>2, <2>1 DEF FileAccs
  <2>3. out.seen = acc.seen /\ out.items = acc.items /\ out.stop = acc.stop /\ out.cut = TRUE
    BY <1>3, <2>1
  <2>4. Kept(out, r, m, why)
    BY <2>2, <2>3 DEF Kept, Seen
  <2> QED BY <2>3, <2>4 DEF out, c
<1>6. CASE ~(Cardinality(acc.seen) >= r.maxExcerpts) /\ p \in acc.seen
  <2>1. out = acc
    BY <1>1, <1>6 DEF FileNext
  <2> HIDE DEF out
  <2> QED BY <1>6, <2>1 DEF out, c
<1>7. CASE ~(Cardinality(acc.seen) >= r.maxExcerpts) /\ p \notin acc.seen
  <2>1. out = [acc EXCEPT !.seen = @ \cup {p}, !.items = @ \cup {item}]
    BY <1>1, <1>7 DEF FileNext
  <2>2. item.path = p /\ item.tag \in Picked \cup {"OMITTED"}
        /\ (item.tag = "OMITTED" <=> p \in r.forbidden \cup SecretPaths)
    BY FileTagIs DEF Item
  <2>3. item \in Items
    <3>1. ComponentOf(p) \in Components
      BY <1>4, ComponentsAssumption DEF Components
    <3>2. FileTag(r, p, why[ComponentOf(p)]) \in Tags
      BY FileTagIs DEF Picked, Tags
    <3> QED BY <1>4, <3>1, <3>2 DEF Item, Items
  <2> HIDE DEF out, item
  <2>4. out.seen = acc.seen \cup {p} /\ out.items = acc.items \cup {item} /\ out.stop = acc.stop
        /\ out.cut = acc.cut
    BY <1>3, <2>1
  <2>5. out \in FileAccs
    <3>1. acc.seen \cup {p} \subseteq PathSet /\ acc.items \cup {item} \subseteq Items
      BY <1>3, <1>4, <2>3
    <3> QED BY <1>2, <2>1, <3>1 DEF FileAccs
  <2>6. Planned(out.items, r)
    <3>1. Planned(acc.items, r) /\ \A i \in acc.items : i.path \in acc.seen \/ i.path \in Stated(r) \ DOMAIN m.files
      BY DEF Kept, Seen
    <3>2. \A i \in acc.items : i.path # p
      BY <1>4, <1>7, <3>1
    <3> QED BY <1>4, <2>2, <2>4, <3>1, <3>2 DEF Planned
  <2>7. Cardinality(out.seen) <= r.maxExcerpts
    <3>1. Cardinality(acc.seen) \in Nat /\ IsFiniteSet(acc.seen) /\ r.maxExcerpts \in Nat
      BY <1>3, PathsFinite DEF Requests
    <3>2. Cardinality(acc.seen \cup {p}) = Cardinality(acc.seen) + 1
      BY <1>7, <3>1, FS_AddElement
    <3> QED BY <1>7, <2>4, <3>1, <3>2
  <2>8. Seen(out, r, m, why)
    <3>1. Seen(acc, r, m, why)
      BY DEF Kept
    <3>2. /\ out.seen \subseteq DOMAIN m.files
          /\ out.seen \subseteq Stated(r) \cup FilesIn(m, DOMAIN why)
      BY <1>4, <2>4, <3>1 DEF Seen
    <3>3. \A i \in out.items : i.path \in out.seen \/ i.path \in Stated(r) \ DOMAIN m.files
      BY <2>2, <2>4, <3>1 DEF Seen
    <3>4. ASSUME NEW q \in out.seen \ (Stated(r) \cup r.forbidden \cup SecretPaths)
          PROVE  \E i \in out.items : i.path = q /\ i.tag \in Picked
      <4>1. CASE q = p
        BY <2>2, <2>4, <3>4, <4>1
      <4>2. CASE q # p
        BY <2>4, <3>1, <3>4, <4>2 DEF Seen
      <4> QED BY <4>1, <4>2
    <3> QED BY <2>7, <3>2, <3>3, <3>4 DEF Seen
  <2>9. Kept(out, r, m, why)
    BY <2>4, <2>5, <2>6, <2>8 DEF Kept
  <2> QED BY <2>4, <2>9 DEF out, c
<1> QED BY <1>5, <1>6, <1>7

\* The files of one component.
LEMMA FilesKept ==
  ASSUME NEW r \in Requests, NEW m, IsModel(m), NEW why, NEW acc, Kept(acc, r, m, why),
         NEW files \in Seq(PathSet), ToSet(files) \subseteq FilesIn(m, DOMAIN why)
  PROVE  LET out == FileFold(r, why, acc, files)
         IN  /\ Kept(out, r, m, why) /\ acc.seen \subseteq out.seen
             /\ ~out.cut => ~acc.cut /\ ToSet(files) \subseteq out.seen
<1> DEFINE c == <<r, why>>
           upTo(k) == {files[i] : i \in 1..k}
           Fine(k, a) == /\ Kept(a, r, m, why) /\ acc.seen \subseteq a.seen
                         /\ ~a.cut => ~acc.cut /\ upTo(k) \subseteq a.seen
           sets == [k \in 0..Len(files) |-> {a \in FileAccs : Fine(k, a)}]
<1>1. Len(files) \in Nat /\ DOMAIN files = 1..Len(files)
  OBVIOUS
<1>2. acc \in sets[0]
  <2>1. upTo(0) = {} /\ 0 \in 0..Len(files)
    BY <1>1
  <2>2. acc \in FileAccs
    BY DEF Kept
  <2> HIDE DEF upTo
  <2> QED BY <2>1, <2>2
<1>3. ASSUME NEW k \in 1..Len(files), NEW a \in sets[k - 1]
      PROVE  FileNext(c, files[k], a) \in sets[k]
  <2>1. k \in 0..Len(files) /\ k - 1 \in 0..Len(files) /\ k \in Nat /\ k >= 1
    BY <1>1
  <2>2. Fine(k - 1, a)
    BY <2>1
  <2>3. files[k] \in FilesIn(m, DOMAIN why)
    BY <1>1 DEF ToSet
  <2>4. upTo(k) = upTo(k - 1) \cup {files[k]}
    BY <2>1
  <2> DEFINE out == FileNext(c, files[k], a)
  <2>5. /\ Kept(out, r, m, why) /\ a.seen \subseteq out.seen
        /\ ~out.cut => ~a.cut /\ files[k] \in out.seen
    BY <2>2, <2>3, FileKept
  <2> HIDE DEF out, upTo
  <2>6. Fine(k, out)
    BY <2>2, <2>4, <2>5
  <2>7. out \in FileAccs
    BY <2>5 DEF Kept
  <2> HIDE DEF Fine
  <2>8. out \in sets[k]
    BY <2>1, <2>6, <2>7
  <2> QED BY <2>8 DEF out
<1> DEFINE out == FileSteps!Fold(c, acc, files)
<1>4. out \in sets[Len(files)]
  <2> HIDE DEF sets, c
  <2>1. FileSteps!Keeps(sets, c, acc, files)
    BY <1>2, <1>3 DEF FileSteps!Keeps
  <2> QED BY <2>1, FileSteps!FoldKeeps
<1>5. FileFold(r, why, acc, files) = out
  <2>1. c[1] = r /\ c[2] = why
    OBVIOUS
  <2> HIDE DEF c
  <2>2. FileFold(c[1], c[2], acc, files) = out
    BY FilesAreFold
  <2> QED BY <2>1, <2>2
<1>6. upTo(Len(files)) = ToSet(files)
  BY <1>1 DEF ToSet
<1>7. Fine(Len(files), out)
  <2>1. Len(files) \in 0..Len(files)
    BY <1>1
  <2> HIDE DEF Fine, out
  <2> QED BY <1>4, <2>1
<1> HIDE DEF upTo, out
<1> QED BY <1>5, <1>6, <1>7

\* Files are left out only with a doubt, or when there are enough.
Taken(acc, files, r) ==
  /\ acc.stop => Cardinality(acc.seen) >= r.maxExcerpts
  /\ ~acc.cut => Cardinality(acc.seen) >= r.maxExcerpts \/ files \subseteq acc.seen

\* One more component.
LEMMA ComponentKept ==
  ASSUME NEW r \in Requests, NEW m, IsModel(m), NEW why, NEW acc, Kept(acc, r, m, why),
         NEW files, Taken(acc, files, r), NEW x \in DOMAIN why
  PROVE  LET out == ComponentNext(<<r, m, why>>, x, acc)
         IN  Kept(out, r, m, why) /\ Taken(out, files \cup FilesIn(m, {x}), r)
<1> DEFINE c == <<r, m, why>>
           out == ComponentNext(c, x, acc)
           of == FilesOf(m, x)
           taken == FileFold(r, why, acc, of)
<1>1. c[1] = r /\ c[2] = m /\ c[3] = why
  OBVIOUS
<1> HIDE DEF c
<1>2. acc \in FileAccs /\ acc.stop \in BOOLEAN
  BY DEF Kept, FileAccs
<1>3. CASE acc.stop
  <2>1. out = acc
    BY <1>1, <1>3, Zenon DEF ComponentNext
  <2> HIDE DEF out
  <2>2. Taken(acc, files \cup FilesIn(m, {x}), r)
    BY <1>3 DEF Taken
  <2> QED BY <2>1, <2>2 DEF out, c
<1>4. CASE ~acc.stop
  <2>1. of \in Seq(PathSet) /\ ToSet(of) = FilesIn(m, {x})
    <3>1. OwnedFiles(m) \subseteq PathSet
      BY OwnersAreComponents
    <3>2. of \in Seq(PathSet) /\ ToSet(of) = PathSet \cap {p \in OwnedFiles(m) : ComponentOf(p) = x}
      BY OrderedElements DEF FilesOf
    <3> HIDE DEF of
    <3> QED BY <3>1, <3>2 DEF FilesIn
  <2>2. ToSet(of) \subseteq FilesIn(m, DOMAIN why)
    <3> HIDE DEF of
    <3> QED BY <2>1 DEF FilesIn
  <2>3. /\ Kept(taken, r, m, why) /\ acc.seen \subseteq taken.seen
        /\ ~taken.cut => ~acc.cut /\ ToSet(of) \subseteq taken.seen
    <3> HIDE DEF of
    <3> QED BY <2>1, <2>2, FilesKept
  <2> DEFINE full == Cardinality(taken.seen) >= r.maxExcerpts
  <2>4. out = [taken EXCEPT !.stop = full]
    BY <1>1, <1>4 DEF ComponentNext
  <2>5. full \in BOOLEAN
    OBVIOUS
  <2> HIDE DEF out, taken, of
  <2>6. taken \in FileAccs
    BY <2>3 DEF Kept
  <2>7. out \in FileAccs /\ out.seen = taken.seen /\ out.items = taken.items /\ out.cut = taken.cut
        /\ out.stop = full
    BY <2>4, <2>5, <2>6 DEF FileAccs
  <2>8. Kept(out, r, m, why)
    BY <2>3, <2>7 DEF Kept, Seen
  <2>9. Cardinality(acc.seen) >= r.maxExcerpts => Cardinality(taken.seen) >= r.maxExcerpts
    <3>1. acc.seen \in SUBSET taken.seen /\ taken.seen \in SUBSET PathSet /\ acc.seen \in SUBSET PathSet
      BY <1>2, <2>3, <2>6 DEF FileAccs
    <3>2. IsFiniteSet(taken.seen) /\ Cardinality(taken.seen) \in Nat /\ Cardinality(acc.seen) \in Nat
      BY <3>1, PathsFinite
    <3>3. Cardinality(acc.seen) <= Cardinality(taken.seen)
      BY <3>1, <3>2, FS_Subset
    <3>4. r.maxExcerpts \in Nat
      BY DEF Requests
    <3> QED BY <3>2, <3>3, <3>4
  <2>10. ASSUME ~out.cut
         PROVE  Cardinality(out.seen) >= r.maxExcerpts \/ files \cup FilesIn(m, {x}) \subseteq out.seen
    <3>1. ~taken.cut
      BY <2>7, <2>10
    <3>2. ~acc.cut /\ FilesIn(m, {x}) \subseteq taken.seen
      BY <2>1, <2>3, <3>1
    <3>3. Cardinality(acc.seen) >= r.maxExcerpts \/ files \subseteq acc.seen
      BY <3>2 DEF Taken
    <3> QED BY <2>3, <2>7, <2>9, <3>2, <3>3
  <2>11. out.stop => Cardinality(out.seen) >= r.maxExcerpts
    BY <2>7
  <2>12. Taken(out, files \cup FilesIn(m, {x}), r)
    BY <2>10, <2>11 DEF Taken
  <2> QED BY <2>8, <2>12 DEF out, c
<1> QED BY <1>2, <1>3, <1>4

\* The items of the paths of the request.
LEMMA FirstKept ==
  ASSUME NEW r \in Requests, RequestAccepted(r), NEW m, IsModel(m), NEW why
  PROVE  LET acc == FirstAcc(m, FirstItems(r, m))
         IN  Kept(acc, r, m, why) /\ Taken(acc, {}, r)
<1> DEFINE items == FirstItems(r, m)
           acc == FirstAcc(m, items)
<1>1. /\ items \in Seq(Items)
      /\ ToSet(items) = {SeedItem(m, p) : p \in r.seeds} \cup {AllowedItem(m, p) : p \in Listed(r, m)}
  BY FirstItemsAre
<1>2. \A p : SeedItem(m, p).path = p /\ AllowedItem(m, p).path = p
  BY DEF SeedItem, AllowedItem, Item
<1>3. r.seeds \subseteq PathSet /\ r.allowed \subseteq PathSet /\ r.maxExcerpts \in Nat
  BY DEF Requests
<1>4. r.seeds \cap Listed(r, m) = {} /\ Listed(r, m) \subseteq r.allowed
  BY DEF Listed
<1>5. Stated(r) \cap r.forbidden = {}
  BY DEF Stated, RequestAccepted
<1> HIDE DEF items
<1>6. /\ acc.seen = {i.path : i \in ToSet(items)} \cap DOMAIN m.files /\ acc.items = ToSet(items)
      /\ ~acc.cut /\ ~acc.stop
  BY DEF FirstAcc, ToSet
<1>7. \A i \in ToSet(items) : i.path \in Stated(r)
  BY <1>1, <1>2, <1>4 DEF Stated
<1>8. acc.seen \subseteq Stated(r) /\ Stated(r) \subseteq PathSet
  BY <1>3, <1>6, <1>7 DEF Stated
<1>9. acc \in FileAccs
  <2>1. acc = [seen |-> acc.seen, items |-> acc.items, cut |-> FALSE, stop |-> FALSE]
    BY DEF FirstAcc
  <2>2. ToSet(items) \subseteq Items
    BY <1>1, ElementOfSeq DEF ToSet
  <2>3. acc.seen \in SUBSET PathSet /\ acc.items \in SUBSET Items
    BY <1>6, <1>8, <2>2
  <2>4. \A a \in SUBSET PathSet, b \in SUBSET Items :
          [seen |-> a, items |-> b, cut |-> FALSE, stop |-> FALSE] \in FileAccs
    BY DEF FileAccs
  <2> HIDE DEF acc
  <2> QED BY <2>1, <2>3, <2>4
<1> HIDE DEF acc
<1>10. Planned(acc.items, r)
  <2>1. ASSUME NEW i \in ToSet(items), NEW j \in ToSet(items), i.path = j.path PROVE i = j
    <3>1. CASE \E p \in r.seeds, q \in r.seeds : i = SeedItem(m, p) /\ j = SeedItem(m, q)
      BY <1>2, <2>1, <3>1
    <3>2. CASE \E p \in Listed(r, m), q \in Listed(r, m) : i = AllowedItem(m, p) /\ j = AllowedItem(m, q)
      BY <1>2, <2>1, <3>2
    <3>3. CASE \E p \in r.seeds, q \in Listed(r, m) :
                 (i = SeedItem(m, p) /\ j = AllowedItem(m, q)) \/ (j = SeedItem(m, p) /\ i = AllowedItem(m, q))
      BY <1>2, <1>4, <2>1, <3>3
    <3> QED BY <1>1, <3>1, <3>2, <3>3
  <2>2. \A i \in ToSet(items) : i.path \in PathSet /\ i.path \notin r.forbidden
    BY <1>5, <1>7, <1>8
  <2> QED BY <1>6, <2>1, <2>2 DEF Planned
<1>11. Cardinality(Stated(r)) <= r.maxExcerpts => Cardinality(acc.seen) <= r.maxExcerpts
  <2>1. /\ Stated(r) \in SUBSET PathSet /\ acc.seen \in SUBSET Stated(r) /\ acc.seen \in SUBSET PathSet
    BY <1>8
  <2>2. IsFiniteSet(Stated(r)) /\ Cardinality(Stated(r)) \in Nat /\ Cardinality(acc.seen) \in Nat
    BY <2>1, PathsFinite
  <2>3. Cardinality(acc.seen) <= Cardinality(Stated(r))
    BY <2>1, <2>2, FS_Subset
  <2> QED BY <1>3, <2>2, <2>3
<1>12. Seen(acc, r, m, why)
  <2>1. \A i \in acc.items : i.path \in acc.seen \/ i.path \in Stated(r) \ DOMAIN m.files
    BY <1>6, <1>7
  <2>2. acc.seen \subseteq DOMAIN m.files /\ acc.seen \subseteq Stated(r) \cup FilesIn(m, DOMAIN why)
    BY <1>6, <1>8
  <2>3. acc.seen \ (Stated(r) \cup r.forbidden \cup SecretPaths) = {}
    BY <1>8
  <2> QED BY <1>11, <2>1, <2>2, <2>3 DEF Seen
<1>13. Kept(acc, r, m, why)
  BY <1>6, <1>9, <1>10, <1>12 DEF Kept, items
<1>14. Taken(acc, {}, r)
  BY <1>6 DEF Taken
<1> QED BY <1>13, <1>14 DEF acc, items

\* All the files.
LEMMA AllFilesKept ==
  ASSUME NEW r \in Requests, RequestAccepted(r), NEW m, IsModel(m), NEW why, DOMAIN why \subseteq Components
  PROVE  LET out == TakeFiles(r, m, why, FirstItems(r, m))
         IN  Kept(out, r, m, why) /\ Taken(out, FilesIn(m, DOMAIN why), r)
<1> DEFINE c == <<r, m, why>>
           comps == OrderedComponents(DOMAIN why)
           base == FirstAcc(m, FirstItems(r, m))
           upTo(k) == {comps[i] : i \in 1..k}
           Fine(k, a) == Kept(a, r, m, why) /\ Taken(a, FilesIn(m, upTo(k)), r)
           sets == [k \in 0..Len(comps) |-> {a \in FileAccs : Fine(k, a)}]
<1>1. comps \in Seq(Components) /\ ToSet(comps) = DOMAIN why
  <2>1. comps \in Seq(Components) /\ ToSet(comps) = Components \cap DOMAIN why
    BY OrderedComponentsElements
  <2> HIDE DEF comps
  <2> QED BY <2>1
<1> HIDE DEF comps
<1>2. Len(comps) \in Nat /\ DOMAIN comps = 1..Len(comps)
  BY <1>1
<1>3. base \in sets[0]
  <2>1. FilesIn(m, upTo(0)) = {} /\ 0 \in 0..Len(comps)
    BY <1>2 DEF FilesIn
  <2>2. Kept(base, r, m, why) /\ Taken(base, {}, r)
    BY FirstKept
  <2> HIDE DEF base, upTo
  <2>3. base \in FileAccs
    BY <2>2 DEF Kept
  <2> QED BY <2>1, <2>2, <2>3
<1>4. ASSUME NEW k \in 1..Len(comps), NEW a \in sets[k - 1]
      PROVE  ComponentNext(c, comps[k], a) \in sets[k]
  <2>1. k \in 0..Len(comps) /\ k - 1 \in 0..Len(comps) /\ k \in Nat /\ k >= 1
    BY <1>2
  <2>2. Fine(k - 1, a)
    BY <2>1
  <2>3. comps[k] \in DOMAIN why
    BY <1>1, <1>2 DEF ToSet
  <2>4. FilesIn(m, upTo(k)) = FilesIn(m, upTo(k - 1)) \cup FilesIn(m, {comps[k]})
    <3>1. upTo(k) = upTo(k - 1) \cup {comps[k]}
      BY <2>1
    <3> HIDE DEF upTo
    <3> QED BY <3>1 DEF FilesIn
  <2> DEFINE out == ComponentNext(c, comps[k], a)
             before == FilesIn(m, upTo(k - 1))
  <2> HIDE DEF before
  <2>5. Kept(a, r, m, why) /\ Taken(a, before, r)
    BY <2>2 DEF before
  <2>6. Kept(out, r, m, why) /\ Taken(out, before \cup FilesIn(m, {comps[k]}), r)
    BY <2>3, <2>5, ComponentKept
  <2> HIDE DEF out, upTo
  <2>7. Fine(k, out)
    BY <2>4, <2>6 DEF before
  <2>8. out \in FileAccs
    BY <2>6 DEF Kept
  <2> HIDE DEF Fine
  <2>9. out \in sets[k]
    BY <2>1, <2>7, <2>8
  <2> QED BY <2>9 DEF out
<1> DEFINE out == ComponentSteps!Fold(c, base, comps)
<1>5. out \in sets[Len(comps)]
  <2> HIDE DEF sets, c, base
  <2>1. ComponentSteps!Keeps(sets, c, base, comps)
    BY <1>3, <1>4 DEF ComponentSteps!Keeps
  <2> QED BY <1>1, <2>1, ComponentSteps!FoldKeeps
<1>6. TakeFiles(r, m, why, FirstItems(r, m)) = out
  <2>1. c[1] = r /\ c[2] = m /\ c[3] = why
    OBVIOUS
  <2> HIDE DEF c
  <2>2. \A items : TakeFiles(c[1], c[2], c[3], items)
          = ComponentSteps!Fold(c, FirstAcc(c[2], items), OrderedComponents(DOMAIN c[3]))
    BY TakeFilesIsFold
  <2> QED BY <2>1, <2>2 DEF comps
<1>7. upTo(Len(comps)) = DOMAIN why
  BY <1>1, <1>2 DEF ToSet
<1>8. Fine(Len(comps), out)
  <2>1. Len(comps) \in 0..Len(comps)
    BY <1>2
  <2> HIDE DEF Fine, out
  <2> QED BY <1>5, <2>1
<1> HIDE DEF upTo, out
<1> QED BY <1>6, <1>7, <1>8

-----------------------------------------------------------------------------
(* The plan.                                                               *)

\* The paths of the items with a tag.
With(items, tag) == PathSet \cap {i.path : i \in {j \in items : j.tag = tag}}

\* The paths of all items that are read.
PickedOf(items) == With(items, "REQUIRED") \cup With(items, "POSSIBLE") \cup With(items, "SUPPORTING")

\* The files of the components near the task that may be shown, and all that are considered.
Wanted(r, m) == FilesIn(m, Near(r, m)) \ (r.forbidden \cup SecretPaths)

\* The files of all the components the plan looks at, and the paths of the request.
Considered(r, m) == FilesIn(m, Near(r, m) \cup Impact(m, Stated(r)).components) \cup Stated(r)

\* Every file has a component.
LEMMA ComponentIsNamed ==
  ASSUME NEW p \in PathSet
  PROVE  ComponentOf(p) # NoComponent
<1>1. \A x, y : <<x>> # << >> /\ <<x, y>> # << >>
  OBVIOUS
<1>2. ComponentOf(p) \in {<<"backend", "continuous_builder">>, <<"backend">>, <<"backend", p[2]>>, <<p[1]>>,
                          <<"root">>, <<"other", p[1]>>}
  <2>1. CASE p[1] = "backend" /\ Len(p) >= 2
    <3>1. p[1] \notin TopLevel
      BY <2>1 DEF TopLevel
    <3>2. Len(p) # 1
      <4>1. p \in Seq(STRING)
        BY PathsAssumption
      <4>2. Len(p) \in Nat
        BY <4>1, LenProperties
      <4>3. \A l \in Nat : l >= 2 => l # 1
        OBVIOUS
      <4> QED BY <2>1, <4>2, <4>3, Zenon
    <3> QED BY <2>1, <3>1, <3>2, Zenon DEF ComponentOf
  <2>2. CASE ~(p[1] = "backend" /\ Len(p) >= 2) /\ p[1] \in TopLevel
    BY <2>2, Zenon DEF ComponentOf
  <2>3. CASE ~(p[1] = "backend" /\ Len(p) >= 2) /\ p[1] \notin TopLevel /\ Len(p) = 1
    BY <2>3, Zenon DEF ComponentOf
  <2>4. CASE ~(p[1] = "backend" /\ Len(p) >= 2) /\ p[1] \notin TopLevel /\ Len(p) # 1
    BY <2>4, Zenon DEF ComponentOf
  <2> QED BY <2>1, <2>2, <2>3, <2>4
<1> QED BY <1>1, <1>2 DEF NoComponent

\* Without a doubt, every path of the request is a file of a component and no secret.
Clear(r, m) ==
  /\ Stated(r) \subseteq OwnedFiles(m)
  /\ Stated(r) \cap SecretPaths = {}

\* A plan without a doubt is for a request whose paths are all clear.
LEMMA NoDoubtIsClear ==
  ASSUME NEW r \in Requests, NEW m, IsModel(m),
         FirstDoubts(r, m) = {}, Impact(m, Stated(r)).uncertain = {}
  PROVE  Clear(r, m)
<1>1. Stated(r) \subseteq PathSet
  BY DEF Stated, Requests
<1>2. ASSUME NEW p \in Stated(r) PROVE p \in OwnedFiles(m) /\ p \notin SecretPaths
  <2>1. p \in DOMAIN m.files
    BY <1>2 DEF FirstDoubts, Stated
  <2>2. p \notin SecretPaths
    BY <1>2, <2>1 DEF FirstDoubts, Stated
  <2>3. OwnerOf(m, p) \notin Uncertain
    <3> DEFINE owners == {OwnerOf(m, q) : q \in Stated(r)}
    <3>1. owners \cap Uncertain \subseteq Impact(m, Stated(r)).uncertain
      BY DEF Impact
    <3>2. OwnerOf(m, p) \in owners
      BY <1>2
    <3> HIDE DEF owners
    <3> QED BY <3>1, <3>2
  <2>4. p \in PathSet
    BY <1>1, <1>2
  <2> QED BY <2>2, <2>3, <2>4, OwnerFacts
<1> QED BY <1>2 DEF Clear

\* The owners that the first items name.
LEMMA NamedAreOwners ==
  ASSUME NEW r \in Requests, NEW m, IsModel(m)
  PROVE  /\ Named(r, FirstItems(r, m)) \subseteq OwnersOf(r, m)
         /\ Clear(r, m) => /\ Named(r, FirstItems(r, m)) = OwnersOf(r, m)
                           /\ \A p \in Stated(r) :
                                \E i \in ToSet(FirstItems(r, m)) : i.path = p /\ i.tag = "REQUIRED"
<1> DEFINE items == ToSet(FirstItems(r, m))
           seedItems == {SeedItem(m, p) : p \in r.seeds}
           allowedItems == {AllowedItem(m, p) : p \in Listed(r, m)}
<1>1. items = seedItems \cup allowedItems
  BY FirstItemsAre
<1>2. Named(r, FirstItems(r, m)) = r.components \cup ({i.component : i \in items} \ {NoComponent})
  BY DEF Named
<1>3. r.seeds \subseteq PathSet /\ r.allowed \subseteq PathSet /\ Listed(r, m) \subseteq r.allowed
  BY DEF Requests, Listed
<1>4. \A p \in PathSet : SeedItem(m, p).component \in {OwnerOf(m, p), NoComponent}
  BY DEF SeedItem, Item
<1>5. \A p \in PathSet : AllowedItem(m, p).component \in {OwnerOf(m, p), NoComponent}
  BY DEF AllowedItem, Item
<1>6. Named(r, FirstItems(r, m)) \subseteq OwnersOf(r, m)
  <2>1. ASSUME NEW i \in items, i.component # NoComponent PROVE i.component \in OwnersOf(r, m)
    <3>1. CASE i \in seedItems
      <4>1. PICK p \in r.seeds : i = SeedItem(m, p)
        BY <3>1
      <4> QED BY <1>3, <1>4, <2>1, <4>1 DEF OwnersOf
    <3>2. CASE i \in allowedItems
      <4>1. PICK p \in Listed(r, m) : i = AllowedItem(m, p)
        BY <3>2
      <4> QED BY <1>3, <1>5, <2>1, <4>1 DEF OwnersOf
    <3> QED BY <1>1, <3>1, <3>2
  <2>2. r.components \subseteq OwnersOf(r, m)
    BY DEF OwnersOf
  <2> HIDE DEF items
  <2> QED BY <1>2, <2>1, <2>2
<1>7. ASSUME Clear(r, m), NEW p \in Stated(r)
      PROVE  \E i \in items : i.path = p /\ i.tag = "REQUIRED" /\ i.component = OwnerOf(m, p)
                              /\ OwnerOf(m, p) # NoComponent
  <2>1. p \in PathSet /\ p \in OwnedFiles(m) /\ p \in DOMAIN m.files /\ p \notin SecretPaths
    BY <1>3, <1>7 DEF Clear, Stated, OwnedFiles
  <2>2. OwnerOf(m, p) = ComponentOf(p) /\ OwnerOf(m, p) \notin Uncertain
    BY <2>1, OwnerFacts
  <2>3. OwnerOf(m, p) # NoComponent
    BY <2>1, <2>2, ComponentIsNamed
  <2>4. CASE p \in r.seeds
    <3>1. SeedItem(m, p) = Item(p, OwnerOf(m, p), "REQUIRED")
      BY <2>1, <2>2 DEF SeedItem
    <3>2. SeedItem(m, p) \in items
      BY <1>1, <2>4
    <3> HIDE DEF items
    <3> QED BY <2>3, <3>1, <3>2 DEF Item
  <2>5. CASE p \notin r.seeds
    <3>1. p \in Listed(r, m)
      BY <1>7, <2>1, <2>5 DEF Stated, Listed
    <3>2. AllowedItem(m, p) = Item(p, OwnerOf(m, p), "REQUIRED")
      BY <2>1, <2>2 DEF AllowedItem
    <3>3. AllowedItem(m, p) \in items
      BY <1>1, <3>1
    <3> HIDE DEF items
    <3> QED BY <2>3, <3>2, <3>3 DEF Item
  <2> QED BY <2>4, <2>5
<1>8. ASSUME Clear(r, m) PROVE OwnersOf(r, m) \subseteq Named(r, FirstItems(r, m))
  <2>1. ASSUME NEW p \in Stated(r) PROVE OwnerOf(m, p) \in Named(r, FirstItems(r, m))
    <3>1. PICK i \in items : i.component = OwnerOf(m, p) /\ OwnerOf(m, p) # NoComponent
      BY <1>7, <1>8, <2>1
    <3> HIDE DEF items
    <3> QED BY <1>2, <3>1
  <2> QED BY <1>2, <2>1 DEF OwnersOf, Stated
<1> QED BY <1>6, <1>7, <1>8

\* The components considered.
LEMMA NeighbourhoodIs ==
  ASSUME NEW r \in Requests, NEW m, IsModel(m)
  PROVE  LET seeds == SeedComponents(r, FirstItems(r, m))
             near == Expand(m, seeds, r.depth, r.maxComponents)
             why == Neighbourhood(r, m, seeds)
         IN  /\ near \subseteq DOMAIN why /\ DOMAIN why \subseteq Components
             /\ DOMAIN why \subseteq Near(r, m) \cup Impact(m, Stated(r)).components
             /\ ToSet(seeds) \subseteq Components
             /\ Clear(r, m) /\ ~(Cardinality(near) >= r.maxComponents) => near = Near(r, m)
<1> DEFINE items == FirstItems(r, m)
           seeds == SeedComponents(r, items)
           near == Expand(m, seeds, r.depth, r.maxComponents)
           why == Neighbourhood(r, m, seeds)
<1>1. items \in Seq(Items)
  BY FirstItemsAre
<1>2. r.maxComponents \in Nat /\ Stated(r) \in SUBSET PathSet
  BY DEF Requests, Stated
<1> HIDE DEF items
<1>3. /\ seeds \in Seq(Components) /\ Distinct(seeds)
      /\ ToSet(seeds) \subseteq Named(r, items)
      /\ Len(seeds) < r.maxComponents => ToSet(seeds) = Named(r, items)
  BY <1>1, SeedComponentsAre
<1>4. Named(r, items) \subseteq OwnersOf(r, m) /\ (Clear(r, m) => Named(r, items) = OwnersOf(r, m))
  BY NamedAreOwners DEF items
<1>5. ToSet(seeds) \subseteq OwnersOf(r, m)
  BY <1>3, <1>4
<1> HIDE DEF seeds
<1>6. /\ near \subseteq Components /\ ToSet(seeds) \subseteq near /\ near \subseteq Near(r, m)
      /\ Cardinality(near) < r.maxComponents /\ ToSet(seeds) = OwnersOf(r, m) => near = Near(r, m)
  BY <1>3, <1>5, ExpandedIsNear
<1> DEFINE impacted == OrderedComponents(Impact(m, r.seeds \cup r.allowed).components \ near)
           room == IF Cardinality(near) < r.maxComponents THEN r.maxComponents - Cardinality(near) ELSE 0
           possible == ToSet(UpTo(impacted, room))
<1>7. Cardinality(near) \in Nat /\ IsFiniteSet(near)
  BY <1>6, ComponentsFinite
<1>8. room \in Nat
  <2> DEFINE n == Cardinality(near)
             b == r.maxComponents
             o == IF n < b THEN b - n ELSE 0
  <2>1. n \in Nat /\ b \in Nat
    BY <1>2, <1>7
  <2> HIDE DEF n, b
  <2>2. o \in Nat
    BY ONLY <2>1
  <2> QED BY <2>2 DEF n, b
<1>9. possible \subseteq Components /\ possible \subseteq Impact(m, Stated(r)).components
  <2> HIDE DEF room, near
  <2>1. impacted \in Seq(Components)
        /\ ToSet(impacted) = Components \cap (Impact(m, r.seeds \cup r.allowed).components \ near)
    BY OrderedComponentsElements
  <2> HIDE DEF impacted
  <2>2. possible \subseteq ToSet(impacted)
    BY <1>8, <2>1, UpToFacts
  <2> HIDE DEF possible
  <2> QED BY <2>1, <2>2 DEF Stated
<1>10. DOMAIN why = near \cup possible
  BY Zenon DEF Neighbourhood
<1> HIDE DEF possible, near, why
<1>11. ASSUME Clear(r, m), ~(Cardinality(near) >= r.maxComponents) PROVE near = Near(r, m)
  <2>1. Cardinality(near) < r.maxComponents
    BY <1>2, <1>7, <1>11
  <2>2. Cardinality(ToSet(seeds)) = Len(seeds) /\ Len(seeds) \in Nat
    BY <1>3, DistinctLength
  <2>3. Cardinality(ToSet(seeds)) <= Cardinality(near)
    BY <1>6, <1>7, FS_Subset
  <2>4. Len(seeds) < r.maxComponents
    BY <1>2, <1>7, <2>1, <2>2, <2>3
  <2> QED BY <1>3, <1>4, <1>6, <1>11, <2>1, <2>4
<1>12. ToSet(seeds) \subseteq Components
  BY <1>6
<1> QED BY <1>6, <1>9, <1>10, <1>11, <1>12 DEF why, near, seeds, items

\* A plan has one item for each path, and picks no forbidden file.
IsPlan(items, r) ==
  /\ items \subseteq Items
  /\ \A i, j \in items : i.path \in PathSet /\ i.path = j.path => i = j
  /\ \A i \in items : i.path \in PathSet /\ i.tag # "OMITTED" => i.path \notin r.forbidden

\* A plan requires every path of the request, if max_excerpts are not fewer, and
\* picks every file that is wanted, if all that are considered are not more.
Covers(items, r, m) ==
  /\ Cardinality(Stated(r)) <= r.maxExcerpts =>
       Stated(r) \subseteq With(items, "REQUIRED") /\ Cardinality(PickedOf(items)) <= r.maxExcerpts
  /\ Cardinality(Considered(r, m)) <= r.maxExcerpts => Wanted(r, m) \subseteq PickedOf(items)

\* What a plan is (plan_context_selection): what it leaves out has left a doubt.
LEMMA PlanIs ==
  ASSUME NEW r \in Requests, RequestAccepted(r), NEW m, IsModel(m)
  PROVE  LET selection == SelectionPlan(r, m)
         IN  IsPlan(selection.items, r) /\ (selection.doubts = {} => Covers(selection.items, r, m))
<1> DEFINE first == FirstItems(r, m)
           seeds == SeedComponents(r, first)
           why == Neighbourhood(r, m, seeds)
           near == Expand(m, seeds, r.depth, r.maxComponents)
           files == TakeFiles(r, m, why, first)
           bare == ToSet(seeds) \ {i.component : i \in files.items}
           bareItems == {Item(NoPath, c, "REQUIRED") : c \in bare}
           selection == SelectionPlan(r, m)
           items == selection.items
<1>1. /\ near \subseteq DOMAIN why /\ DOMAIN why \subseteq Components
      /\ DOMAIN why \subseteq Near(r, m) \cup Impact(m, Stated(r)).components
      /\ ToSet(seeds) \subseteq Components
      /\ Clear(r, m) /\ ~(Cardinality(near) >= r.maxComponents) => near = Near(r, m)
  BY NeighbourhoodIs
<1>2. Kept(files, r, m, why) /\ Taken(files, FilesIn(m, DOMAIN why), r)
  <2> HIDE DEF why
  <2> QED BY <1>1, AllFilesKept
<1>3. items = files.items \cup bareItems
  BY Zenon DEF SelectionPlan
<1>4. selection.doubts = FirstDoubts(r, m)
          \cup {Doubt("model_uncertainty", u) : u \in Impact(m, Stated(r)).uncertain}
          \cup (IF Cardinality(near) >= r.maxComponents
                THEN {Doubt("budget_exhausted", <<"components">>)} ELSE {})
          \cup (IF files.cut THEN {Doubt("budget_exhausted", <<"excerpts">>)} ELSE {})
  BY Zenon DEF SelectionPlan, Stated
<1> HIDE DEF files, seeds, why, near, selection
<1>5. files \in FileAccs /\ ToSet(first) \subseteq files.items /\ Planned(files.items, r) /\ Seen(files, r, m, why)
  BY <1>2 DEF Kept
<1>6. files.seen \in SUBSET PathSet /\ files.items \subseteq Items /\ files.cut \in BOOLEAN
  BY <1>5 DEF FileAccs
<1>7. NoPath \notin PathSet
  BY PathsAssumption DEF NoPath
<1>8. \A i \in bareItems : i \in Items /\ i.path = NoPath
  BY <1>1 DEF Items, Item, Tags
<1> HIDE DEF bareItems, items
<1>9. \A i \in items : i.path \in PathSet => i \in files.items
  BY <1>3, <1>7, <1>8
<1>10. IsPlan(items, r)
  BY <1>3, <1>5, <1>6, <1>8, <1>9 DEF IsPlan, Planned
<1>11. ASSUME selection.doubts = {} PROVE Covers(items, r, m)
  <2>1. FirstDoubts(r, m) = {} /\ Impact(m, Stated(r)).uncertain = {}
        /\ ~(Cardinality(near) >= r.maxComponents) /\ ~files.cut
    BY <1>4, <1>11
  <2>2. Clear(r, m)
    BY <2>1, NoDoubtIsClear
  <2>3. near = Near(r, m)
    BY <1>1, <2>1, <2>2
  <2>4. \A p \in Stated(r) : \E i \in ToSet(first) : i.path = p /\ i.tag = "REQUIRED"
    BY <2>2, NamedAreOwners
  <2>5. Stated(r) \subseteq PathSet /\ r.maxExcerpts \in Nat
    BY DEF Stated, Requests
  <2> HIDE DEF first
  <2>6. Stated(r) \subseteq With(items, "REQUIRED")
    BY <1>3, <1>5, <2>4, <2>5 DEF With
  <2>7. Stated(r) \subseteq DOMAIN m.files
    BY <2>2 DEF Clear, OwnedFiles
  <2>8. PickedOf(items) \subseteq files.seen
    BY <1>5, <1>9, <2>7 DEF Seen, PickedOf, With
  <2>9. IsFiniteSet(files.seen) /\ Cardinality(files.seen) \in Nat
    BY <1>6, PathsFinite
  <2>10. Cardinality(PickedOf(items)) \in Nat /\ Cardinality(PickedOf(items)) <= Cardinality(files.seen)
    <3>1. PickedOf(items) \in SUBSET PathSet
      BY DEF PickedOf, With
    <3> QED BY <2>8, <2>9, <3>1, PathsFinite, FS_Subset
  <2>11. ASSUME Cardinality(Stated(r)) <= r.maxExcerpts
         PROVE  Cardinality(PickedOf(items)) <= r.maxExcerpts
    <3>1. Cardinality(files.seen) <= r.maxExcerpts
      BY <1>5, <2>11 DEF Seen
    <3> QED BY <2>5, <2>9, <2>10, <3>1
  <2>12. files.seen \subseteq Considered(r, m)
    <3>1. FilesIn(m, DOMAIN why) \subseteq FilesIn(m, Near(r, m) \cup Impact(m, Stated(r)).components)
      BY <1>1 DEF FilesIn
    <3> QED BY <1>5, <3>1 DEF Seen, Considered
  <2>13. FilesIn(m, Near(r, m)) \subseteq FilesIn(m, DOMAIN why)
    BY <1>1, <2>3 DEF FilesIn
  <2>14. FilesIn(m, Near(r, m)) \subseteq Considered(r, m)
    BY DEF FilesIn, Considered
  <2>15. ASSUME Cardinality(Considered(r, m)) <= r.maxExcerpts
         PROVE  FilesIn(m, Near(r, m)) \subseteq files.seen
    <3>1. CASE Cardinality(files.seen) >= r.maxExcerpts
      <4>1. Considered(r, m) \in SUBSET PathSet
        BY <2>5, OwnersAreComponents DEF Considered, FilesIn
      <4>2. IsFiniteSet(Considered(r, m)) /\ Cardinality(Considered(r, m)) \in Nat
        BY <4>1, PathsFinite
      <4>3. Cardinality(files.seen) <= Cardinality(Considered(r, m))
        BY <2>12, <4>2, FS_Subset
      <4>4. Cardinality(files.seen) = Cardinality(Considered(r, m))
        BY <2>5, <2>9, <2>15, <3>1, <4>2, <4>3
      <4>5. files.seen = Considered(r, m)
        BY <2>12, <4>2, <4>4, FS_Subset
      <4> QED BY <2>14, <4>5
    <3>2. CASE ~(Cardinality(files.seen) >= r.maxExcerpts)
      BY <1>2, <2>1, <2>13, <3>2 DEF Taken
    <3> QED BY <3>1, <3>2
  <2>16. ASSUME Cardinality(Considered(r, m)) <= r.maxExcerpts, NEW p \in Wanted(r, m)
         PROVE  p \in PickedOf(items)
    <3>1. p \in files.seen /\ p \notin r.forbidden \cup SecretPaths
      BY <2>15, <2>16 DEF Wanted
    <3>2. CASE p \in Stated(r)
      BY <2>6, <3>2 DEF PickedOf
    <3>3. CASE p \notin Stated(r)
      <4>1. PICK i \in files.items : i.path = p /\ i.tag \in Picked
        BY <1>5, <3>1, <3>3 DEF Seen
      <4> QED BY <1>3, <1>6, <3>1, <4>1 DEF PickedOf, With, Picked
    <3> QED BY <3>2, <3>3
  <2> QED BY <2>6, <2>11, <2>16 DEF Covers
<1> QED BY <1>10, <1>11 DEF items, selection

-----------------------------------------------------------------------------
(* The package in progress.                                                *)

\* What it holds is within its budgets and shows nothing that must stay hidden.
Filled(w) ==
  /\ w.bytes \in Nat /\ w.bytes <= w.request.package
  /\ w.excerpts \in Seq(Parts) /\ w.interfaces \in Seq(Parts) /\ w.architecture \in Seq(Parts)
  /\ SizeOf(w.excerpts) + SizeOf(w.interfaces) + SizeOf(w.architecture) <= w.bytes
  /\ \A e \in ToSet(w.excerpts) : e.size <= 1 + w.request.excerpt
  /\ Hidden(w, w.request)

\* More bytes are spent, on no evidence.
LEMMA FilledSame ==
  ASSUME NEW w, NEW v, Filled(w), w.request \in Requests, v.request = w.request,
         v.excerpts = w.excerpts, v.interfaces = w.interfaces, v.architecture = w.architecture,
         v.bytes \in Nat, w.bytes <= v.bytes, v.bytes <= w.request.package
  PROVE  Filled(v)
<1> DEFINE sum == SizeOf(w.excerpts) + SizeOf(w.interfaces) + SizeOf(w.architecture)
<1>1. sum \in Nat /\ sum <= w.bytes /\ w.bytes \in Nat
  <2>1. w.excerpts \in Seq(Parts) /\ w.interfaces \in Seq(Parts) /\ w.architecture \in Seq(Parts)
    BY DEF Filled
  <2>2. SizeOf(w.excerpts) \in Nat /\ SizeOf(w.interfaces) \in Nat /\ SizeOf(w.architecture) \in Nat
    BY ONLY <2>1, SizeType
  <2>3. sum \in Nat
    BY ONLY <2>2
  <2> QED BY <2>3 DEF Filled
<1>2. sum <= v.bytes
  <2> HIDE DEF sum
  <2> QED BY <1>1
<1>3. Hidden(v, w.request)
  BY DEF Filled, Hidden
<1> QED BY <1>2, <1>3 DEF Filled

\* One more part.
LEMMA FilledMore ==
  ASSUME NEW w, NEW v, Filled(w), w.request \in Requests, v.request = w.request,
         NEW e \in Parts, Safe(e),
         v.bytes \in Nat, w.bytes + e.size <= v.bytes, v.bytes <= w.request.package,
         \/ /\ v.excerpts = Append(w.excerpts, e) /\ v.interfaces = w.interfaces
            /\ v.architecture = w.architecture
            /\ e.size <= 1 + w.request.excerpt /\ e.path \notin w.request.forbidden
         \/ /\ v.excerpts = w.excerpts /\ v.interfaces = Append(w.interfaces, e)
            /\ v.architecture = w.architecture /\ e.path \notin w.request.forbidden
         \/ /\ v.excerpts = w.excerpts /\ v.interfaces = w.interfaces
            /\ v.architecture = Append(w.architecture, e)
  PROVE  Filled(v)
<1> DEFINE a == SizeOf(w.excerpts)
           b == SizeOf(w.interfaces)
           d == SizeOf(w.architecture)
           x == SizeOf(v.excerpts)
           y == SizeOf(v.interfaces)
           z == SizeOf(v.architecture)
<1>1. /\ w.excerpts \in Seq(Parts) /\ w.interfaces \in Seq(Parts) /\ w.architecture \in Seq(Parts)
      /\ a + b + d <= w.bytes /\ w.bytes \in Nat
  BY DEF Filled
<1>2. a \in Nat /\ b \in Nat /\ d \in Nat /\ e.size \in Nat
  BY <1>1, SizeType DEF Parts
<1>3. v.excerpts \in Seq(Parts) /\ v.interfaces \in Seq(Parts) /\ v.architecture \in Seq(Parts)
  <2>1. /\ Append(w.excerpts, e) \in Seq(Parts) /\ Append(w.interfaces, e) \in Seq(Parts)
        /\ Append(w.architecture, e) \in Seq(Parts)
    BY ONLY e \in Parts, <1>1, AppendProperties
  <2> QED BY <1>1, <2>1
<1>4. /\ SizeOf(Append(w.excerpts, e)) = a + e.size
      /\ SizeOf(Append(w.interfaces, e)) = b + e.size
      /\ SizeOf(Append(w.architecture, e)) = d + e.size
  BY <1>1, SizeOfAppended
<1>5. \/ x = a + e.size /\ y = b /\ z = d
      \/ x = a /\ y = b + e.size /\ z = d
      \/ x = a /\ y = b /\ z = d + e.size
  BY <1>4
<1>6. x + y + z <= v.bytes
  <2> HIDE DEF a, b, d, x, y, z
  <2>1. x + y + z = a + b + d + e.size
    BY <1>2, <1>5
  <2> QED BY <1>1, <1>2, <2>1
<1>7. /\ ToSet(Append(w.excerpts, e)) = ToSet(w.excerpts) \cup {e}
      /\ ToSet(Append(w.interfaces, e)) = ToSet(w.interfaces) \cup {e}
      /\ ToSet(Append(w.architecture, e)) = ToSet(w.architecture) \cup {e}
  BY <1>1, AppendedSet
<1>8. /\ Hidden(w, w.request)
      /\ \A k \in ToSet(w.excerpts) : k.size <= 1 + w.request.excerpt
  BY DEF Filled
<1>9. Hidden(v, w.request)
  <2> DEFINE old == ToSet(w.excerpts) \cup ToSet(w.interfaces)
             new == ToSet(v.excerpts) \cup ToSet(v.interfaces)
             docs == ToSet(w.architecture)
             newDocs == ToSet(v.architecture)
  <2>1. /\ \A k \in old \cup docs : Safe(k)
        /\ \A k \in old : k.path \notin w.request.forbidden
    BY <1>8 DEF Hidden, Safe
  <2>2. /\ new \subseteq old \cup {e} /\ newDocs \subseteq docs \cup {e}
        /\ e \in new => e \in old \/ e.path \notin w.request.forbidden
    BY <1>7
  <2> HIDE DEF old, new, docs, newDocs
  <2>3. /\ \A k \in new \cup newDocs : Safe(k)
        /\ \A k \in new : k.path \notin w.request.forbidden
    BY <2>1, <2>2
  <2> QED BY <2>3 DEF Hidden, Safe, new, newDocs
<1>10. \A k \in ToSet(v.excerpts) : k.size <= 1 + w.request.excerpt
  BY <1>7, <1>8
<1> QED BY <1>3, <1>6, <1>9, <1>10 DEF Filled

\* A list of files to read has no forbidden one.
IsTodo(s, r) == s \in Seq(PathSet) /\ ToSet(s) \cap r.forbidden = {}

\* A part that may be shown for a request.
Showable(e, r) == e \in Parts /\ Safe(e) /\ e.path \notin r.forbidden

\* The fields of a package in progress.
WorkFields ==
  {"request", "model", "bytes", "doubts", "critical", "restricted", "excerpts", "interfaces",
   "architecture", "required", "described", "first", "summaries", "summarised", "documents", "others"}

\* The types of a package in progress, and what it holds.
Sound(w) ==
  /\ DOMAIN w = WorkFields
  /\ w.request \in Requests /\ IsModel(w.model)
  /\ IsTodo(w.required, w.request) /\ IsTodo(w.described, w.request) /\ IsTodo(w.others, w.request)
  /\ w.documents \in Seq(PathSet) /\ w.summaries \in Nat
  /\ w.first # Nothing => Showable(w.first, w.request)
  /\ Filled(w)

\* The files that a package shows.
Shown(w) == {e.path : e \in {x \in ToSet(w.excerpts) : x.available}}

\* Without a doubt, what the package should show is shown or still to be read,
\* and there is room for it.
Faithful(w) ==
  LET r == w.request
  IN w.doubts = {} =>
       /\ Cardinality(Stated(r)) <= r.maxExcerpts =>
            /\ Len(w.excerpts) + Len(w.required) + Len(w.others) <= r.maxExcerpts
            /\ Stated(r) \subseteq Shown(w) \cup ToSet(w.required)
       /\ Cardinality(Considered(r, w.model)) <= r.maxExcerpts =>
            Wanted(r, w.model) \subseteq Shown(w) \cup ToSet(w.required) \cup ToSet(w.others)

\* The invariant of the assembly.
IsWork(w) == Sound(w) /\ Faithful(w)

\* The first of a list, and the rest.
LEMMA RestOfTodo ==
  ASSUME NEW r, NEW s, IsTodo(s, r), s # << >>
  PROVE  /\ Head(s) \in PathSet /\ Head(s) \notin r.forbidden
         /\ IsTodo(Tail(s), r) /\ ToSet(s) = {Head(s)} \cup ToSet(Tail(s))
         /\ Len(s) \in Nat /\ Len(Tail(s)) \in Nat /\ Len(s) = Len(Tail(s)) + 1
<1>1. s \in Seq(PathSet) /\ ToSet(s) \cap r.forbidden = {}
  BY DEF IsTodo
<1>2. /\ Head(s) = s[1] /\ Tail(s) \in Seq(PathSet) /\ Len(Tail(s)) = Len(s) - 1
      /\ \A i \in 1..Len(Tail(s)) : Tail(s)[i] = s[i + 1]
      /\ Len(s) \in Nat /\ Len(s) >= 1 /\ DOMAIN s = 1..Len(s)
      /\ Len(Tail(s)) \in Nat /\ DOMAIN Tail(s) = 1..Len(Tail(s))
  BY <1>1, HeadTailProperties, EmptySeq, LenProperties
<1>3. ToSet(s) = {Head(s)} \cup ToSet(Tail(s))
  <2>1. ASSUME NEW x \in ToSet(s) PROVE x \in {Head(s)} \cup ToSet(Tail(s))
    <3>1. PICK i \in 1..Len(s) : x = s[i]
      BY <1>2 DEF ToSet
    <3>2. CASE i = 1
      BY <1>2, <3>1, <3>2
    <3>3. CASE i # 1
      <4>1. i - 1 \in 1..Len(Tail(s)) /\ (i - 1) + 1 = i
        BY <1>2, <3>1, <3>3
      <4> QED BY <1>2, <3>1, <4>1 DEF ToSet
    <3> QED BY <3>2, <3>3
  <2>2. Head(s) \in ToSet(s)
    <3>1. 1 \in DOMAIN s
      BY <1>2
    <3> QED BY <1>2, <3>1 DEF ToSet
  <2>3. ASSUME NEW x \in ToSet(Tail(s)) PROVE x \in ToSet(s)
    <3>1. PICK i \in 1..Len(Tail(s)) : x = Tail(s)[i]
      BY <1>2 DEF ToSet
    <3>2. i + 1 \in DOMAIN s /\ x = s[i + 1]
      BY <1>2, <3>1
    <3> QED BY <3>2 DEF ToSet
  <2> QED BY <2>1, <2>2, <2>3
<1>4. Head(s) \in PathSet
  <2>1. 1 \in 1..Len(s)
    BY <1>2
  <2> QED BY <1>1, <1>2, <2>1, ElementOfSeq
<1>5. Len(s) = Len(Tail(s)) + 1
  BY <1>2
<1> QED BY <1>1, <1>2, <1>3, <1>4, <1>5 DEF IsTodo

\* v holds the same evidence as w and has the same to read; only its doubts and
\* its bytes are others.
Alike(v, w) ==
  /\ DOMAIN v = WorkFields
  /\ v.request = w.request /\ v.model = w.model /\ v.excerpts = w.excerpts
  /\ v.interfaces = w.interfaces /\ v.architecture = w.architecture
  /\ v.required = w.required /\ v.described = w.described /\ v.first = w.first
  /\ v.summaries = w.summaries /\ v.documents = w.documents /\ v.others = w.others

\* A step of the assembly that only spends bytes or adds doubts.
Spends(v, w) ==
  /\ Alike(v, w)
  /\ v.bytes \in Nat /\ w.bytes <= v.bytes /\ v.bytes <= w.request.package
  /\ v.doubts = {} => w.doubts = {}

\* Spending keeps the invariant of the assembly.
LEMMA SpendingIsSound ==
  ASSUME NEW w, NEW v, Spends(v, w)
  PROVE  (Sound(w) => Sound(v)) /\ (Faithful(w) => Faithful(v))
<1>1. Sound(w) => Filled(v)
  BY FilledSame DEF Spends, Alike, Sound
<1>2. Faithful(w) => Faithful(v)
  BY DEF Spends, Alike, Faithful, Shown
<1> QED BY <1>1, <1>2 DEF Spends, Alike, Sound

\* Spending twice is spending.
LEMMA SpendingTwice ==
  ASSUME NEW u, NEW v, NEW w, Spends(u, v), Spends(v, w), w.bytes \in Nat, w.request \in Requests
  PROVE  Spends(u, w)
<1>1. w.request.package \in Nat
  BY DEF Requests
<1>2. u.bytes \in Nat /\ v.bytes \in Nat /\ v.bytes <= u.bytes /\ w.bytes <= v.bytes
  BY DEF Spends
<1>3. w.bytes <= u.bytes
  BY <1>2
<1> QED BY <1>3 DEF Spends, Alike

\* Nothing is spent.
LEMMA NothingSpent ==
  ASSUME NEW w, DOMAIN w = WorkFields, w.bytes \in Nat, w.bytes <= w.request.package
  PROVE  Spends(w, w)
BY DEF Spends, Alike

\* A doubt.
LEMMA DoubtSpends ==
  ASSUME NEW w, DOMAIN w = WorkFields, w.bytes \in Nat, w.bytes <= w.request.package,
         NEW kind, NEW subject
  PROVE  /\ Spends(Doubtful(w, kind, subject), w) /\ Doubtful(w, kind, subject).doubts # {}
         /\ Spends(Critical(w, subject), w) /\ Critical(w, subject).doubts # {}
         /\ Doubtful(w, kind, subject).bytes = w.bytes /\ Critical(w, subject).bytes = w.bytes
<1> DEFINE d == Doubtful(w, kind, subject)
           e == Doubtful(w, "critical_missing", subject)
           v == Critical(w, subject)
<1>1. \A k : /\ Spends(Doubtful(w, k, subject), w) /\ Doubtful(w, k, subject).doubts # {}
             /\ Doubtful(w, k, subject).bytes = w.bytes
  BY DEF Doubtful, Spends, Alike, WorkFields
<1>2. v = [e EXCEPT !.critical = TRUE]
  BY DEF Critical
<1>3. Spends(e, w) /\ e.doubts # {} /\ e.bytes = w.bytes
  BY <1>1
<1> HIDE DEF v, e
<1>4. Spends(v, w) /\ v.doubts # {} /\ v.bytes = w.bytes
  BY <1>2, <1>3 DEF Spends, Alike, WorkFields
<1> QED BY <1>1, <1>4 DEF v

\* One more byte, if there is room.
LEMMA ByteSpends ==
  ASSUME NEW w, DOMAIN w = WorkFields, w.bytes \in Nat, w.request \in Requests, Fits(w, 1)
  PROVE  Spends([w EXCEPT !.bytes = @ + 1], w)
<1>1. w.request.package \in Nat /\ w.bytes + 1 <= w.request.package
  BY DEF Requests, Fits
<1> DEFINE v == [w EXCEPT !.bytes = @ + 1]
<1>2. /\ DOMAIN v = WorkFields /\ v.bytes = w.bytes + 1 /\ v.doubts = w.doubts
      /\ Alike(v, w)
  BY DEF Alike, WorkFields
<1>3. v.bytes \in Nat /\ w.bytes <= v.bytes /\ v.bytes <= w.request.package
  <2> HIDE DEF v
  <2> QED BY <1>1, <1>2
<1> HIDE DEF v
<1>4. Spends(v, w)
  BY <1>2, <1>3 DEF Spends
<1> QED BY <1>4 DEF v

\* A warning about a protected file spends at most a byte.
LEMMA WarningSpends ==
  ASSUME NEW w, DOMAIN w = WorkFields, w.bytes \in Nat, w.bytes <= w.request.package,
         w.request \in Requests, NEW path
  PROVE  Spends(Warned(w, path), w)
BY ByteSpends, NothingSpent DEF Warned

\* One more excerpt (_add_excerpt).  Without a doubt it is there and shows the file.
LEMMA AddedIsSound ==
  ASSUME NEW w, Sound(w), NEW tag, NEW e, Showable(e, w.request), e.size <= 1 + w.request.excerpt
  PROVE  LET out == Added(w, tag, e)
         IN  /\ Sound(out) /\ out.request = w.request /\ out.model = w.model
             /\ out.required = w.required /\ out.others = w.others
             /\ out.doubts = {} => /\ w.doubts = {} /\ e.available
                                   /\ out.excerpts = Append(w.excerpts, e)
<1> DEFINE missing(kind) == IF tag = "REQUIRED" THEN Critical(w, e.path) ELSE Doubtful(w, kind, e.path)
           kept(acc) == [acc EXCEPT !.excerpts = Append(@, e), !.bytes = @ + e.size]
           out == Added(w, tag, e)
<1>1. /\ DOMAIN w = WorkFields /\ w.request \in Requests /\ Filled(w)
      /\ w.bytes \in Nat /\ w.bytes <= w.request.package
  BY DEF Sound, Filled
<1>2. e \in Parts /\ Safe(e) /\ e.path \notin w.request.forbidden /\ e.size \in Nat
  BY DEF Showable, Parts
<1>3. \A kind : /\ Spends(missing(kind), w) /\ missing(kind).doubts # {}
                /\ missing(kind).bytes = w.bytes
  BY <1>1, DoubtSpends
<1>4. CASE ~Fits(w, e.size)
  <2>1. out = missing("budget_exhausted")
    BY <1>4 DEF Added
  <2> DEFINE v == missing("budget_exhausted")
  <2>2. Spends(v, w) /\ v.doubts # {}
    BY <1>3
  <2> HIDE DEF missing, v, out
  <2>3. Sound(v)
    BY <2>2, SpendingIsSound
  <2>4. out = v
    BY <2>1 DEF v
  <2> QED BY <2>2, <2>3, <2>4 DEF out, Spends, Alike
<1>5. ASSUME NEW acc, Spends(acc, w), acc.bytes = w.bytes, Fits(w, e.size)
      PROVE  /\ Sound(kept(acc)) /\ kept(acc).excerpts = Append(w.excerpts, e)
             /\ kept(acc).doubts = acc.doubts /\ kept(acc).restricted = acc.restricted
             /\ kept(acc).request = w.request /\ kept(acc).model = w.model
             /\ kept(acc).required = w.required /\ kept(acc).others = w.others
  <2> DEFINE v == kept(acc)
  <2>1. DOMAIN acc = WorkFields /\ Alike(acc, w)
    BY <1>5 DEF Spends, Alike
  <2>2. /\ DOMAIN v = WorkFields /\ v.excerpts = Append(w.excerpts, e) /\ v.bytes = w.bytes + e.size
        /\ v.interfaces = w.interfaces /\ v.architecture = w.architecture
        /\ v.request = w.request /\ v.model = w.model
        /\ v.required = w.required /\ v.others = w.others /\ v.described = w.described
        /\ v.first = w.first /\ v.summaries = w.summaries /\ v.documents = w.documents
        /\ v.doubts = acc.doubts /\ v.restricted = acc.restricted
    BY <1>5, <2>1 DEF Alike, WorkFields
  <2> HIDE DEF v, kept
  <2>3. v.bytes \in Nat /\ w.bytes + e.size <= v.bytes /\ v.bytes <= w.request.package
    BY <1>1, <1>2, <1>5, <2>2 DEF Fits
  <2>4. Filled(v)
    BY <1>1, <1>2, <2>2, <2>3, FilledMore
  <2>5. Sound(v)
    BY <2>2, <2>4 DEF Sound
  <2> QED BY <2>2, <2>5 DEF v
<1>6. CASE Fits(w, e.size) /\ e.available
  <2> DEFINE v == kept(w)
  <2>1. out = Warned(v, e.path)
    BY <1>6 DEF Added
  <2>2. /\ Sound(v) /\ v.excerpts = Append(w.excerpts, e) /\ v.doubts = w.doubts
        /\ v.request = w.request /\ v.model = w.model
        /\ v.required = w.required /\ v.others = w.others
    <3>1. Spends(w, w)
      BY <1>1, NothingSpent
    <3> HIDE DEF kept
    <3> QED BY <1>5, <1>6, <3>1
  <2> HIDE DEF v, kept, out
  <2>3. DOMAIN v = WorkFields /\ v.request \in Requests /\ v.bytes \in Nat /\ v.bytes <= v.request.package
    BY <2>2 DEF Sound, Filled
  <2>4. Spends(out, v)
    BY <2>1, <2>3, WarningSpends
  <2>5. Sound(out)
    BY <2>2, <2>4, SpendingIsSound
  <2> QED BY <1>6, <2>2, <2>4, <2>5 DEF out, Spends, Alike
<1>7. CASE Fits(w, e.size) /\ ~e.available
  <2> DEFINE acc == missing("missing_source")
             u == kept(acc)
  <2>1. out = [u EXCEPT !.restricted = @ \/ e.why = "secret"]
    BY <1>7 DEF Added
  <2>2. Spends(acc, w) /\ acc.doubts # {} /\ acc.bytes = w.bytes
    BY <1>3
  <2> HIDE DEF missing, acc
  <2>3. /\ Sound(u) /\ u.excerpts = Append(w.excerpts, e) /\ u.doubts = acc.doubts
        /\ u.request = w.request /\ u.model = w.model
        /\ u.required = w.required /\ u.others = w.others
    <3> HIDE DEF kept
    <3> QED BY <1>5, <1>7, <2>2
  <2> HIDE DEF u, kept, out
  <2>4. DOMAIN u = WorkFields /\ u.request \in Requests /\ u.bytes \in Nat /\ u.bytes <= u.request.package
    BY <2>3 DEF Sound, Filled
  <2>5. Spends(out, u) /\ out.doubts = u.doubts
    BY <2>1, <2>4 DEF Spends, Alike, WorkFields
  <2>6. Sound(out)
    BY <2>3, <2>5, SpendingIsSound
  <2> QED BY <2>2, <2>3, <2>5, <2>6 DEF out, Spends, Alike
<1> QED BY <1>4, <1>6, <1>7

\* When all that are considered fit, the paths of the request do.
LEMMA StatedFit ==
  ASSUME NEW r \in Requests, NEW m, IsModel(m), Cardinality(Considered(r, m)) <= r.maxExcerpts
  PROVE  Cardinality(Stated(r)) <= r.maxExcerpts
<1>1. Stated(r) \in SUBSET PathSet /\ r.maxExcerpts \in Nat
  BY DEF Stated, Requests
<1>2. Considered(r, m) \in SUBSET PathSet /\ Stated(r) \subseteq Considered(r, m)
  BY <1>1, OwnersAreComponents DEF Considered, FilesIn
<1>3. IsFiniteSet(Considered(r, m)) /\ Cardinality(Considered(r, m)) \in Nat /\ Cardinality(Stated(r)) \in Nat
  BY <1>1, <1>2, PathsFinite
<1>4. Cardinality(Stated(r)) <= Cardinality(Considered(r, m))
  BY <1>2, <1>3, FS_Subset
<1> QED BY <1>1, <1>3, <1>4

\* A package in progress that is full has nothing more to read, or a doubt, or
\* its request names more paths than it may show.
LEMMA FullHasNoRoom ==
  ASSUME NEW w, IsWork(w), Full(w), w.required # << >> \/ w.others # << >>,
         Cardinality(Stated(w.request)) <= w.request.maxExcerpts
  PROVE  w.doubts # {}
<1> SUFFICES ASSUME w.doubts = {} PROVE FALSE
  OBVIOUS
<1> DEFINE a == Len(w.excerpts)
           b == Len(w.required)
           d == Len(w.others)
           n == w.request.maxExcerpts
<1>1. a + b + d <= n
  BY DEF IsWork, Faithful
<1>2. a \in Nat /\ b \in Nat /\ d \in Nat /\ n \in Nat
  BY LenProperties DEF IsWork, Sound, Filled, IsTodo, Requests
<1>3. a >= n
  BY DEF Full
<1>4. b # 0 \/ d # 0
  BY EmptySeq DEF IsWork, Sound, IsTodo
<1> HIDE DEF a, b, d, n
<1> QED BY <1>1, <1>2, <1>3, <1>4

\* Reading the next file of a list: the excerpts grow by what the list loses.
LEMMA ReadIsFaithful ==
  ASSUME NEW w, IsWork(w), NEW out, DOMAIN out = WorkFields, NEW e \in Parts,
         out.request = w.request, out.model = w.model,
         out.doubts = {} => w.doubts = {} /\ e.available /\ out.excerpts = Append(w.excerpts, e),
         \/ /\ w.required # << >> /\ e.path = Head(w.required)
            /\ out.required = Tail(w.required) /\ out.others = w.others
         \/ /\ w.required = << >> /\ w.others # << >> /\ e.path = Head(w.others)
            /\ out.required = w.required /\ out.others = Tail(w.others)
  PROVE  Faithful(out)
<1> SUFFICES ASSUME out.doubts = {}
             PROVE  /\ Cardinality(Stated(w.request)) <= w.request.maxExcerpts =>
                         /\ Len(out.excerpts) + Len(out.required) + Len(out.others) <= w.request.maxExcerpts
                         /\ Stated(w.request) \subseteq Shown(out) \cup ToSet(out.required)
                    /\ Cardinality(Considered(w.request, w.model)) <= w.request.maxExcerpts =>
                         Wanted(w.request, w.model)
                           \subseteq Shown(out) \cup ToSet(out.required) \cup ToSet(out.others)
  BY DEF Faithful
<1>1. w.doubts = {} /\ e.available /\ out.excerpts = Append(w.excerpts, e)
  OBVIOUS
<1>2. /\ Cardinality(Stated(w.request)) <= w.request.maxExcerpts =>
           /\ Len(w.excerpts) + Len(w.required) + Len(w.others) <= w.request.maxExcerpts
           /\ Stated(w.request) \subseteq Shown(w) \cup ToSet(w.required)
      /\ Cardinality(Considered(w.request, w.model)) <= w.request.maxExcerpts =>
           Wanted(w.request, w.model) \subseteq Shown(w) \cup ToSet(w.required) \cup ToSet(w.others)
  BY <1>1 DEF IsWork, Faithful
<1>3. w.excerpts \in Seq(Parts) /\ IsTodo(w.required, w.request) /\ IsTodo(w.others, w.request)
      /\ w.request.maxExcerpts \in Nat
  BY DEF IsWork, Sound, Filled, Requests
<1>4. Shown(out) = Shown(w) \cup {e.path}
  <2>1. ToSet(out.excerpts) = ToSet(w.excerpts) \cup {e}
    BY <1>1, <1>3, AppendedSet
  <2> QED BY <1>1, <2>1 DEF Shown
<1>5. \/ ToSet(w.required) = {e.path} \cup ToSet(out.required) /\ out.others = w.others
      \/ ToSet(w.others) = {e.path} \cup ToSet(out.others) /\ out.required = w.required /\ w.required = << >>
  <2>1. CASE w.required # << >> /\ e.path = Head(w.required) /\ out.required = Tail(w.required)
             /\ out.others = w.others
    <3>1. ToSet(w.required) = {Head(w.required)} \cup ToSet(Tail(w.required))
      BY ONLY <1>3, <2>1, RestOfTodo
    <3> QED BY ONLY <2>1, <3>1
  <2>2. CASE w.required = << >> /\ w.others # << >> /\ e.path = Head(w.others)
             /\ out.required = w.required /\ out.others = Tail(w.others)
    <3>1. ToSet(w.others) = {Head(w.others)} \cup ToSet(Tail(w.others))
      BY ONLY <1>3, <2>2, RestOfTodo
    <3> QED BY ONLY <2>2, <3>1
  <2> QED BY <2>1, <2>2
<1>6. ToSet(<< >>) = {}
  BY DEF ToSet
<1>7. Len(out.excerpts) + Len(out.required) + Len(out.others)
        = Len(w.excerpts) + Len(w.required) + Len(w.others)
  <2> DEFINE a == Len(w.excerpts)
             b == Len(w.required)
             d == Len(w.others)
             x == Len(out.excerpts)
             y == Len(out.required)
             z == Len(out.others)
  <2>1. a \in Nat /\ b \in Nat /\ d \in Nat
    BY <1>3, LenProperties DEF IsTodo
  <2>2. x = a + 1
    BY <1>1, <1>3, AppendProperties
  <2>3. \/ y \in Nat /\ b = y + 1 /\ z = d
        \/ z \in Nat /\ d = z + 1 /\ y = b
    <3>1. CASE w.required # << >> /\ out.required = Tail(w.required) /\ out.others = w.others
      <4>1. Len(Tail(w.required)) \in Nat /\ Len(w.required) = Len(Tail(w.required)) + 1
        BY <1>3, <3>1, RestOfTodo
      <4> QED BY <3>1, <4>1
    <3>2. CASE w.others # << >> /\ out.others = Tail(w.others) /\ out.required = w.required
      <4>1. Len(Tail(w.others)) \in Nat /\ Len(w.others) = Len(Tail(w.others)) + 1
        BY <1>3, <3>2, RestOfTodo
      <4> QED BY <3>2, <4>1
    <3> QED BY <3>1, <3>2
  <2> HIDE DEF a, b, d, x, y, z
  <2>4. x + y + z = a + b + d
    BY ONLY <2>1, <2>2, <2>3
  <2> QED BY <2>4 DEF a, b, d, x, y, z
<1> HIDE DEF Shown
<1> QED BY <1>2, <1>4, <1>5, <1>6, <1>7

\* Nothing to read has no forbidden file.
LEMMA NoTodo == \A r : IsTodo(<< >>, r)
BY DEF IsTodo, ToSet

\* The next required excerpt.
LEMMA RequiredIsWork ==
  ASSUME tree \in Files, NEW w, IsWork(w), w.required # << >>
  PROVE  IsWork(WithRequired(w))
<1> DEFINE out == WithRequired(w)
<1>1. /\ Sound(w) /\ DOMAIN w = WorkFields /\ w.request \in Requests /\ IsModel(w.model)
      /\ IsTodo(w.required, w.request)
  BY DEF IsWork, Sound
<1>2. CASE Full(w)
  <2>1. out = [w EXCEPT !.required = << >>]
    BY <1>2 DEF WithRequired
  <2> HIDE DEF out
  <2>2. /\ DOMAIN out = WorkFields /\ out.required = << >>
        /\ out.request = w.request /\ out.model = w.model /\ out.excerpts = w.excerpts
        /\ out.interfaces = w.interfaces /\ out.architecture = w.architecture
        /\ out.described = w.described /\ out.first = w.first /\ out.doubts = w.doubts
        /\ out.summaries = w.summaries /\ out.documents = w.documents /\ out.others = w.others
        /\ out.bytes = w.bytes
    BY <1>1, <2>1 DEF WorkFields
  <2>3. Sound(out)
    <3>1. Filled(w) /\ w.bytes \in Nat /\ w.bytes <= w.bytes /\ w.bytes <= w.request.package
      BY <1>1 DEF Sound, Filled
    <3>2. Filled(out)
      BY <1>1, <2>2, <3>1, FilledSame
    <3> QED BY <1>1, <2>2, <3>2, NoTodo DEF Sound
  <2>4. Faithful(out)
    <3>1. Cardinality(Stated(w.request)) <= w.request.maxExcerpts => w.doubts # {}
      BY <1>2, FullHasNoRoom
    <3>2. Cardinality(Considered(w.request, w.model)) <= w.request.maxExcerpts => w.doubts # {}
      BY <1>1, <3>1, StatedFit
    <3> QED BY <2>2, <3>1, <3>2 DEF Faithful
  <2> QED BY <2>3, <2>4 DEF IsWork, out
<1>3. CASE ~Full(w)
  <2> DEFINE e == Excerpt(Head(w.required), Whole, w.request.excerpt)
             v == Added(w, "REQUIRED", e)
  <2>1. out = [v EXCEPT !.required = Tail(@)]
    BY <1>3 DEF WithRequired
  <2>2. Head(w.required) \in PathSet /\ Head(w.required) \notin w.request.forbidden
        /\ IsTodo(Tail(w.required), w.request)
    BY <1>1, RestOfTodo
  <2>3. e \in Parts /\ e.path = Head(w.required) /\ e.size <= 1 + w.request.excerpt /\ Safe(e)
    <3>1. Whole \in Nat /\ w.request.excerpt \in Nat
      BY <1>1 DEF Whole, Requests
    <3> QED BY <2>2, <3>1, ExcerptIsSafe
  <2> HIDE DEF e, out
  <2>4. Showable(e, w.request)
    BY <2>2, <2>3 DEF Showable
  <2>5. /\ Sound(v) /\ v.request = w.request /\ v.model = w.model
        /\ v.required = w.required /\ v.others = w.others
        /\ v.doubts = {} => w.doubts = {} /\ e.available /\ v.excerpts = Append(w.excerpts, e)
    BY <1>1, <2>3, <2>4, AddedIsSound
  <2> HIDE DEF v
  <2>6. DOMAIN v = WorkFields
    BY <2>5 DEF Sound
  <2>7. /\ DOMAIN out = WorkFields /\ out.required = Tail(w.required)
        /\ out.request = v.request /\ out.model = v.model /\ out.excerpts = v.excerpts
        /\ out.interfaces = v.interfaces /\ out.architecture = v.architecture
        /\ out.described = v.described /\ out.first = v.first /\ out.doubts = v.doubts
        /\ out.summaries = v.summaries /\ out.documents = v.documents /\ out.others = v.others
        /\ out.bytes = v.bytes
    BY <2>1, <2>5, <2>6 DEF WorkFields
  <2>8. Sound(out)
    <3>1. Filled(v) /\ v.bytes \in Nat /\ v.bytes <= v.bytes /\ v.bytes <= v.request.package
          /\ v.request \in Requests
      BY <2>5 DEF Sound, Filled
    <3>2. Filled(out)
      BY <2>7, <3>1, FilledSame
    <3> QED BY <2>2, <2>5, <2>7, <3>2 DEF Sound
  <2>9. Faithful(out)
    BY <2>3, <2>5, <2>7, ReadIsFaithful
  <2> QED BY <2>8, <2>9 DEF IsWork, out
<1> QED BY <1>2, <1>3

\* The next possible or supporting excerpt.
LEMMA OtherIsWork ==
  ASSUME tree \in Files, NEW w, IsWork(w), w.required = << >>, w.others # << >>
  PROVE  IsWork(WithOther(w))
<1> DEFINE out == WithOther(w)
<1>1. /\ Sound(w) /\ DOMAIN w = WorkFields /\ w.request \in Requests /\ IsModel(w.model)
      /\ IsTodo(w.others, w.request) /\ w.bytes \in Nat /\ w.bytes <= w.request.package
  BY DEF IsWork, Sound, Filled
<1>2. CASE Full(w)
  <2> DEFINE v == Doubtful(w, "budget_exhausted", <<"excerpts">>)
  <2>1. out = [v EXCEPT !.others = << >>]
    BY <1>2 DEF WithOther
  <2>2. Spends(v, w) /\ v.doubts # {}
    BY <1>1, DoubtSpends
  <2>3. Sound(v) /\ DOMAIN v = WorkFields
    BY <1>1, <2>2, SpendingIsSound DEF Spends, Alike
  <2> HIDE DEF v, out
  <2>4. /\ DOMAIN out = WorkFields /\ out.others = << >>
        /\ out.request = v.request /\ out.model = v.model /\ out.excerpts = v.excerpts
        /\ out.interfaces = v.interfaces /\ out.architecture = v.architecture
        /\ out.described = v.described /\ out.first = v.first /\ out.doubts = v.doubts
        /\ out.summaries = v.summaries /\ out.documents = v.documents /\ out.required = v.required
        /\ out.bytes = v.bytes
    BY <2>1, <2>3 DEF WorkFields
  <2>5. Sound(out)
    <3>1. Filled(v) /\ v.bytes \in Nat /\ v.bytes <= v.bytes /\ v.bytes <= v.request.package
          /\ v.request \in Requests
      BY <2>3 DEF Sound, Filled
    <3>2. Filled(out)
      BY <2>4, <3>1, FilledSame
    <3> QED BY <2>3, <2>4, <3>2, NoTodo DEF Sound
  <2>6. Faithful(out)
    BY <2>2, <2>4 DEF Faithful
  <2> QED BY <2>5, <2>6 DEF IsWork, out
<1>3. CASE ~Full(w)
  <2> DEFINE e == Excerpt(Head(w.others), Whole, w.request.excerpt)
             v == Added(w, "SUPPORTING", e)
  <2>1. out = [v EXCEPT !.others = Tail(@)]
    BY <1>3 DEF WithOther
  <2>2. Head(w.others) \in PathSet /\ Head(w.others) \notin w.request.forbidden
        /\ IsTodo(Tail(w.others), w.request)
    BY <1>1, RestOfTodo
  <2>3. e \in Parts /\ e.path = Head(w.others) /\ e.size <= 1 + w.request.excerpt /\ Safe(e)
    <3>1. Whole \in Nat /\ w.request.excerpt \in Nat
      BY <1>1 DEF Whole, Requests
    <3> QED BY <2>2, <3>1, ExcerptIsSafe
  <2> HIDE DEF e, out
  <2>4. Showable(e, w.request)
    BY <2>2, <2>3 DEF Showable
  <2>5. /\ Sound(v) /\ v.request = w.request /\ v.model = w.model
        /\ v.required = w.required /\ v.others = w.others
        /\ v.doubts = {} => w.doubts = {} /\ e.available /\ v.excerpts = Append(w.excerpts, e)
    BY <1>1, <2>3, <2>4, AddedIsSound
  <2> HIDE DEF v
  <2>6. DOMAIN v = WorkFields
    BY <2>5 DEF Sound
  <2>7. /\ DOMAIN out = WorkFields /\ out.others = Tail(w.others)
        /\ out.request = v.request /\ out.model = v.model /\ out.excerpts = v.excerpts
        /\ out.interfaces = v.interfaces /\ out.architecture = v.architecture
        /\ out.described = v.described /\ out.first = v.first /\ out.doubts = v.doubts
        /\ out.summaries = v.summaries /\ out.documents = v.documents /\ out.required = v.required
        /\ out.bytes = v.bytes
    BY <2>1, <2>5, <2>6 DEF WorkFields
  <2>8. Sound(out)
    <3>1. Filled(v) /\ v.bytes \in Nat /\ v.bytes <= v.bytes /\ v.bytes <= v.request.package
          /\ v.request \in Requests
      BY <2>5 DEF Sound, Filled
    <3>2. Filled(out)
      BY <2>7, <3>1, FilledSame
    <3> QED BY <2>2, <2>5, <2>7, <3>2 DEF Sound
  <2>9. Faithful(out)
    BY <2>3, <2>5, <2>7, ReadIsFaithful
  <2> QED BY <2>8, <2>9 DEF IsWork, out
<1> QED BY <1>2, <1>3

\* A step that shows no excerpt and takes no file from the lists of them.
LEMMA FaithfulSame ==
  ASSUME NEW w, NEW v, Faithful(w), v.request = w.request, v.model = w.model,
         v.excerpts = w.excerpts, v.required = w.required, v.others = w.others,
         v.doubts = {} => w.doubts = {}
  PROVE  Faithful(v)
BY DEF Faithful, Shown

\* The first reading of a file that is described.
LEMMA FirstIsWork ==
  ASSUME tree \in Files, NEW w, IsWork(w), w.described # << >>
  PROVE  IsWork([w EXCEPT !.first = Excerpt(Head(w.described), Whole, MaxExcerpt)])
<1> DEFINE e == Excerpt(Head(w.described), Whole, MaxExcerpt)
           out == [w EXCEPT !.first = e]
<1>1. Sound(w) /\ Faithful(w) /\ DOMAIN w = WorkFields /\ IsTodo(w.described, w.request)
  BY DEF IsWork, Sound
<1>2. Showable(e, w.request)
  <2>1. Head(w.described) \in PathSet /\ Head(w.described) \notin w.request.forbidden
    BY <1>1, RestOfTodo
  <2>2. Whole \in Nat /\ MaxExcerpt \in Nat
    BY SizesAssumption DEF Whole
  <2>3. e \in Parts /\ e.path = Head(w.described) /\ Safe(e)
    BY <2>1, <2>2, ExcerptIsSafe
  <2> HIDE DEF e
  <2> QED BY <2>1, <2>3 DEF Showable
<1> HIDE DEF e
<1>3. /\ DOMAIN out = WorkFields /\ out.first = e
      /\ out.request = w.request /\ out.model = w.model /\ out.excerpts = w.excerpts
      /\ out.interfaces = w.interfaces /\ out.architecture = w.architecture
      /\ out.required = w.required /\ out.described = w.described /\ out.doubts = w.doubts
      /\ out.summaries = w.summaries /\ out.documents = w.documents /\ out.others = w.others
      /\ out.bytes = w.bytes
  BY <1>1 DEF WorkFields
<1> HIDE DEF out
<1>4. Filled(out)
  BY <1>1, <1>3 DEF Sound, Filled, Hidden
<1>5. Sound(out)
  BY <1>1, <1>2, <1>3, <1>4 DEF Sound
<1>6. Faithful(out)
  BY <1>1, <1>3, FaithfulSame
<1> QED BY <1>5, <1>6 DEF IsWork, out, e

\* The second reading, and the interface.
LEMMA InterfaceIsWork ==
  ASSUME tree \in Files, NEW w, IsWork(w), w.described # << >>, w.first # Nothing
  PROVE  IsWork([WithInterface(w, Described(w.first)) EXCEPT !.first = Nothing, !.described = Tail(@)])
<1> DEFINE e == Described(w.first)
           v == WithInterface(w, e)
           out == [v EXCEPT !.first = Nothing, !.described = Tail(@)]
<1>1. /\ Sound(w) /\ Faithful(w) /\ DOMAIN w = WorkFields /\ IsTodo(w.described, w.request)
      /\ Showable(w.first, w.request) /\ w.request \in Requests /\ Filled(w)
      /\ w.bytes \in Nat /\ w.bytes <= w.request.package
  BY DEF IsWork, Sound, Filled
<1>2. e \in Parts /\ Safe(e) /\ e.path \notin w.request.forbidden /\ e.size \in Nat
  <2>1. w.first \in Parts /\ Safe(w.first) /\ w.first.path \notin w.request.forbidden
    BY <1>1 DEF Showable
  <2>2. e \in Parts /\ e.path = w.first.path /\ Safe(e)
    BY <2>1, DescribedIsSafe
  <2> HIDE DEF e
  <2> QED BY <2>1, <2>2 DEF Parts
<1> HIDE DEF e
<1>3. /\ Sound(v) /\ v.request = w.request /\ v.model = w.model /\ v.excerpts = w.excerpts
      /\ v.required = w.required /\ v.others = w.others /\ v.described = w.described
      /\ v.doubts = {} => w.doubts = {}
  <2>1. CASE ~Fits(w, e.size)
    <3>1. v = Doubtful(w, "budget_exhausted", e.path)
      BY <2>1 DEF WithInterface
    <3>2. Spends(v, w)
      BY <1>1, <3>1, DoubtSpends
    <3> HIDE DEF v
    <3>3. Sound(v)
      BY <1>1, <3>2, SpendingIsSound
    <3> QED BY <3>2, <3>3 DEF Spends, Alike
  <2>2. CASE Fits(w, e.size)
    <3> DEFINE kept == [w EXCEPT !.interfaces = Append(@, e), !.bytes = @ + e.size]
    <3>1. v \in {kept, Doubtful(kept, "parse_failure", e.path)}
      BY <2>2 DEF WithInterface
    <3>2. /\ DOMAIN kept = WorkFields /\ kept.interfaces = Append(w.interfaces, e)
          /\ kept.bytes = w.bytes + e.size
          /\ kept.request = w.request /\ kept.model = w.model /\ kept.excerpts = w.excerpts
          /\ kept.architecture = w.architecture /\ kept.first = w.first
          /\ kept.required = w.required /\ kept.described = w.described /\ kept.doubts = w.doubts
          /\ kept.summaries = w.summaries /\ kept.documents = w.documents /\ kept.others = w.others
      BY <1>1 DEF WorkFields
    <3> HIDE DEF kept, v
    <3>3. kept.bytes \in Nat /\ w.bytes + e.size <= kept.bytes /\ kept.bytes <= w.request.package
      BY <1>1, <1>2, <2>2, <3>2 DEF Fits
    <3>4. Filled(kept)
      BY <1>1, <1>2, <3>2, <3>3, FilledMore
    <3>5. Sound(kept)
      BY <1>1, <3>2, <3>4 DEF Sound
    <3>6. Spends(kept, kept) /\ Spends(Doubtful(kept, "parse_failure", e.path), kept)
      BY <3>2, <3>3, NothingSpent, DoubtSpends
    <3>7. Spends(v, kept)
      BY <3>1, <3>6
    <3>8. Sound(v)
      BY <3>5, <3>7, SpendingIsSound
    <3> QED BY <3>2, <3>7, <3>8 DEF Spends, Alike
  <2> QED BY <2>1, <2>2
<1> HIDE DEF v
<1>4. /\ DOMAIN out = WorkFields /\ out.first = Nothing /\ out.described = Tail(w.described)
      /\ out.request = v.request /\ out.model = v.model /\ out.excerpts = v.excerpts
      /\ out.interfaces = v.interfaces /\ out.architecture = v.architecture
      /\ out.required = v.required /\ out.doubts = v.doubts
      /\ out.summaries = v.summaries /\ out.documents = v.documents /\ out.others = v.others
      /\ out.bytes = v.bytes
  <2>1. DOMAIN v = WorkFields
    BY <1>3 DEF Sound
  <2> QED BY <1>3, <2>1 DEF WorkFields
<1> HIDE DEF out
<1>5. Filled(out)
  BY <1>3, <1>4 DEF Sound, Filled, Hidden
<1>6. IsTodo(Tail(w.described), w.request)
  BY <1>1, RestOfTodo
<1>7. Sound(out)
  BY <1>3, <1>4, <1>5, <1>6 DEF Sound
<1>8. Faithful(out)
  BY <1>1, <1>3, <1>4, FaithfulSame
<1> QED BY <1>7, <1>8 DEF IsWork, out, v, e

\* The summaries.
LEMMA SummariesAreWork ==
  ASSUME NEW w, IsWork(w)
  PROVE  IsWork([WithSummaries(w) EXCEPT !.summarised = TRUE])
<1> DEFINE v == WithSummaries(w)
           out == [v EXCEPT !.summarised = TRUE]
<1>1. /\ Sound(w) /\ Faithful(w) /\ DOMAIN w = WorkFields /\ w.request.package \in Nat
      /\ w.bytes \in Nat /\ w.bytes <= w.request.package /\ w.summaries \in Nat
  BY DEF IsWork, Sound, Filled, Requests
<1>2. Spends(v, w)
  <2>1. CASE w.summaries <= w.request.package - w.bytes
    <3>1. v = [w EXCEPT !.bytes = @ + w.summaries]
      BY <2>1 DEF WithSummaries
    <3> HIDE DEF v
    <3>2. Alike(v, w) /\ v.bytes = w.bytes + w.summaries /\ v.doubts = w.doubts
      BY <1>1, <3>1 DEF Alike, WorkFields
    <3>3. v.bytes \in Nat /\ w.bytes <= v.bytes /\ v.bytes <= w.request.package
      BY <1>1, <2>1, <3>2
    <3> QED BY <3>2, <3>3 DEF Spends
  <2>2. CASE ~(w.summaries <= w.request.package - w.bytes)
    <3> DEFINE d == Doubtful(w, "budget_exhausted", <<"summaries">>)
    <3>1. v = [d EXCEPT !.bytes = w.request.package]
      BY <2>2 DEF WithSummaries
    <3>2. Spends(d, w) /\ d.doubts # {}
      BY <1>1, DoubtSpends
    <3> HIDE DEF v, d
    <3>3. Alike(v, w) /\ v.bytes = w.request.package /\ v.doubts = d.doubts
      BY <3>1, <3>2 DEF Spends, Alike, WorkFields
    <3>4. w.request.package <= w.request.package
      BY <1>1
    <3> QED BY <1>1, <3>2, <3>3, <3>4 DEF Spends
  <2> QED BY <2>1, <2>2
<1> HIDE DEF v
<1>3. Spends(out, w)
  BY <1>2 DEF Spends, Alike, WorkFields
<1> HIDE DEF out
<1>4. IsWork(out)
  BY <1>1, <1>3, SpendingIsSound DEF IsWork
<1> QED BY <1>4 DEF out, v

\* The next document.
LEMMA DocumentIsWork ==
  ASSUME tree \in Files, NEW w, IsWork(w), w.documents # << >>
  PROVE  IsWork(WithDocument(w, Excerpt(Head(w.documents), ArchitectureLines, DefaultExcerpt)))
<1> DEFINE e == Excerpt(Head(w.documents), ArchitectureLines, DefaultExcerpt)
           out == WithDocument(w, e)
<1>1. /\ Sound(w) /\ Faithful(w) /\ DOMAIN w = WorkFields /\ w.documents \in Seq(PathSet)
      /\ w.request \in Requests /\ Filled(w)
      /\ w.bytes \in Nat /\ w.bytes <= w.request.package
  BY DEF IsWork, Sound, Filled
<1>2. Head(w.documents) \in PathSet /\ Tail(w.documents) \in Seq(PathSet)
  BY <1>1, HeadTailProperties
<1>3. e \in Parts /\ Safe(e) /\ e.size \in Nat
  <2>1. ArchitectureLines \in Nat /\ DefaultExcerpt \in Nat
    BY SizesAssumption
  <2>2. e \in Parts /\ Safe(e)
    BY <1>2, <2>1, ExcerptIsSafe
  <2> HIDE DEF e
  <2> QED BY <2>2 DEF Parts
<1> HIDE DEF e
<1>4. CASE Fits(w, e.size)
  <2>1. out = [w EXCEPT !.architecture = Append(@, e), !.bytes = @ + e.size, !.documents = Tail(@)]
    BY <1>4 DEF WithDocument
  <2> HIDE DEF out
  <2>2. /\ DOMAIN out = WorkFields /\ out.architecture = Append(w.architecture, e)
        /\ out.bytes = w.bytes + e.size /\ out.documents = Tail(w.documents)
        /\ out.request = w.request /\ out.model = w.model /\ out.excerpts = w.excerpts
        /\ out.interfaces = w.interfaces /\ out.first = w.first
        /\ out.required = w.required /\ out.described = w.described /\ out.doubts = w.doubts
        /\ out.summaries = w.summaries /\ out.others = w.others
    BY <1>1, <2>1 DEF WorkFields
  <2>3. out.bytes \in Nat /\ w.bytes + e.size <= out.bytes /\ out.bytes <= w.request.package
    BY <1>1, <1>3, <1>4, <2>2 DEF Fits
  <2>4. Filled(out)
    BY <1>1, <1>3, <2>2, <2>3, FilledMore
  <2>5. Sound(out)
    BY <1>1, <1>2, <2>2, <2>4 DEF Sound
  <2>6. Faithful(out)
    BY <1>1, <2>2, FaithfulSame
  <2> QED BY <2>5, <2>6 DEF IsWork, out, e
<1>5. CASE ~Fits(w, e.size)
  <2> DEFINE d == Doubtful(w, "budget_exhausted", e.path)
  <2>1. out = [d EXCEPT !.documents = << >>]
    BY <1>5 DEF WithDocument
  <2>2. Spends(d, w) /\ d.doubts # {}
    BY <1>1, DoubtSpends
  <2>3. Sound(d) /\ DOMAIN d = WorkFields
    BY <1>1, <2>2, SpendingIsSound DEF Spends, Alike
  <2> HIDE DEF d, out
  <2>4. /\ DOMAIN out = WorkFields /\ out.documents = << >>
        /\ out.request = d.request /\ out.model = d.model /\ out.excerpts = d.excerpts
        /\ out.interfaces = d.interfaces /\ out.architecture = d.architecture /\ out.first = d.first
        /\ out.required = d.required /\ out.described = d.described /\ out.doubts = d.doubts
        /\ out.summaries = d.summaries /\ out.others = d.others /\ out.bytes = d.bytes
    BY <2>1, <2>3 DEF WorkFields
  <2>5. Filled(out)
    BY <2>3, <2>4 DEF Sound, Filled, Hidden
  <2>6. Sound(out)
    BY <2>3, <2>4, <2>5 DEF Sound
  <2>7. Faithful(out)
    BY <2>2, <2>4 DEF Faithful
  <2> QED BY <2>6, <2>7 DEF IsWork, out, e
<1> QED BY <1>4, <1>5

-----------------------------------------------------------------------------
(* The package at the start.                                               *)

\* One record of the envelope.
BlobNext(c, kind, acc) ==
  IF acc.critical THEN acc
  ELSE IF Fits(acc, 1) THEN [acc EXCEPT !.bytes = @ + 1] ELSE Critical(acc, kind)

\* One allowed path.
EditableNext(c, path, acc) ==
  IF Fits(acc, 1) THEN Warned([acc EXCEPT !.bytes = @ + 1], path) ELSE Critical(acc, path)

\* The records of the envelope as a fold.
BlobSteps == INSTANCE RecursionTheorems WITH Value <- BlobNext

\* The allowed paths as a fold.
EditableSteps == INSTANCE RecursionTheorems WITH Value <- EditableNext

\* The records of the envelope.
Blobs == <<<<"task_contract">>, <<"authority_non_goals">>, <<"acceptance">>>>

\* Enveloped adds one record and one allowed path after the other.
LEMMA EnvelopedIsFold ==
  ASSUME NEW w
  PROVE  Enveloped(w) = EditableSteps!Fold(0, BlobSteps!Fold(0, w, Blobs), Ordered(w.request.allowed))
BY Zenon DEF Enveloped, Blobs, FoldLeft, MapThenFoldSet, Max, BlobNext, EditableNext,
             BlobSteps!Fold, BlobSteps!FoldFrom, BlobSteps!Greatest,
             EditableSteps!Fold, EditableSteps!FoldFrom, EditableSteps!Greatest

\* One record or one path spends.
LEMMA EnvelopeStep ==
  ASSUME NEW w, w.request \in Requests, w.bytes \in Nat, NEW acc, Spends(acc, w), NEW x,
         NEW out \in {BlobNext(0, x, acc), EditableNext(0, x, acc)}
  PROVE  Spends(out, w)
<1> DEFINE more == [acc EXCEPT !.bytes = @ + 1]
<1>1. /\ DOMAIN acc = WorkFields /\ acc.bytes \in Nat /\ acc.request \in Requests
      /\ acc.bytes <= acc.request.package
  BY DEF Spends, Alike
<1>2. Spends(acc, acc) /\ Spends(Critical(acc, x), acc)
  BY <1>1, NothingSpent, DoubtSpends
<1>3. ASSUME Fits(acc, 1) PROVE Spends(more, acc) /\ Spends(Warned(more, x), acc)
  <2>1. Spends(more, acc)
    BY <1>1, <1>3, ByteSpends
  <2> HIDE DEF more
  <2>2. DOMAIN more = WorkFields /\ more.bytes \in Nat /\ more.request \in Requests
        /\ more.bytes <= more.request.package
    BY <1>1, <2>1 DEF Spends, Alike
  <2>3. Spends(Warned(more, x), more)
    BY <2>2, WarningSpends
  <2> QED BY <1>1, <2>1, <2>3, SpendingTwice
<1>4. Spends(out, acc)
  <2> HIDE DEF more
  <2>1. out \in {acc, Critical(acc, x)} \/ (Fits(acc, 1) /\ out \in {more, Warned(more, x)})
    BY Zenon DEF BlobNext, EditableNext, more
  <2> QED BY <1>2, <1>3, <2>1
<1> QED BY <1>4, SpendingTwice

\* Steps that spend, one after the other.
LEMMA StepsSpend ==
  ASSUME NEW w, NEW n \in Nat, NEW f, Spends(f[0], w),
         \A k \in 1..n : Spends(f[k - 1], w) => Spends(f[k], w)
  PROVE  Spends(f[n], w)
<1> DEFINE K == {k \in 0..n : Spends(f[k], w)}
<1>1. 0 \in K
  OBVIOUS
<1>2. ASSUME NEW k \in 0..n, k < n, k \in K PROVE k + 1 \in K
  <2>1. k + 1 \in 1..n /\ k + 1 \in 0..n /\ (k + 1) - 1 = k
    BY ONLY n \in Nat, <1>2
  <2>2. Spends(f[k + 1], w)
    BY <1>2, <2>1
  <2> QED BY <2>1, <2>2
<1>3. \A k \in 0..n : k \in K
  <2> HIDE DEF K
  <2> QED BY <1>1, <1>2, BlobSteps!Induction
<1>4. n \in 0..n
  OBVIOUS
<1> QED BY <1>3, <1>4

\* The envelope spends bytes and adds doubts, no more.
LEMMA EnvelopedSpends ==
  ASSUME NEW w, DOMAIN w = WorkFields, w.request \in Requests, w.bytes = 0
  PROVE  Spends(Enveloped(w), w)
<1>1. w.bytes \in Nat /\ w.bytes <= w.request.package
  BY DEF Requests
<1>2. Spends(w, w)
  BY <1>1, NothingSpent
<1> DEFINE v == BlobSteps!Fold(0, w, Blobs)
           allowed == Ordered(w.request.allowed)
           out == EditableSteps!Fold(0, v, allowed)
<1>3. Spends(v, w)
  <2>1. Blobs \in Seq({Blobs[1], Blobs[2], Blobs[3]}) /\ Len(Blobs) \in Nat
    BY DEF Blobs
  <2>2. PICK f : BlobSteps!Steps(f, 0, w, Blobs) /\ v = f[Len(Blobs)]
    BY <2>1, BlobSteps!FoldSteps
  <2>3. ASSUME NEW k \in 1..Len(Blobs), Spends(f[k - 1], w) PROVE Spends(f[k], w)
    <3>1. f[k] = BlobNext(0, Blobs[k], f[k - 1])
      BY <2>2 DEF BlobSteps!Steps
    <3> QED BY <1>1, <2>3, <3>1, EnvelopeStep
  <2>4. f[0] = w
    BY <2>2 DEF BlobSteps!Steps
  <2> HIDE DEF v
  <2>5. Len(Blobs) \in Nat
    BY <2>1
  <2>6. Spends(f[0], w)
    BY <1>2, <2>4
  <2>7. \A k \in 1..Len(Blobs) : Spends(f[k - 1], w) => Spends(f[k], w)
    BY <2>3
  <2>8. Spends(f[Len(Blobs)], w)
    BY ONLY <2>5, <2>6, <2>7, StepsSpend
  <2> QED BY <2>2, <2>8
<1> HIDE DEF v
<1>4. Spends(out, w)
  <2>1. allowed \in Seq(PathSet)
    BY OrderedElements
  <2> HIDE DEF allowed
  <2>2. Len(allowed) \in Nat
    BY <2>1
  <2>3. PICK f : EditableSteps!Steps(f, 0, v, allowed) /\ out = f[Len(allowed)]
    BY <2>1, EditableSteps!FoldSteps
  <2>4. ASSUME NEW k \in 1..Len(allowed), Spends(f[k - 1], w) PROVE Spends(f[k], w)
    <3>1. f[k] = EditableNext(0, allowed[k], f[k - 1])
      BY <2>3 DEF EditableSteps!Steps
    <3> QED BY <1>1, <2>4, <3>1, EnvelopeStep
  <2>5. f[0] = v
    BY <2>3 DEF EditableSteps!Steps
  <2> HIDE DEF out
  <2> QED BY <1>3, <2>2, <2>3, <2>4, <2>5, StepsSpend
<1> QED BY <1>4, EnvelopedIsFold DEF v, out, allowed

\* The paths with a tag, in their order.
LEMMA TaggedAre ==
  ASSUME NEW items, NEW tag
  PROVE  /\ Tagged(items, tag) \in Seq(PathSet)
         /\ ToSet(Tagged(items, tag)) = With(items, tag)
         /\ Len(Tagged(items, tag)) = Cardinality(With(items, tag))
         /\ Len(Tagged(items, tag)) \in Nat
<1> DEFINE s == Tagged(items, tag)
<1>1. s \in Seq(PathSet) /\ ToSet(s) = With(items, tag) /\ Distinct(s)
  BY OrderedElements DEF Tagged, With
<1> HIDE DEF s
<1>2. Cardinality(ToSet(s)) = Len(s) /\ Len(s) \in Nat
  BY <1>1, DistinctLength
<1> QED BY <1>1, <1>2 DEF s

\* The paths a plan picks are in three lists that have no path in common.
LEMMA PickedInLists ==
  ASSUME NEW r, NEW items, IsPlan(items, r)
  PROVE  Cardinality(With(items, "REQUIRED")) + Cardinality(With(items, "POSSIBLE"))
           + Cardinality(With(items, "SUPPORTING")) = Cardinality(PickedOf(items))
<1> DEFINE A == With(items, "REQUIRED")
           B == With(items, "POSSIBLE")
           C == With(items, "SUPPORTING")
<1>1. ASSUME NEW t, NEW u, t # u PROVE With(items, t) \cap With(items, u) = {}
  BY <1>1 DEF With, IsPlan
<1>2. A \cap B = {} /\ (A \cup B) \cap C = {}
  BY <1>1
<1>3. A \in SUBSET PathSet /\ B \in SUBSET PathSet /\ C \in SUBSET PathSet /\ A \cup B \in SUBSET PathSet
  BY DEF With
<1>4. PickedOf(items) = (A \cup B) \cup C
  BY DEF PickedOf
<1> HIDE DEF A, B, C
<1>5. IsFiniteSet(A) /\ IsFiniteSet(B) /\ IsFiniteSet(C) /\ IsFiniteSet(A \cup B)
      /\ Cardinality(A) \in Nat /\ Cardinality(B) \in Nat /\ Cardinality(C) \in Nat
  BY <1>3, PathsFinite
<1>6. Cardinality({}) = 0
  BY FS_EmptySet
<1>7. Cardinality(A \cup B) = Cardinality(A) + Cardinality(B)
  <2>1. Cardinality(A \cup B) = Cardinality(A) + Cardinality(B) - Cardinality(A \cap B)
    BY <1>5, FS_Union
  <2>2. Cardinality(A \cap B) = 0
    BY <1>2, <1>6, Zenon
  <2> QED BY ONLY <1>5, <2>1, <2>2
<1>8. Cardinality((A \cup B) \cup C) = Cardinality(A \cup B) + Cardinality(C)
  <2>1. Cardinality((A \cup B) \cup C)
          = Cardinality(A \cup B) + Cardinality(C) - Cardinality((A \cup B) \cap C)
    BY <1>5, FS_Union
  <2>2. Cardinality((A \cup B) \cap C) = 0
    BY <1>2, <1>6, Zenon
  <2> QED BY ONLY <1>5, <1>7, <2>1, <2>2
<1> QED BY <1>4, <1>5, <1>7, <1>8 DEF A, B, C

\* The summaries are a number.
LEMMA SummariesType ==
  ASSUME IsModel(theModel), NEW r \in Requests, NEW items \in SUBSET Items
  PROVE  Summaries(r, items) \in Nat
<1> DEFINE owners == {i.component : i \in {j \in items : j.tag = "REQUIRED"}}
           components == r.components \cup (owners \ {NoComponent})
           a == Cardinality(components)
           b == r.maxComponents
           seeds == r.seeds \cup r.allowed
           tests == {p \in DOMAIN theModel.files : IsTest(p)}
           related == {p \in tests : RelatedSeeds[p] \cap seeds # {}}
           Least(x) == \A y \in {a, b} : x =< y
<1>1. components \subseteq Components
  BY DEF Requests, Items
<1>2. a \in Nat /\ b \in Nat
  BY <1>1, ComponentsFinite DEF Requests
<1>3. Cardinality(IF related = {} THEN tests ELSE related) \in Nat
  <2>1. tests \in SUBSET PathSet /\ related \in SUBSET PathSet
    BY DEF IsModel
  <2> HIDE DEF tests, related
  <2> QED BY <2>1, PathsFinite
<1>4. RelatedTests(seeds) \in Nat
  BY <1>3, Zenon DEF RelatedTests
<1> HIDE DEF a, b
<1>5. Min({a, b}) \in Nat
  <2>1. \E x \in {a, b} : Least(x)
    BY <1>2
  <2>2. (CHOOSE x \in {a, b} : Least(x)) \in {a, b}
    BY <2>1, Zenon
  <2>3. Min({a, b}) \in {a, b}
    BY <2>2, Zenon DEF Min
  <2> QED BY <1>2, <2>3
<1>6. Summaries(r, items) = Min({a, b}) + RelatedTests(seeds)
  BY Zenon DEF Summaries, a, b
<1> HIDE DEF seeds
<1> QED BY <1>4, <1>5, <1>6

\* The documents of the model.
LEMMA DocumentsAre ==
  ASSUME NEW n \in Nat
  PROVE  Documents(n) \in Seq(PathSet)
<1> DEFINE s == Ordered(ArchitectureDocs \cap (DOMAIN theModel.files \ SecretPaths))
<1>1. s \in Seq(PathSet)
  BY OrderedElements
<1>2. Documents(n) = UpTo(s, n)
  BY DEF Documents
<1> HIDE DEF s
<1> QED BY <1>1, <1>2, UpToFacts

\* The package that is begun has nothing to show yet, and everything to read.
LEMMA NewWorkIsWork ==
  ASSUME IsModel(theModel), NEW r \in Requests, RequestAccepted(r)
  PROVE  IsWork(NewWork(r))
<1> DEFINE selection == SelectionPlan(r, theModel)
           items == selection.items
           required == Tagged(items, "REQUIRED")
           possible == Tagged(items, "POSSIBLE")
           supporting == Tagged(items, "SUPPORTING")
           python == Chosen(required \o supporting, {p \in PathSet : IsPython(p)})
           described == UpTo(python, MaxInterfaces)
           summaries == Summaries(r, items)
           documents == Documents(MaxArchDocs)
           others == possible \o supporting
           w == [request |-> r, model |-> theModel, bytes |-> 0, doubts |-> selection.doubts,
                 critical |-> FALSE, restricted |-> FALSE,
                 excerpts |-> << >>, interfaces |-> << >>, architecture |-> << >>,
                 required |-> required, described |-> described, first |-> Nothing,
                 summaries |-> summaries, summarised |-> FALSE,
                 documents |-> documents, others |-> others]
<1>1. NewWork(r) = Enveloped(w)
  BY Zenon DEF NewWork, Unfilled
<1>2. IsPlan(items, r) /\ (selection.doubts = {} => Covers(items, r, theModel))
  BY PlanIs
<1> HIDE DEF selection, items
<1>3. /\ required \in Seq(PathSet) /\ ToSet(required) = With(items, "REQUIRED")
      /\ possible \in Seq(PathSet) /\ ToSet(possible) = With(items, "POSSIBLE")
      /\ supporting \in Seq(PathSet) /\ ToSet(supporting) = With(items, "SUPPORTING")
  BY TaggedAre
<1>4. With(items, "REQUIRED") \cap r.forbidden = {} /\ With(items, "POSSIBLE") \cap r.forbidden = {}
      /\ With(items, "SUPPORTING") \cap r.forbidden = {}
  BY <1>2 DEF IsPlan, With
<1>5. Len(required) + Len(others) = Cardinality(PickedOf(items)) /\ Len(required) \in Nat /\ Len(others) \in Nat
  <2> DEFINE a == Len(required)
             b == Len(possible)
             d == Len(supporting)
  <2>1. /\ a = Cardinality(With(items, "REQUIRED")) /\ b = Cardinality(With(items, "POSSIBLE"))
        /\ d = Cardinality(With(items, "SUPPORTING")) /\ a \in Nat /\ b \in Nat /\ d \in Nat
    BY TaggedAre
  <2> HIDE DEF required, possible, supporting
  <2>2. Len(others) = b + d
    BY <1>3, ConcatProperties
  <2>3. a + b + d = Cardinality(PickedOf(items))
    BY <1>2, <2>1, PickedInLists
  <2> HIDE DEF a, b, d, others
  <2>4. a + Len(others) = a + b + d /\ Len(others) \in Nat
    BY ONLY <2>1, <2>2
  <2> QED BY <2>1, <2>3, <2>4 DEF a
<1> HIDE DEF required, possible, supporting
<1>6. others \in Seq(PathSet) /\ ToSet(others) = With(items, "POSSIBLE") \cup With(items, "SUPPORTING")
  BY <1>3, JoinedSet
<1>7. IsTodo(described, r)
  <2> DEFINE both == required \o supporting
  <2>1. both \in Seq(PathSet) /\ ToSet(both) \cap r.forbidden = {}
    <3>1. both \in Seq(PathSet) /\ ToSet(both) = ToSet(required) \cup ToSet(supporting)
      BY <1>3, JoinedSet
    <3> HIDE DEF both
    <3> QED BY <1>3, <1>4, <3>1
  <2> HIDE DEF both
  <2>2. python \in Seq(PathSet) /\ ToSet(python) \subseteq ToSet(both)
    <3> DEFINE S == {p \in PathSet : IsPython(p)}
    <3>1. python = Chosen(both, S)
      BY DEF both
    <3> HIDE DEF S, python
    <3>2. Chosen(both, S) \in Seq(PathSet) /\ ToSet(Chosen(both, S)) = ToSet(both) \cap S
      BY <2>1, ChosenElements
    <3> QED BY <3>1, <3>2
  <2> HIDE DEF python
  <2>3. described \in Seq(PathSet) /\ ToSet(described) \subseteq ToSet(python)
    <3>1. MaxInterfaces \in Nat
      BY DEF MaxInterfaces
    <3> QED BY <2>2, <3>1, UpToFacts
  <2> QED BY <2>1, <2>2, <2>3 DEF IsTodo
<1>8. documents \in Seq(PathSet)
  BY DocumentsAre DEF MaxArchDocs
<1>9. summaries \in Nat
  <2>1. items \in SUBSET Items
    BY <1>2 DEF IsPlan
  <2> QED BY <2>1, SummariesType
<1> HIDE DEF others, described, documents, summaries
<1>10. /\ DOMAIN w = WorkFields /\ w.request = r /\ w.model = theModel /\ w.bytes = 0
       /\ w.doubts = selection.doubts /\ w.excerpts = << >> /\ w.interfaces = << >>
       /\ w.architecture = << >> /\ w.required = required /\ w.described = described
       /\ w.first = Nothing /\ w.summaries = summaries /\ w.documents = documents
       /\ w.others = others
  BY DEF WorkFields
<1> HIDE DEF w
<1>11. Filled(w)
  <2>1. << >> \in Seq(Parts) /\ ToSet(<< >>) = {} /\ r.package \in Nat
    BY DEF ToSet, Requests
  <2>2. 0 <= r.package
    BY <2>1
  <2>3. SizeOf(w.excerpts) + SizeOf(w.interfaces) + SizeOf(w.architecture) <= w.bytes
    BY <1>10, SizeOfNothing
  <2>4. Hidden(w, r)
    BY <1>10, <2>1 DEF Hidden
  <2> QED BY <1>10, <2>1, <2>2, <2>3, <2>4 DEF Filled
<1>12. Sound(w)
  <2>1. IsTodo(required, r) /\ IsTodo(others, r)
    BY <1>3, <1>4, <1>6 DEF IsTodo
  <2> QED BY <1>7, <1>8, <1>9, <1>10, <1>11, <2>1 DEF Sound
<1>13. Faithful(w)
  <2> SUFFICES ASSUME selection.doubts = {}
               PROVE  /\ Cardinality(Stated(r)) <= r.maxExcerpts =>
                           /\ Len(w.excerpts) + Len(required) + Len(others) <= r.maxExcerpts
                           /\ Stated(r) \subseteq Shown(w) \cup ToSet(required)
                      /\ Cardinality(Considered(r, theModel)) <= r.maxExcerpts =>
                           Wanted(r, theModel) \subseteq Shown(w) \cup ToSet(required) \cup ToSet(others)
    BY <1>10 DEF Faithful
  <2>1. Covers(items, r, theModel)
    BY <1>2
  <2>2. Len(w.excerpts) + Len(required) + Len(others) = Cardinality(PickedOf(items))
    <3>1. Len(w.excerpts) = 0
      BY <1>10
    <3> QED BY <1>5, <3>1
  <2> QED BY <1>3, <1>6, <2>1, <2>2 DEF Covers, PickedOf
<1>14. Spends(Enveloped(w), w)
  BY <1>10, EnvelopedSpends
<1> QED BY <1>1, <1>12, <1>13, <1>14, SpendingIsSound DEF IsWork

-----------------------------------------------------------------------------
(* The invariant.                                                          *)

\* A model being built has files and edges of the tree, and files to read.
BuilderIsSound ==
  builder # Idle =>
    /\ DOMAIN builder = {"stage", "todo", "made"}
    /\ IsModel(builder.made) /\ builder.todo \in Seq(PathSet)
    /\ builder.stage = "inventory" => builder.todo # << >>

\* A package called sufficient shows what it should.
ShowsAll(p) ==
  LET r == p.request
  IN /\ Cardinality(Stated(r)) <= r.maxExcerpts => Stated(r) \subseteq Shown(p)
     /\ Cardinality(Considered(r, p.model)) <= r.maxExcerpts => Wanted(r, p.model) \subseteq Shown(p)

\* The newest package is within its budgets, hides what it should, and shows all it
\* should if it says so.
PackageIsSound ==
  package # Nothing => Filled(package) /\ (package.completeness = "sufficient" => ShowsAll(package))

\* What was read for a supplement shows no secret, and an interface is of a file
\* that is not forbidden.
ServingIsSound ==
  /\ ask # Nothing => ask.budget \in Nat
  /\ serving # Nothing =>
       /\ ask # Nothing
       /\ serving.todo \in Seq(PathSet) /\ serving.got \in Seq(Parts)
       /\ \A e \in ToSet(serving.got) : Safe(e)
       /\ ask.category = "interface_summary" =>
            serving.got # << >> /\ serving.got[1].path \notin ask.of.request.forbidden

\* The inductive invariant of the context engine.
ContextInv ==
  /\ tree \in Files
  /\ BuilderIsSound
  /\ theModel # Nothing => IsModel(theModel)
  /\ work # Nothing => IsWork(work)
  /\ PackageIsSound
  /\ ServingIsSound
  /\ answer # Nothing => Hidden(answer.evidence, answer.request)

\* The invariant holds at first.
LEMMA ContextInitially == ContextInit => ContextInv
BY TreesAssumption DEF ContextInit, ContextInv, BuilderIsSound, PackageIsSound, ServingIsSound, Files

\* The invariant is what a package and a supplement promise.
LEMMA InvIsHonest == ContextInv => PackageIsHonest
<1> SUFFICES ASSUME ContextInv PROVE PackageIsHonest
  OBVIOUS
<1>1. SufficientIsComplete
  BY DEF ContextInv, PackageIsSound, ShowsAll, SufficientIsComplete, Stated, Considered, Wanted, FilesIn, Shown
<1>2. SecretsStayHidden
  BY DEF ContextInv, PackageIsSound, Filled, SecretsStayHidden
<1>3. BudgetIsKept
  BY DEF ContextInv, PackageIsSound, Filled, BudgetIsKept
<1> QED BY <1>1, <1>2, <1>3 DEF PackageIsHonest

\* Steps that build a model.
LEMMA BuilderKeeps ==
  ASSUME ContextInv,
         \/ \E p \in PathSet, c \in Contents \cup {Gone, Link} : WriteFile(p, c)
         \/ \E b \in Bases : StartModel(b)
         \/ ReadForInventory \/ ReadImports \/ SealModel \/ ModelFails
  PROVE  ContextInv'
<1> USE DEF ContextInv
<1>1. CASE \E p \in PathSet, c \in Contents \cup {Gone, Link} : WriteFile(p, c)
  <2>1. PICK p \in PathSet, c \in Contents \cup {Gone, Link} : WriteFile(p, c)
    BY <1>1
  <2>2. tree' \in Files
    BY <2>1 DEF WriteFile, Files
  <2> QED BY <2>1, <2>2 DEF WriteFile, BuilderIsSound, PackageIsSound, ServingIsSound
<1> DEFINE rest == <<tree, theModel, work, package, ask, serving, answer>>
<1>2. ASSUME BuilderIsSound', UNCHANGED rest PROVE ContextInv'
  BY <1>2 DEF PackageIsSound, ServingIsSound
<1> HIDE DEF ContextInv
<1>3. CASE \E b \in Bases : StartModel(b)
  <2>1. PICK b \in Bases : StartModel(b)
    BY <1>3
  <2>2. BuilderIsSound'
    <3>1. IsModel(NewModel(b))
      BY NewModelIsModel
    <3> QED BY <2>1, <3>1, PathsAssumption DEF StartModel, BuilderIsSound
  <2> QED BY <1>2, <2>1, <2>2 DEF StartModel
<1>4. CASE ReadForInventory
  <2> DEFINE path == Head(builder.todo)
             made == Inventoried(builder.made, path, tree[path])
  <2>1. builder # Idle /\ builder.stage = "inventory"
    BY <1>4 DEF ReadForInventory, Idle
  <2>2. /\ DOMAIN builder = {"stage", "todo", "made"} /\ IsModel(builder.made)
        /\ builder.todo \in Seq(PathSet) /\ builder.todo # << >>
    BY <2>1 DEF ContextInv, BuilderIsSound
  <2>3. path \in PathSet /\ Tail(builder.todo) \in Seq(PathSet)
    BY <2>2, HeadTailProperties
  <2>4. IsModel(made)
    BY <2>2, <2>3, InventoriedIsModel
  <2>5. ToScan(made) \in Seq(PathSet)
    BY OrderedElements DEF ToScan
  <2>6. \/ Tail(builder.todo) # << >> /\ builder' = [builder EXCEPT !.todo = Tail(@), !.made = made]
        \/ builder' = [stage |-> "imports", todo |-> ToScan(made), made |-> made]
    BY <1>4 DEF ReadForInventory
  <2> HIDE DEF made, path
  <2>7. BuilderIsSound'
    <3>1. PICK b : b = builder'
      OBVIOUS
    <3>2. /\ DOMAIN b = {"stage", "todo", "made"} /\ IsModel(b.made) /\ b.todo \in Seq(PathSet)
          /\ b.stage = "inventory" => b.todo # << >>
      <4>1. CASE Tail(builder.todo) # << >> /\ b = [builder EXCEPT !.todo = Tail(@), !.made = made]
        <5>1. DOMAIN b = {"stage", "todo", "made"} /\ b.todo = Tail(builder.todo) /\ b.made = made
          BY <2>2, <4>1
        <5> QED BY <2>3, <2>4, <4>1, <5>1
      <4>2. CASE b = [stage |-> "imports", todo |-> ToScan(made), made |-> made]
        BY <2>4, <2>5, <4>2
      <4> QED BY <2>6, <3>1, <4>1, <4>2
    <3> QED BY <3>1, <3>2 DEF BuilderIsSound
  <2> QED BY <1>2, <1>4, <2>7 DEF ReadForInventory
<1>5. CASE ReadImports
  <2> DEFINE path == Head(builder.todo)
             made == Scanned(builder.made, path, tree[path])
  <2>1. builder # Idle /\ builder.stage = "imports" /\ builder.todo # << >>
    BY <1>5 DEF ReadImports, Idle
  <2>2. /\ DOMAIN builder = {"stage", "todo", "made"} /\ IsModel(builder.made)
        /\ builder.todo \in Seq(PathSet)
    BY <2>1 DEF ContextInv, BuilderIsSound
  <2>3. path \in PathSet /\ Tail(builder.todo) \in Seq(PathSet)
    BY <2>1, <2>2, HeadTailProperties
  <2>4. tree[path] \in Contents \cup {Gone, Link}
    BY <2>3 DEF ContextInv, Files
  <2>5. IsModel(made)
    BY <2>2, <2>3, <2>4, ScannedIsModel
  <2>6. builder' = [builder EXCEPT !.todo = Tail(@), !.made = made]
    BY <1>5 DEF ReadImports
  <2> HIDE DEF made, path
  <2>7. BuilderIsSound'
    <3>1. PICK b : b = builder'
      OBVIOUS
    <3>2. /\ DOMAIN b = {"stage", "todo", "made"} /\ IsModel(b.made) /\ b.todo \in Seq(PathSet)
          /\ b.stage = "imports"
      BY <2>1, <2>2, <2>3, <2>5, <2>6, <3>1
    <3> QED BY <3>1, <3>2 DEF BuilderIsSound
  <2> QED BY <1>2, <1>5, <2>7 DEF ReadImports
<1>6. CASE SealModel
  <2>1. builder # Idle
    BY <1>6 DEF SealModel, Idle
  <2>2. IsModel(builder.made)
    BY <2>1 DEF ContextInv, BuilderIsSound
  <2>3. IsModel(Sealed(builder.made))
    BY <2>2, SealedIsModel
  <2>4. IsModel(theModel)'
    BY <1>6, <2>3 DEF SealModel
  <2> QED BY <1>6, <2>4 DEF SealModel, ContextInv, BuilderIsSound, PackageIsSound, ServingIsSound
<1>7. CASE ModelFails
  <2>1. BuilderIsSound'
    BY <1>7 DEF ModelFails, BuilderIsSound
  <2> QED BY <1>2, <1>7, <2>1 DEF ModelFails
<1> QED BY <1>1, <1>3, <1>4, <1>5, <1>6, <1>7

\* Steps that assemble a package.
LEMMA AssemblyKeeps ==
  ASSUME ContextInv,
         \/ \E s \in TaskScopes, b \in Bases : StartPackage(s, b)
         \/ TakeRequired \/ BeginInterface \/ EndInterface \/ Summarise \/ TakeDocument \/ TakeOther
         \/ SealPackage \/ PackageFails
  PROVE  ContextInv'
<1> DEFINE rest == <<tree, builder, theModel, package, ask, serving, answer>>
<1>1. ASSUME work' # Nothing => IsWork(work'), UNCHANGED rest PROVE ContextInv'
  BY <1>1 DEF ContextInv, BuilderIsSound, PackageIsSound, ServingIsSound
<1>2. ASSUME KeepRest PROVE UNCHANGED rest
  BY <1>2 DEF KeepRest
<1>3. tree \in Files
  BY DEF ContextInv
<1>4. ASSUME NEW stage, Assembling(stage) PROVE IsWork(work) /\ Stage(work) = stage
  BY <1>4 DEF ContextInv, Assembling
<1>5. /\ Stage(work) = "required" => work.required # << >>
      /\ Stage(work) = "interfaces" => work.described # << >>
      /\ Stage(work) = "documents" => work.documents # << >>
      /\ Stage(work) = "others" => work.required = << >> /\ work.others # << >>
      /\ Stage(work) = "done" => work.required = << >> /\ work.others = << >>
  BY DEF Stage
<1>6. CASE \E s \in TaskScopes, b \in Bases : StartPackage(s, b)
  <2>1. PICK s \in TaskScopes, b \in Bases : StartPackage(s, b)
    BY <1>6
  <2> DEFINE r == [s EXCEPT !.base = b]
  <2>2. r \in Requests
    BY TasksAssumption DEF Requests, Components
  <2>3. theModel # Nothing /\ RequestAccepted(r) /\ work' = NewWork(r) /\ UNCHANGED rest
    BY <2>1 DEF StartPackage
  <2>4. IsModel(theModel)
    BY <2>3 DEF ContextInv
  <2> HIDE DEF r
  <2>5. IsWork(NewWork(r))
    BY <2>2, <2>3, <2>4, NewWorkIsWork
  <2>6. IsWork(work')
    BY <2>3, <2>5
  <2> QED BY <1>1, <2>3, <2>6
<1>7. CASE TakeRequired
  <2>1. IsWork(WithRequired(work))
    BY <1>3, <1>4, <1>5, <1>7, RequiredIsWork DEF TakeRequired
  <2>2. IsWork(work')
    BY <1>7, <2>1 DEF TakeRequired
  <2> QED BY <1>1, <1>2, <1>7, <2>2 DEF TakeRequired
<1>8. CASE BeginInterface
  <2>1. IsWork([work EXCEPT !.first = Excerpt(Head(work.described), Whole, MaxExcerpt)])
    BY <1>3, <1>4, <1>5, <1>8, FirstIsWork DEF BeginInterface
  <2>2. IsWork(work')
    BY <1>8, <2>1 DEF BeginInterface
  <2> QED BY <1>1, <1>2, <1>8, <2>2 DEF BeginInterface
<1>9. CASE EndInterface
  <2>1. IsWork([WithInterface(work, Described(work.first)) EXCEPT !.first = Nothing, !.described = Tail(@)])
    BY <1>3, <1>4, <1>5, <1>9, InterfaceIsWork DEF EndInterface
  <2>2. IsWork(work')
    BY <1>9, <2>1 DEF EndInterface
  <2> QED BY <1>1, <1>2, <1>9, <2>2 DEF EndInterface
<1>10. CASE Summarise
  <2>1. IsWork([WithSummaries(work) EXCEPT !.summarised = TRUE])
    BY <1>4, <1>10, SummariesAreWork DEF Summarise
  <2>2. IsWork(work')
    BY <1>10, <2>1 DEF Summarise
  <2> QED BY <1>1, <1>2, <1>10, <2>2 DEF Summarise
<1>11. CASE TakeDocument
  <2>1. IsWork(WithDocument(work, Excerpt(Head(work.documents), ArchitectureLines, DefaultExcerpt)))
    BY <1>3, <1>4, <1>5, <1>11, DocumentIsWork DEF TakeDocument
  <2>2. IsWork(work')
    BY <1>11, <2>1 DEF TakeDocument
  <2> QED BY <1>1, <1>2, <1>11, <2>2 DEF TakeDocument
<1>12. CASE TakeOther
  <2>1. IsWork(WithOther(work))
    BY <1>3, <1>4, <1>5, <1>12, OtherIsWork DEF TakeOther
  <2>2. IsWork(work')
    BY <1>12, <2>1 DEF TakeOther
  <2> QED BY <1>1, <1>2, <1>12, <2>2 DEF TakeOther
<1>13. CASE SealPackage
  <2> DEFINE p == [request |-> work.request, model |-> work.model, bytes |-> work.bytes,
                   completeness |-> Completeness(work), doubts |-> work.doubts,
                   excerpts |-> work.excerpts,
                   interfaces |-> work.interfaces, architecture |-> work.architecture]
  <2>1. /\ package' = p /\ work' = Nothing
        /\ UNCHANGED <<tree, builder, theModel, ask, serving, answer>>
    BY <1>13 DEF SealPackage
  <2>2. IsWork(work) /\ work.required = << >> /\ work.others = << >>
    BY <1>4, <1>5, <1>13 DEF SealPackage
  <2>3. /\ p.request = work.request /\ p.model = work.model /\ p.bytes = work.bytes
        /\ p.completeness = Completeness(work) /\ p.excerpts = work.excerpts
        /\ p.interfaces = work.interfaces /\ p.architecture = work.architecture
    OBVIOUS
  <2> HIDE DEF p
  <2>4. Filled(p)
    BY <2>2, <2>3 DEF IsWork, Sound, Filled, Hidden
  <2>5. ASSUME p.completeness = "sufficient" PROVE ShowsAll(p)
    <3>1. work.doubts = {}
      BY <2>3, <2>5 DEF Completeness
    <3>2. Shown(p) = Shown(work)
      BY <2>3 DEF Shown
    <3>3. ToSet(<< >>) = {}
      BY DEF ToSet
    <3> QED BY <2>2, <2>3, <3>1, <3>2, <3>3 DEF IsWork, Faithful, ShowsAll
  <2>6. PackageIsSound'
    <3>1. PICK q : q = package'
      OBVIOUS
    <3> QED BY <2>1, <2>4, <2>5, <3>1 DEF PackageIsSound
  <2> QED BY <2>1, <2>6 DEF ContextInv, BuilderIsSound, ServingIsSound
<1>14. CASE PackageFails
  BY <1>1, <1>2, <1>14 DEF PackageFails
<1> QED BY <1>6, <1>7, <1>8, <1>9, <1>10, <1>11, <1>12, <1>13, <1>14

-----------------------------------------------------------------------------
(* Supplements.                                                            *)

\* A reply that shows nothing it should hide.
LEMMA ReplyKeeps ==
  ASSUME ContextInv, KeepWork, NEW granted, NEW code, NEW evidence, NEW bytes,
         Reply(granted, code, evidence, bytes), Hidden(evidence, ask.of.request)
  PROVE  ContextInv'
<1>1. /\ answer'.evidence = evidence /\ answer'.request = ask.of.request
      /\ ask' = Nothing /\ serving' = Nothing
  BY DEF Reply
<1>2. Hidden(answer'.evidence, answer'.request)
  BY <1>1
<1>3. ServingIsSound'
  BY <1>1 DEF ServingIsSound
<1>4. UNCHANGED <<tree, builder, theModel, work, package>>
  BY DEF KeepWork
<1> QED BY <1>2, <1>3, <1>4 DEF ContextInv, BuilderIsSound, PackageIsSound

\* No evidence shows nothing it should hide.
LEMMA NothingIsHidden ==
  ASSUME NEW r
  PROVE  Hidden(NoEvidence, r)
BY DEF Hidden, NoEvidence, ToSet

\* A denial shows nothing.
LEMMA DenialKeeps ==
  ASSUME ContextInv, KeepWork, NEW code, Deny(code)
  PROVE  ContextInv'
BY ReplyKeeps, NothingIsHidden DEF Deny

\* A grant is a reply, or a denial if it is too large.
LEMMA GrantKeeps ==
  ASSUME ContextInv, KeepWork, NEW evidence, NEW bytes, Grant(evidence, bytes),
         Hidden(evidence, ask.of.request)
  PROVE  ContextInv'
<1>1. Deny("budget_exceeded") \/ Reply(TRUE, "none", evidence, bytes)
  BY DEF Grant
<1> QED BY <1>1, ReplyKeeps, DenialKeeps

\* A supplement that is served is bound to the newest package, and what it reads
\* is a file that is neither forbidden nor secret.
LEMMA NoDenial ==
  ASSUME DenialCode = "none"
  PROVE  /\ ask.of = package
         /\ ask.category \in ReadCategories =>
              ask.subject \in PathSet /\ ask.subject \notin ask.of.request.forbidden
BY DEF DenialCode, PathCategories

\* One part.
LEMMA PartIsHidden ==
  ASSUME NEW r, NEW e, Showable(e, r)
  PROVE  /\ Hidden([NoEvidence EXCEPT !.excerpts = <<e>>], r)
         /\ Hidden([NoEvidence EXCEPT !.interfaces = <<e>>], r)
<1>1. ToSet(<<e>>) = {e} /\ ToSet(<< >>) = {}
  BY DEF ToSet
<1> QED BY <1>1 DEF Hidden, NoEvidence, Showable, Safe

\* Documents without a secret.
LEMMA DocumentsAreHidden ==
  ASSUME NEW r, NEW got, \A e \in ToSet(got) : Safe(e)
  PROVE  Hidden([NoEvidence EXCEPT !.architecture = got], r)
<1>1. ToSet(<< >>) = {}
  BY DEF ToSet
<1> QED BY <1>1 DEF Hidden, NoEvidence, Safe

\* Steps that ask for a supplement and serve it (fulfill_supplement).
LEMMA SupplyKeeps ==
  ASSUME ContextInv,
         \/ \E a \in Asks : SealAsk(a)
         \/ DenySupplement \/ SupplyExcerpt \/ BeginSupply \/ SupplyInterface
         \/ ReadDocument \/ SupplyDocuments \/ SupplyFromModel \/ SupplyFails
  PROVE  ContextInv'
<1> DEFINE rest == <<tree, builder, theModel, work, package, answer>>
<1>1. ASSUME ServingIsSound', UNCHANGED rest PROVE ContextInv'
  BY <1>1 DEF ContextInv, BuilderIsSound, PackageIsSound
<1>2. tree \in Files /\ ServingIsSound
  BY DEF ContextInv
<1>3. CASE \E a \in Asks : SealAsk(a)
  <2>1. PICK a \in Asks : SealAsk(a)
    BY <1>3
  <2>2. /\ ask = Nothing /\ ask'.budget = a.budget /\ serving' = serving /\ UNCHANGED rest
    BY <2>1 DEF SealAsk, KeepWork
  <2>3. serving = Nothing
    BY <1>2, <2>2 DEF ServingIsSound
  <2>4. ServingIsSound'
    BY <2>2, <2>3, TasksAssumption DEF ServingIsSound
  <2> QED BY <1>1, <2>2, <2>4
<1>4. CASE DenySupplement
  BY <1>4, DenialKeeps DEF DenySupplement
<1>5. CASE SupplyExcerpt
  <2> DEFINE b == Min({ask.budget, MaxExcerpt})
             e == Excerpt(ask.subject, Whole, b)
  <2>1. /\ ask # Nothing /\ DenialCode = "none" /\ ask.category = "file_excerpt" /\ KeepWork
        /\ Deny("secret_bypass_denied") \/ Grant([NoEvidence EXCEPT !.excerpts = <<e>>], e.size)
    BY <1>5 DEF SupplyExcerpt, Asked
  <2>2. ask.subject \in PathSet /\ ask.subject \notin ask.of.request.forbidden
    BY <2>1, NoDenial DEF ReadCategories
  <2>3. b \in Nat
    <3> DEFINE x == ask.budget
               Least(k) == \A y \in {x, MaxExcerpt} : k =< y
    <3>1. x \in Nat /\ MaxExcerpt \in Nat
      BY <1>2, <2>1, SizesAssumption DEF ServingIsSound
    <3> HIDE DEF x
    <3>2. \E k \in {x, MaxExcerpt} : Least(k)
      BY <3>1
    <3>3. (CHOOSE k \in {x, MaxExcerpt} : Least(k)) \in {x, MaxExcerpt}
      BY <3>2, Zenon
    <3>4. Min({x, MaxExcerpt}) \in {x, MaxExcerpt}
      BY <3>3, Zenon DEF Min
    <3> QED BY <3>1, <3>4 DEF x
  <2> HIDE DEF b
  <2>4. Showable(e, ask.of.request)
    <3>1. Whole \in Nat
      BY DEF Whole
    <3>2. e \in Parts /\ e.path = ask.subject /\ Safe(e)
      BY <1>2, <2>2, <2>3, <3>1, ExcerptIsSafe
    <3> HIDE DEF e
    <3> QED BY <2>2, <3>2 DEF Showable
  <2> HIDE DEF e
  <2> QED BY <2>1, <2>4, DenialKeeps, GrantKeeps, PartIsHidden
<1>6. CASE BeginSupply
  <2>1. ask # Nothing /\ DenialCode = "none" /\ UNCHANGED rest /\ UNCHANGED ask
    BY <1>6 DEF BeginSupply, Asked, KeepWork
  <2>2. CASE /\ ask.category = "interface_summary"
             /\ serving' = [todo |-> << >>, got |-> <<Excerpt(ask.subject, Whole, MaxExcerpt)>>]
    <3> DEFINE e == Excerpt(ask.subject, Whole, MaxExcerpt)
    <3>1. ask.subject \in PathSet /\ ask.subject \notin ask.of.request.forbidden
      BY <2>1, <2>2, NoDenial DEF ReadCategories
    <3>2. Whole \in Nat /\ MaxExcerpt \in Nat
      BY SizesAssumption DEF Whole
    <3>3. e \in Parts /\ e.path = ask.subject /\ Safe(e)
      BY <1>2, <3>1, <3>2, ExcerptIsSafe
    <3>4. PICK g : g = serving'
      OBVIOUS
    <3>5. g = [todo |-> << >>, got |-> <<e>>]
      BY <2>2, <3>4
    <3> HIDE DEF e
    <3>6. g.todo = << >> /\ g.got = <<e>> /\ <<e>>[1] = e /\ <<e>> # << >> /\ <<e>> \in Seq(Parts)
      BY <3>3, <3>5
    <3>7. ToSet(<<e>>) = {e}
      BY DEF ToSet
    <3>8. << >> \in Seq(PathSet)
      OBVIOUS
    <3>9. ServingIsSound'
      BY <1>2, <2>1, <3>1, <3>3, <3>4, <3>6, <3>7, <3>8 DEF ServingIsSound
    <3> QED BY <1>1, <2>1, <3>9
  <2>3. CASE /\ ask.category = "architecture_evidence"
             /\ serving' = [todo |-> Documents(4), got |-> << >>]
    <3>1. Documents(4) \in Seq(PathSet) /\ << >> \in Seq(Parts) /\ ToSet(<< >>) = {}
      BY DocumentsAre DEF ToSet
    <3>2. PICK g : g = serving'
      OBVIOUS
    <3>3. g.todo \in Seq(PathSet) /\ g.got \in Seq(Parts) /\ ToSet(g.got) = {}
      BY <2>3, <3>1, <3>2
    <3>4. ServingIsSound'
      BY <1>2, <2>1, <2>3, <3>2, <3>3 DEF ServingIsSound
    <3> QED BY <1>1, <2>1, <3>4
  <2> QED BY <1>6, <2>2, <2>3 DEF BeginSupply
<1>7. CASE SupplyInterface
  <2> DEFINE first == Head(serving.got)
             e == Described(first)
  <2>1. /\ serving # Nothing /\ ask.category = "interface_summary" /\ KeepWork
        /\ Grant([NoEvidence EXCEPT !.interfaces = <<e>>], e.size)
    BY <1>7 DEF SupplyInterface
  <2>2. /\ serving.got \in Seq(Parts) /\ serving.got # << >>
        /\ serving.got[1].path \notin ask.of.request.forbidden
        /\ \A k \in ToSet(serving.got) : Safe(k)
    BY <1>2, <2>1 DEF ServingIsSound
  <2>3. first \in Parts /\ Safe(first) /\ first.path \notin ask.of.request.forbidden
    <3>1. first = serving.got[1] /\ first \in Parts /\ 1 \in DOMAIN serving.got
      BY <2>2, HeadTailProperties, EmptySeq
    <3>2. first \in ToSet(serving.got)
      BY <3>1 DEF ToSet
    <3> HIDE DEF first
    <3> QED BY <2>2, <3>1, <3>2
  <2> HIDE DEF first
  <2>4. Showable(e, ask.of.request)
    <3>1. e \in Parts /\ e.path = first.path /\ Safe(e)
      BY <1>2, <2>3, DescribedIsSafe
    <3> HIDE DEF e
    <3> QED BY <2>3, <3>1 DEF Showable
  <2> HIDE DEF e
  <2> QED BY <2>1, <2>4, GrantKeeps, PartIsHidden
<1>8. CASE ReadDocument
  <2> DEFINE e == Excerpt(Head(serving.todo), ArchitectureLines, DefaultExcerpt)
  <2>1. /\ serving # Nothing /\ serving.todo # << >> /\ UNCHANGED rest /\ UNCHANGED ask
        /\ serving' = [todo |-> Tail(serving.todo), got |-> Append(serving.got, e)]
    BY <1>8 DEF ReadDocument, KeepWork
  <2>2. /\ ask # Nothing /\ serving.todo \in Seq(PathSet) /\ serving.got \in Seq(Parts)
        /\ \A k \in ToSet(serving.got) : Safe(k)
        /\ ask.category = "interface_summary" =>
             serving.got # << >> /\ serving.got[1].path \notin ask.of.request.forbidden
    BY <1>2, <2>1 DEF ServingIsSound
  <2>3. Head(serving.todo) \in PathSet /\ Tail(serving.todo) \in Seq(PathSet)
    BY <2>1, <2>2, HeadTailProperties
  <2>4. e \in Parts /\ Safe(e)
    BY <1>2, <2>3, SizesAssumption, ExcerptIsSafe
  <2> HIDE DEF e
  <2>5. Append(serving.got, e) \in Seq(Parts) /\ ToSet(Append(serving.got, e)) = ToSet(serving.got) \cup {e}
    BY <2>2, <2>4, AppendProperties, AppendedSet
  <2>6. serving.got # << >> =>
          Append(serving.got, e) # << >> /\ Append(serving.got, e)[1] = serving.got[1]
    <3>1. Append(serving.got, e) # << >>
      BY <2>2, <2>4, AppendProperties
    <3>2. serving.got # << >> => 1 \in 1..Len(serving.got)
      BY <2>2, EmptySeq, LenProperties
    <3> QED BY <2>2, <2>4, <3>1, <3>2, AppendProperties
  <2>7. PICK g : g = serving'
    OBVIOUS
  <2>8. g.todo = Tail(serving.todo) /\ g.got = Append(serving.got, e)
    BY <2>1, <2>7
  <2>9. ServingIsSound'
    BY <1>2, <2>1, <2>2, <2>3, <2>4, <2>5, <2>6, <2>7, <2>8 DEF ServingIsSound
  <2> QED BY <1>1, <2>1, <2>9
<1>9. CASE SupplyDocuments
  <2>1. /\ serving # Nothing /\ KeepWork
        /\ Grant([NoEvidence EXCEPT !.architecture = serving.got], SizeOf(serving.got))
    BY <1>9 DEF SupplyDocuments
  <2>2. \A k \in ToSet(serving.got) : Safe(k)
    BY <1>2, <2>1 DEF ServingIsSound
  <2> QED BY <2>1, <2>2, GrantKeeps, DocumentsAreHidden
<1>10. CASE SupplyFromModel
  <2>1. KeepWork /\ \E bytes : Grant(NoEvidence, bytes)
    BY <1>10 DEF SupplyFromModel
  <2> QED BY <2>1, GrantKeeps, NothingIsHidden
<1>11. CASE SupplyFails
  <2>1. ServingIsSound' /\ UNCHANGED rest
    BY <1>11 DEF SupplyFails, KeepWork, ServingIsSound
  <2> QED BY <1>1, <2>1
<1> QED BY <1>3, <1>4, <1>5, <1>6, <1>7, <1>8, <1>9, <1>10, <1>11

\* No step breaks the invariant.
LEMMA ContextInvIsInductive == ContextInv /\ [ContextNext]_contextVars => ContextInv'
<1> SUFFICES ASSUME ContextInv, [ContextNext]_contextVars PROVE ContextInv'
  OBVIOUS
<1>1. CASE ContextNext
  BY <1>1, BuilderKeeps, AssemblyKeeps, SupplyKeeps DEF ContextNext, ContextStep
<1>2. CASE UNCHANGED contextVars
  BY <1>2 DEF contextVars, ContextInv, BuilderIsSound, PackageIsSound, ServingIsSound
<1> QED BY <1>1, <1>2

\* PackageIsHonest, for every tree, whatever others write to it between two
\* readings, every task and every bound: a package of assemble_context_package
\* that calls itself sufficient shows every path of its task and every file near
\* it, if max_excerpts allow; no package and no supplement of fulfill_supplement
\* shows a secret or a forbidden file; and no package exceeds its budgets.
THEOREM PackagesAreHonest == ContextSpec => []PackageIsHonest
<1>1. ContextInit => ContextInv
  BY ContextInitially
<1>2. ContextInv /\ [ContextNext]_contextVars => ContextInv'
  BY ContextInvIsInductive
<1>3. ContextInv => PackageIsHonest
  BY InvIsHonest
<1> QED BY <1>1, <1>2, <1>3, PTL DEF ContextSpec
=============================================================================
