--------------------------- MODULE ChatTurnsProofs ---------------------------
(***************************************************************************)
(* Proofs about provider-backed chat, for any number of turns and commands *)
(* and any limits: what is committed, what is replied and how long the     *)
(* tool loop runs.  IndInv says who holds the lock, that the history a     *)
(* turn generates from is still current, where a turn must be when its     *)
(* pair is stored, and how the loop's counters follow the budget.          *)
(***************************************************************************)
EXTENDS ChatTurns, TLAPS

Before == {"idle", "waiting", "prepare", "start_run"}
Reading == {"start_run", "ask", "batch", "finalize", "commit"}
Inside == Reading \cup {"prepare", "finish_run", "fail_run"}

LockHeld ==
  \A t \in Turns : conv[t] = "existing" /\ pc[t] \in Inside => lock = t

Current ==
  \A t \in Turns :
    conv[t] = "existing" /\ pc[t] \in Reading => History \cap Turns \subseteq saw[t]

Settled ==
  \A t \in Turns :
    /\ t \in stored => pc[t] \in {"finish_run", "done", "dead"}
    /\ pc[t] \in {"finish_run", "done"} => t \in stored
    /\ runs[t] = "failed" => pc[t] = "failed"
    /\ runs[t] = "succeeded" => pc[t] = "done"

CountedTurn(t) ==
  /\ pc[t] \in Before =>
       rounds[t] = 0 /\ executed[t] = 0 /\ batch[t] = 0 /\ budget[t].total = 0
  /\ pc[t] = "ask" =>
       batch[t] = 0 /\ rounds[t] <= budget[t].total /\ budget[t].total < MaxCalls
  /\ pc[t] = "batch" =>
       /\ rounds[t] <= MaxCalls
       /\ rounds[t] <= budget[t].total + 1
       /\ batch[t] > 0 => rounds[t] <= budget[t].total
  /\ pc[t] = "finalize" => rounds[t] <= MaxCalls
  /\ pc[t] \in Looping => executed[t] <= budget[t].total
  /\ executed[t] <= MaxCalls
  /\ rounds[t] <= MaxCalls + 1

Counted == \A t \in Turns : CountedTurn(t)

IndInv == TypeOK /\ LockHeld /\ Current /\ Settled /\ Counted

-----------------------------------------------------------------------------

\* Recording a request keeps the budget well formed and counts it.
LEMMA RecordCounts ==
  ASSUME NEW b \in Budgets, NEW c \in Calls, NEW outcome
  PROVE  Record(b, c, outcome) \in Budgets /\ Record(b, c, outcome).total = b.total + 1
<1>1. b.total \in Nat /\ b.executions \in Nat /\ b.failures \in Nat
      /\ b.counts \in [Calls -> Nat]
  BY DEF Budgets
<1>2. [b.counts EXCEPT ![c] = @ + 1] \in [Calls -> Nat]
  BY <1>1
<1>3. (IF outcome = "success" THEN b.executions + 1 ELSE b.executions) \in Nat
      /\ (IF outcome = "success" THEN 0 ELSE b.failures + 1) \in Nat
      /\ b.total + 1 \in Nat
  BY <1>1
<1> QED BY <1>2, <1>3 DEF Record, Budgets

\* A new budget is well formed and has counted nothing.
LEMMA FreshBudgetType == FreshBudget \in Budgets /\ FreshBudget.total = 0
  BY DEF FreshBudget, Budgets

\* The initial state satisfies the invariant.
LEMMA InitInv == Init => IndInv
<1> SUFFICES ASSUME Init PROVE IndInv
  OBVIOUS
<1>1. TypeOK
  BY FreshBudgetType DEF Init, TypeOK, PCs
<1>2. LockHeld /\ Current /\ Settled
  BY DEF Init, LockHeld, Current, Settled, Inside, Reading
<1>3. Counted
  BY FreshBudgetType, LimitsAssumption
     DEF Init, Counted, CountedTurn, Before, Looping
<1> QED BY <1>1, <1>2, <1>3 DEF IndInv

\* The steps of a turn outside the tool loop.
LEMMA OuterStepInv ==
  ASSUME IndInv, NEW t \in Turns,
         \/ AcquireLock(t) \/ Prepare(t) \/ RefuseEarly(t) \/ StartRun(t)
         \/ Commit(t) \/ FinishRun(t) \/ FailRun(t)
         \/ \E c \in {"existing", "new"} : Arrive(t, c)
  PROVE  IndInv'
<1> USE DEF IndInv
<1> USE NamesAssumption, LimitsAssumption
<1>1. CASE \E c \in {"existing", "new"} : Arrive(t, c)
  <2> PICK c \in {"existing", "new"} : Arrive(t, c)
    BY <1>1
  <2>1. TypeOK'
    BY DEF Arrive, Goto, TypeOK, PCs, loop
  <2>2. History' = History
    BY DEF Arrive, History, Settled, TypeOK
  <2>3. LockHeld' /\ Current' /\ Settled'
    BY <2>2 DEF Arrive, Goto, TypeOK, LockHeld, Current, Settled, Inside, Reading, PCs
  <2>4. Counted'
    BY DEF Arrive, Goto, loop, TypeOK, Counted, CountedTurn, Before, Looping
  <2> QED BY <2>1, <2>2, <2>3, <2>4
<1>2. CASE AcquireLock(t)
  <2>1. TypeOK'
    BY <1>2 DEF AcquireLock, Goto, TypeOK, PCs, loop
  <2>2. LockHeld' /\ Current' /\ Settled'
    BY <1>2 DEF AcquireLock, Goto, TypeOK, History, LockHeld, Current, Settled, Inside, Reading
  <2>3. Counted'
    BY <1>2 DEF AcquireLock, Goto, loop, TypeOK, Counted, CountedTurn, Before, Looping
  <2> QED BY <2>1, <2>2, <2>3
<1>3. CASE Prepare(t)
  <2>1. TypeOK'
    BY <1>3 DEF Prepare, Goto, TypeOK, PCs, loop, History
  <2>2. LockHeld' /\ Current' /\ Settled'
    BY <1>3 DEF Prepare, Goto, TypeOK, History, LockHeld, Current, Settled, Inside, Reading
  <2>3. Counted'
    BY <1>3 DEF Prepare, Goto, loop, TypeOK, Counted, CountedTurn, Before, Looping
  <2> QED BY <2>1, <2>2, <2>3
<1>4. CASE RefuseEarly(t)
  <2>1. TypeOK'
    BY <1>4 DEF RefuseEarly, Goto, Unlocked, TypeOK, PCs, Ended, loop
  <2>2. LockHeld' /\ Current' /\ Settled'
    BY <1>4 DEF RefuseEarly, Goto, Unlocked, TypeOK, History, LockHeld, Current, Settled,
                Inside, Reading
  <2>3. Counted'
    BY <1>4 DEF RefuseEarly, Goto, loop, TypeOK, Counted, CountedTurn, Before, Looping
  <2> QED BY <2>1, <2>2, <2>3
<1>5. CASE StartRun(t)
  <2>1. TypeOK'
    BY <1>5 DEF StartRun, Goto, TypeOK, PCs, Looping, loop
  <2>2. LockHeld' /\ Current' /\ Settled'
    BY <1>5 DEF StartRun, Goto, TypeOK, History, LockHeld, Current, Settled, Inside, Reading
  <2>3. Counted'
    BY <1>5 DEF StartRun, Goto, loop, TypeOK, Counted, CountedTurn, Before, Looping
  <2> QED BY <2>1, <2>2, <2>3
<1>6. CASE Commit(t)
  <2>1. TypeOK'
    BY <1>6 DEF Commit, Goto, TypeOK, PCs, loop
  <2>2. LockHeld' /\ Settled'
    BY <1>6 DEF Commit, Goto, TypeOK, LockHeld, Settled, Inside, Reading
  <2>3. Current'
    BY <1>6 DEF Commit, Goto, TypeOK, History, LockHeld, Current, Inside, Reading
  <2>4. Counted'
    BY <1>6 DEF Commit, Goto, loop, TypeOK, Counted, CountedTurn, Before, Looping
  <2> QED BY <2>1, <2>2, <2>3, <2>4
<1>7. CASE FinishRun(t) \/ FailRun(t)
  <2> PICK to \in {"done", "failed"} :
        /\ pc' = [pc EXCEPT ![t] = to]
        /\ lock' = Unlocked(t)
        /\ Forget({t})
        /\ UNCHANGED <<conv, saw, stored, operation, budget, batch>>
    BY <1>7 DEF FinishRun, FailRun, Goto
  <2>a. rounds' \in [Turns -> Nat] /\ executed' \in [Turns -> Nat]
        /\ ran' \in [Turns -> [Calls -> Nat]]
    BY DEF Forget, TypeOK
  <2>b. runs' \in [Turns -> {"none", "started", "succeeded", "failed"}]
    BY <1>7 DEF FinishRun, FailRun, TypeOK
  <2>1. TypeOK'
    BY <2>a, <2>b DEF Unlocked, TypeOK, PCs, Ended
  <2>2. LockHeld' /\ Current'
    BY DEF Unlocked, TypeOK, History, LockHeld, Current, Inside, Reading
  <2>3. Settled'
    BY <1>7 DEF FinishRun, FailRun, Goto, TypeOK, Settled
  <2>4. Counted'
    BY <1>7 DEF FinishRun, FailRun, Goto, Forget, TypeOK, Counted, CountedTurn, Before, Looping
  <2> QED BY <2>1, <2>2, <2>3, <2>4
<1> QED BY <1>1, <1>2, <1>3, <1>4, <1>5, <1>6, <1>7

\* A step of the loop moves its turn between places inside the loop or out of
\* it, and touches neither the lock nor what is stored.
LEMMA LoopMoves ==
  ASSUME IndInv, NEW t \in Turns, NEW to \in Looping \cup {"commit", "fail_run"},
         pc[t] \in Looping, pc' = [pc EXCEPT ![t] = to],
         UNCHANGED <<lock, conv, saw, stored, runs>>
  PROVE  LockHeld' /\ Current' /\ Settled' /\ pc' \in [Turns -> PCs]
  BY DEF IndInv, TypeOK, History, LockHeld, Current, Settled, Inside, Reading, Looping, PCs

\* The steps of the tool loop.
LEMMA LoopStepInv ==
  ASSUME IndInv, NEW t \in Turns,
         \/ \E c \in Calls : Skip(t, c) \/ Refuse(t, c) \/ Propose(t, c) \/ Execute(t, c)
         \/ Ask(t) \/ BreakLoop(t) \/ EndBatch(t) \/ Finalize(t)
  PROVE  IndInv'
<1> USE DEF IndInv
<1> USE LimitsAssumption, CallsAssumption
<1>b. budget[t] \in Budgets /\ budget[t].total \in Nat
  BY DEF TypeOK, Budgets
<1>1. CASE Ask(t)
  <2> PICK to \in {"batch", "commit", "fail_run"} :
        /\ pc' = [pc EXCEPT ![t] = to]
        /\ \/ to = "batch" /\ UNCHANGED <<budget, batch>>
           \/ /\ to # "batch"
              /\ budget' = [budget EXCEPT ![t] = FreshBudget]
              /\ batch' = [batch EXCEPT ![t] = 0]
    BY <1>1 DEF Ask, Goto, LeaveLoop
  <2>1. LockHeld' /\ Current' /\ Settled' /\ pc' \in [Turns -> PCs]
    BY <1>1, LoopMoves DEF Ask, Looping
  <2>a. budget' \in [Turns -> Budgets] /\ batch' \in [Turns -> Nat]
    <3>1. CASE UNCHANGED <<budget, batch>>
      BY <3>1 DEF TypeOK
    <3>2. CASE /\ budget' = [budget EXCEPT ![t] = FreshBudget]
               /\ batch' = [batch EXCEPT ![t] = 0]
      BY <3>2, FreshBudgetType DEF TypeOK
    <3> QED BY <3>1, <3>2
  <2>b. rounds' \in [Turns -> Nat]
    BY <1>1 DEF Ask, TypeOK
  <2>2. TypeOK'
    BY <1>1, <2>1, <2>a, <2>b DEF Ask, TypeOK
  <2>3. Counted'
    BY <1>1, <1>b, FreshBudgetType
       DEF Ask, TypeOK, Counted, CountedTurn, Before, Looping
  <2> QED BY <2>1, <2>2, <2>3
<1>2. CASE \E c \in Calls : Skip(t, c) \/ Refuse(t, c)
  <2> PICK c \in Calls : Skip(t, c) \/ Refuse(t, c)
    BY <1>2
  <2> PICK d \in Calls, outcome \in {"skipped", "error"} :
        InBatch(t) /\ Handled(t, d, outcome)
    BY DEF Skip, Refuse, Accepts
  <2>1. budget' = [budget EXCEPT ![t] = Record(budget[t], d, outcome)]
    BY DEF Handled, TypeOK
  <2>2. Record(budget[t], d, outcome) \in Budgets
        /\ Record(budget[t], d, outcome).total = budget[t].total + 1
    BY <1>b, RecordCounts
  <2>3. TypeOK'
    BY <2>1, <2>2 DEF Handled, TypeOK
  <2>4. LockHeld' /\ Current' /\ Settled'
    BY DEF Handled, LockHeld, Current, Settled, History
  <2>5. Counted'
    BY <1>b, <2>1, <2>2
       DEF Handled, InBatch, TypeOK, Counted, CountedTurn, Before, Looping
  <2> QED BY <2>3, <2>4, <2>5
<1>3. CASE (\E c \in Calls : Propose(t, c)) \/ BreakLoop(t)
  <2> PICK to \in {"commit", "fail_run"} : LeaveLoop(t, to)
    BY <1>3 DEF Propose, BreakLoop
  <2>1. LockHeld' /\ Current' /\ Settled' /\ pc' \in [Turns -> PCs]
    BY <1>3, LoopMoves DEF Propose, BreakLoop, InBatch, LeaveLoop, Goto, Looping
  <2>2. TypeOK'
    BY <1>3, <2>1, FreshBudgetType DEF Propose, BreakLoop, LeaveLoop, TypeOK
  <2>3. Counted'
    BY <1>3, FreshBudgetType
       DEF Propose, BreakLoop, InBatch, LeaveLoop, Goto, TypeOK, Counted, CountedTurn,
           Before, Looping
  <2> QED BY <2>1, <2>2, <2>3
<1>4. CASE \E c \in Calls : Execute(t, c)
  <2> PICK c \in Calls : Execute(t, c)
    BY <1>4
  <2>1. Validated[c] \in Calls /\ budget[t].total < MaxCalls /\ pc[t] = "batch"
    BY DEF Execute, Accepts, AllowCall, AllowNext, InBatch
  <2>2. ran' \in [Turns -> [Calls -> Nat]] /\ executed' \in [Turns -> Nat]
        /\ executed' = [executed EXCEPT ![t] = executed[t] + 1]
    BY <2>1 DEF Execute, TypeOK
  <2>3. executed[t] + 1 <= budget[t].total + 1 /\ executed[t] + 1 <= MaxCalls
    BY <1>b, <2>1 DEF TypeOK, Counted, CountedTurn, Looping
  <2>4. CASE LeaveLoop(t, "fail_run")
    <3>1. LockHeld' /\ Current' /\ Settled' /\ pc' \in [Turns -> PCs]
      BY <2>1, <2>4, LoopMoves DEF Execute, LeaveLoop, Goto, Looping
    <3>2. TypeOK'
      BY <2>2, <2>4, <3>1, FreshBudgetType DEF Execute, LeaveLoop, TypeOK
    <3>3. Counted'
      BY <2>1, <2>2, <2>3, <2>4, FreshBudgetType
         DEF Execute, LeaveLoop, Goto, TypeOK, Counted, CountedTurn, Before, Looping
    <3> QED BY <3>1, <3>2, <3>3
  <2>5. CASE /\ UNCHANGED pc
             /\ batch' = [batch EXCEPT ![t] = @ + 1]
             /\ \E outcome \in {"success", "error"} :
                  budget' = [budget EXCEPT ![t] = Record(@, Validated[c], outcome)]
    <3> PICK outcome \in {"success", "error"} :
          budget' = [budget EXCEPT ![t] = Record(budget[t], Validated[c], outcome)]
      BY <2>5 DEF TypeOK
    <3>1. Record(budget[t], Validated[c], outcome) \in Budgets
          /\ Record(budget[t], Validated[c], outcome).total = budget[t].total + 1
      BY <1>b, <2>1, RecordCounts
    <3>2. TypeOK'
      BY <2>2, <2>5, <3>1 DEF Execute, TypeOK
    <3>3. LockHeld' /\ Current' /\ Settled'
      BY <2>5 DEF Execute, LockHeld, Current, Settled, History
    <3>4. Counted'
      BY <1>b, <2>1, <2>2, <2>3, <2>5, <3>1
         DEF Execute, TypeOK, Counted, CountedTurn, Before, Looping
    <3> QED BY <3>2, <3>3, <3>4
  <2> QED BY <2>4, <2>5 DEF Execute
<1>5. CASE EndBatch(t)
  <2>1. LockHeld' /\ Current' /\ Settled' /\ pc' \in [Turns -> PCs]
    BY <1>5, LoopMoves DEF EndBatch, Goto, Looping
  <2>2. TypeOK'
    BY <1>5, <2>1 DEF EndBatch, TypeOK
  <2>3. Counted'
    BY <1>5, <1>b
       DEF EndBatch, Goto, AllowNext, TypeOK, Counted, CountedTurn, Before, Looping
  <2> QED BY <2>1, <2>2, <2>3
<1>6. CASE Finalize(t)
  <2> PICK to \in {"commit", "fail_run"} : LeaveLoop(t, to)
    BY <1>6 DEF Finalize
  <2>1. LockHeld' /\ Current' /\ Settled' /\ pc' \in [Turns -> PCs]
    BY <1>6, LoopMoves DEF Finalize, LeaveLoop, Goto, Looping
  <2>a. budget' \in [Turns -> Budgets] /\ batch' \in [Turns -> Nat]
    BY FreshBudgetType DEF LeaveLoop, TypeOK
  <2>b. rounds' \in [Turns -> Nat]
    BY <1>6 DEF Finalize, TypeOK
  <2>2. TypeOK'
    BY <1>6, <2>1, <2>a, <2>b DEF Finalize, TypeOK
  <2>3. Counted'
    BY <1>6, <1>b, FreshBudgetType
       DEF Finalize, LeaveLoop, Goto, TypeOK, Counted, CountedTurn, Before, Looping
  <2> QED BY <2>1, <2>2, <2>3
<1> QED BY <1>1, <1>2, <1>3, <1>4, <1>5, <1>6

\* Commands and restarts.
LEMMA OtherStepInv ==
  ASSUME IndInv, Restart \/ \E d \in Commands : Command(d)
  PROVE  IndInv'
<1> USE DEF IndInv
<1> USE NamesAssumption, LimitsAssumption
<1>1. CASE Restart
  <2>1. TypeOK'
    BY <1>1, FreshBudgetType DEF Restart, Forget, TypeOK, PCs, Ended
  <2>2. LockHeld' /\ Current' /\ Settled'
    BY <1>1 DEF Restart, TypeOK, LockHeld, Current, Settled, History, Inside, Reading, Ended
  <2>3. Counted'
    BY <1>1, FreshBudgetType
       DEF Restart, Forget, TypeOK, Counted, CountedTurn, Before, Looping, Ended
  <2> QED BY <2>1, <2>2, <2>3
<1>2. CASE \E d \in Commands : Command(d)
  <2> PICK d \in Commands : Command(d)
    BY <1>2
  <2>1. TypeOK'
    BY DEF Command, TypeOK, loop
  <2>2. History' \cap Turns = History \cap Turns
    BY DEF Command, History
  <2>3. LockHeld' /\ Current' /\ Settled'
    BY <2>2 DEF Command, LockHeld, Current, Settled
  <2>4. Counted'
    BY DEF Command, loop, Counted, CountedTurn
  <2> QED BY <2>1, <2>3, <2>4
<1> QED BY <1>1, <1>2

\* Every step of the specification preserves the invariant.
LEMMA NextInv == IndInv /\ [Next]_vars => IndInv'
<1> SUFFICES ASSUME IndInv, [Next]_vars PROVE IndInv'
  OBVIOUS
<1>1. CASE \E t \in Turns : Step(t)
  <2> PICK t \in Turns : Step(t)
    BY <1>1
  <2>1. CASE \E c \in Calls : Skip(t, c) \/ Refuse(t, c) \/ Propose(t, c) \/ Execute(t, c)
    BY <2>1, LoopStepInv
  <2>2. CASE Ask(t) \/ BreakLoop(t) \/ EndBatch(t) \/ Finalize(t)
    BY <2>2, LoopStepInv
  <2>3. CASE \/ AcquireLock(t) \/ Prepare(t) \/ RefuseEarly(t) \/ StartRun(t)
             \/ Commit(t) \/ FinishRun(t) \/ FailRun(t)
    BY <2>3, OuterStepInv
  <2> QED BY <2>1, <2>2, <2>3 DEF Step
<1>2. CASE \E t \in Turns, c \in {"existing", "new"} : Arrive(t, c)
  BY <1>2, OuterStepInv
<1>3. CASE Restart \/ \E d \in Commands : Command(d)
  BY <1>3, OtherStepInv
<1>4. CASE UNCHANGED vars
  BY <1>4 DEF IndInv, vars, loop, TypeOK, LockHeld, Current, Settled, Counted, CountedTurn,
              History
<1> QED BY <1>1, <1>2, <1>3, <1>4 DEF Next

\* The inductive invariant holds in every reachable state.
THEOREM ChatInvariance == Spec => []IndInv
  BY InitInv, NextInv, PTL DEF Spec

\* Every variable of the chat pipeline keeps its type.
THEOREM ChatTypes == Spec => []TypeOK
<1>1. IndInv => TypeOK
  BY DEF IndInv
<1> QED BY <1>1, ChatInvariance, PTL

\* An error reply means nothing was saved and a success that the pair was, for
\* any number of turns, with failures and restarts anywhere.
THEOREM RepliesAreTrue == Spec => []ReplyTellsTruth
<1>1. IndInv => ReplyTellsTruth
  BY DEF IndInv, Settled, ReplyTellsTruth
<1> QED BY <1>1, ChatInvariance, PTL

\* No turn invokes more executors than the limit, however the provider batches
\* its calls and whatever the limits are, and the provider is asked at most once
\* per allowed request and once to close.
THEOREM LoopIsBounded == Spec => []LoopWithinBudget
<1>1. IndInv => LoopWithinBudget
  BY DEF IndInv, Counted, CountedTurn, LoopWithinBudget
<1> QED BY <1>1, ChatInvariance, PTL

\* No turn is committed on a history another provider turn has outdated, for
\* any number of turns.
THEOREM TurnsAreSerial == Spec => NoStaleGeneration
<1> DEFINE Fresh ==
      \A t \in Turns :
        t \in stored' \ stored /\ conv[t] = "existing" => History \cap Turns \subseteq saw[t]
<1>1. IndInv /\ [Next]_vars => [Fresh]_vars
  <2> SUFFICES ASSUME IndInv, Next, NEW t \in Turns,
                      t \in stored', t \notin stored, conv[t] = "existing"
               PROVE  History \cap Turns \subseteq saw[t]
    OBVIOUS
  <2>1. PICK u \in Turns : Commit(u) \/ UNCHANGED stored \/ \E d \in Commands : Command(d)
    BY DEF Next, Step, AcquireLock, Prepare, RefuseEarly, StartRun, Ask, Skip, Refuse,
           Propose, Execute, BreakLoop, EndBatch, Finalize, FinishRun, FailRun, Restart,
           Arrive, Handled
  <2>2. t = u /\ Commit(u)
    BY <2>1, NamesAssumption DEF Commit, Command
  <2> QED BY <2>2 DEF IndInv, Current, Reading, Commit
<1> QED BY <1>1, ChatInvariance, PTL DEF Spec, NoStaleGeneration
=============================================================================
