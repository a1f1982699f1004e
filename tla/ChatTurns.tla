------------------------------ MODULE ChatTurns ------------------------------
(***************************************************************************)
(* Provider-backed chat: POST /chat of main.py, the per-conversation lock  *)
(* and the two transactions of chat_pipeline.py, the model Run of runs.py, *)
(* and the bounded model <-> tool loop of tool_conversation.py with its    *)
(* budget (tool_budget.py).                                                *)
(*                                                                         *)
(* Every turn addresses the one existing conversation of the model or      *)
(* starts a new one.  A call stands for a tool name with arguments, which  *)
(* is what the budget fingerprints; validate_arguments maps a call to the  *)
(* call with the normalised arguments, or rejects it.  The provider may    *)
(* answer anything, so a batch of tool calls is chosen as it is processed. *)
(***************************************************************************)
EXTENDS Naturals, FiniteSets

CONSTANTS
  Turns,          \* requests to POST /chat that reach the provider
  Newcomers,      \* those that may come without a conversation_id
  Commands,       \* explicit memory and Task commands on the conversation
  Calls,          \* (tool, arguments) pairs the provider may request
  Validated,      \* the call with normalised arguments, or Rejected
  Risk,           \* risk of each call's tool, or "unknown"
  MaxCalls,       \* MAX_TOOL_CALLS_PER_TURN
  MaxIdentical,   \* MAX_IDENTICAL_CALLS_PER_TURN
  MaxFailures,    \* MAX_CONSECUTIVE_FAILURES
  MaxBatch        \* bound on the calls of one provider answer

Rejected == "rejected"
Free == "free"

Risks == {"unknown", "high_risk", "internal_write", "read_only"}

ASSUME CallsAssumption ==
  /\ Validated \in [Calls -> Calls \cup {Rejected}]
  /\ Risk \in [Calls -> Risks]
  /\ Rejected \notin Calls

\* Stripping and normalising twice is normalising once, and keeps the tool.
ASSUME NormalisedAssumption ==
  \A c \in Calls : Validated[c] # Rejected =>
    /\ Validated[Validated[c]] = Validated[c]
    /\ Risk[Validated[c]] = Risk[c]

ASSUME LimitsAssumption ==
  /\ MaxCalls \in Nat \ {0}
  /\ MaxIdentical \in Nat \ {0}
  /\ MaxFailures \in Nat \ {0}
  /\ MaxBatch \in Nat \ {0}

ASSUME NamesAssumption == Free \notin Turns /\ Turns \cap Commands = {}

VARIABLES
  lock,        \* holder of the conversation's turn lock
  pc,          \* where each request is
  conv,        \* which conversation each turn addresses
  saw,         \* the history each turn read, as the turns and commands in it
  stored,      \* turns and commands whose message pair is committed
  runs,        \* the model Run of each turn
  operation,   \* the pending operation a turn created
  budget,      \* ToolCallBudget of each turn
  batch,       \* calls processed of the provider's current answer
  rounds,      \* provider calls of each turn
  executed,    \* history: executors a turn really invoked
  ran          \* history: the same by normalised call

loop == <<budget, batch, rounds, executed, ran>>
vars == <<lock, pc, conv, saw, stored, runs, operation, loop>>

Ended == {"done", "failed", "dead"}
Looping == {"ask", "batch", "finalize"}
PCs == {"idle", "waiting", "prepare", "start_run", "commit", "finish_run", "fail_run"}
       \cup Looping \cup Ended

\* The messages of the existing conversation, oldest pairs included: the window
\* of twenty drops only the oldest.
History == {x \in stored : x \in Commands \/ conv[x] = "existing"}

\* validate_arguments returns instead of raising.
Accepts(c) == Validated[c] # Rejected

-----------------------------------------------------------------------------
(* ToolCallBudget                                                          *)

FreshBudget == [total |-> 0, executions |-> 0, failures |-> 0,
                counts |-> [c \in Calls |-> 0]]

\* allow_next
AllowNext(b) == b.total < MaxCalls /\ b.failures < MaxFailures

\* allow_call
AllowCall(b, c) == AllowNext(b) /\ b.counts[c] < MaxIdentical

\* record
Record(b, c, outcome) ==
  [total      |-> b.total + 1,
   executions |-> IF outcome = "success" THEN b.executions + 1 ELSE b.executions,
   failures   |-> IF outcome = "success" THEN 0 ELSE b.failures + 1,
   counts     |-> [b.counts EXCEPT ![c] = @ + 1]]

-----------------------------------------------------------------------------
(* POST /chat up to the model                                              *)

Init ==
  /\ lock = Free
  /\ pc = [t \in Turns |-> "idle"]
  /\ conv = [t \in Turns |-> "none"]
  /\ saw = [t \in Turns |-> {}]
  /\ stored = {}
  /\ runs = [t \in Turns |-> "none"]
  /\ operation = [t \in Turns |-> "none"]
  /\ budget = [t \in Turns |-> FreshBudget]
  /\ batch = [t \in Turns |-> 0]
  /\ rounds = [t \in Turns |-> 0]
  /\ executed = [t \in Turns |-> 0]
  /\ ran = [t \in Turns |-> [c \in Calls |-> 0]]

Goto(t, to) == pc' = [pc EXCEPT ![t] = to]

\* The same, out of run_tool_conversation, whose budget ends with it.
LeaveLoop(t, to) ==
  /\ Goto(t, to)
  /\ budget' = [budget EXCEPT ![t] = FreshBudget]
  /\ batch' = [batch EXCEPT ![t] = 0]

\* The request is over; what it counted is of no further use.
Forget(gone) ==
  /\ rounds' = [t \in Turns |-> IF t \in gone THEN 0 ELSE rounds[t]]
  /\ executed' = [t \in Turns |-> IF t \in gone THEN 0 ELSE executed[t]]
  /\ ran' = [t \in Turns |-> IF t \in gone THEN [c \in Calls |-> 0] ELSE ran[t]]

\* The end of the with block: the lock is released on every way out.
Unlocked(t) == IF lock = t THEN Free ELSE lock

\* A turn on a new conversation takes no lock.
Arrive(t, c) ==
  /\ pc[t] = "idle"
  /\ c = "new" => t \in Newcomers
  /\ conv' = [conv EXCEPT ![t] = c]
  /\ Goto(t, IF c = "new" THEN "prepare" ELSE "waiting")
  /\ UNCHANGED <<lock, saw, stored, runs, operation, loop>>

\* Mutant: the lock is keyed by the request, so it is always free.
AcquireLockAnyway(t) ==
  /\ pc[t] = "waiting"
  /\ lock' = t
  /\ Goto(t, "prepare")
  /\ UNCHANGED <<conv, saw, stored, runs, operation, loop>>

\* conversation_turn_lock
AcquireLock(t) ==
  /\ pc[t] = "waiting"
  /\ lock = Free
  /\ lock' = t
  /\ Goto(t, "prepare")
  /\ UNCHANGED <<conv, saw, stored, runs, operation, loop>>

\* prepare_chat_turn reads the history and writes nothing.
Prepare(t) ==
  /\ pc[t] = "prepare"
  /\ saw' = [saw EXCEPT ![t] = IF conv[t] = "existing" THEN History ELSE {}]
  /\ Goto(t, "start_run")
  /\ UNCHANGED <<lock, conv, stored, runs, operation, loop>>

\* prepare_chat_turn or start_model_run raises: nothing was written.
RefuseEarly(t) ==
  /\ pc[t] \in {"prepare", "start_run"}
  /\ Goto(t, "failed")
  /\ lock' = Unlocked(t)
  /\ UNCHANGED <<conv, saw, stored, runs, operation, loop>>

\* start_model_run
StartRun(t) ==
  /\ pc[t] = "start_run"
  /\ runs' = [runs EXCEPT ![t] = "started"]
  /\ Goto(t, "ask")
  /\ UNCHANGED <<lock, conv, saw, stored, operation, loop>>

-----------------------------------------------------------------------------
(* run_tool_conversation                                                   *)

\* generate_with_tools or continue_tool_turn answers with text, with calls, or
\* raises.  The client timeout of 45 seconds bounds the wait.
Ask(t) ==
  /\ pc[t] = "ask"
  /\ rounds' = [rounds EXCEPT ![t] = @ + 1]
  /\ \/ Goto(t, "batch") /\ UNCHANGED <<budget, batch>>
     \/ \E to \in {"commit", "fail_run"} : LeaveLoop(t, to)
  /\ UNCHANGED <<lock, conv, saw, stored, runs, operation, executed, ran>>

\* One request of the batch was handled without running its tool; c is the call
\* it is recorded under.
Handled(t, c, outcome) ==
  /\ budget' = [budget EXCEPT ![t] = Record(@, c, outcome)]
  /\ batch' = [batch EXCEPT ![t] = @ + 1]
  /\ UNCHANGED <<lock, pc, conv, saw, stored, runs, operation, rounds, executed, ran>>

InBatch(t) == pc[t] = "batch" /\ batch[t] < MaxBatch

Skip(t, c) ==
  /\ InBatch(t)
  /\ ~AllowCall(budget[t], c)
  /\ Handled(t, c, "skipped")

\* An unknown tool and refused arguments are recorded as requested, a refused
\* high-risk tool as validated; each leaves a failed tool Run.
Refuse(t, c) ==
  /\ InBatch(t)
  /\ AllowCall(budget[t], c)
  /\ Risk[c] \in {"unknown", "high_risk"} \/ ~Accepts(c)
  /\ LET known == Risk[c] # "unknown" /\ Accepts(c) IN
       Handled(t, IF known THEN Validated[c] ELSE c, "error")

\* A write tool: create_pending_operation, and the turn ends in the middle of
\* the batch.
Propose(t, c) ==
  /\ InBatch(t)
  /\ AllowCall(budget[t], c)
  /\ Risk[c] = "internal_write"
  /\ Accepts(c)
  /\ operation' = [operation EXCEPT ![t] = "pending"]
  /\ LeaveLoop(t, "commit")
  /\ UNCHANGED <<lock, conv, saw, stored, runs, rounds, executed, ran>>

\* execute_tool of a read-only tool, which succeeds, fails, or runs and then
\* cannot close its Run, which ends the turn.
Execute(t, c) ==
  /\ InBatch(t)
  /\ AllowCall(budget[t], c)
  /\ Risk[c] = "read_only"
  /\ Accepts(c)
  /\ executed' = [executed EXCEPT ![t] = @ + 1]
  /\ ran' = [ran EXCEPT ![t][Validated[c]] = @ + 1]
  /\ \/ /\ \E outcome \in {"success", "error"} :
             budget' = [budget EXCEPT ![t] = Record(@, Validated[c], outcome)]
        /\ batch' = [batch EXCEPT ![t] = @ + 1]
        /\ UNCHANGED pc
     \/ LeaveLoop(t, "fail_run")
  /\ UNCHANGED <<lock, conv, saw, stored, runs, operation, rounds>>

\* A tool Run or a pending operation cannot be written: the exception leaves
\* the loop.
BreakLoop(t) ==
  /\ pc[t] = "batch"
  /\ LeaveLoop(t, "fail_run")
  /\ UNCHANGED <<lock, conv, saw, stored, runs, operation, rounds, executed, ran>>

\* The check after a batch; an answer with calls has at least one.
EndBatch(t) ==
  /\ pc[t] = "batch"
  /\ batch[t] > 0
  /\ Goto(t, IF AllowNext(budget[t]) THEN "ask" ELSE "finalize")
  /\ batch' = [batch EXCEPT ![t] = 0]
  /\ UNCHANGED <<lock, conv, saw, stored, runs, operation, budget, rounds, executed, ran>>

\* _finalize_after_budget: the closing answer or the fixed text.  A provider
\* that is no longer configured raises what is not caught here.
Finalize(t) ==
  /\ pc[t] = "finalize"
  /\ rounds' = [rounds EXCEPT ![t] = @ + 1]
  /\ \E to \in {"commit", "fail_run"} : LeaveLoop(t, to)
  /\ UNCHANGED <<lock, conv, saw, stored, runs, operation, executed, ran>>

-----------------------------------------------------------------------------
(* POST /chat after the model                                              *)

\* Mutant: the pair is committed and the error comes after it.
CommitLosesAnswer(t) ==
  /\ pc[t] = "commit"
  /\ stored' = stored \cup {t}
  /\ \E to \in {"finish_run", "fail_run"} : Goto(t, to)
  /\ UNCHANGED <<lock, conv, saw, runs, operation, loop>>

\* commit_chat_turn: both messages in one transaction, or neither.
Commit(t) ==
  /\ pc[t] = "commit"
  /\ \/ stored' = stored \cup {t} /\ Goto(t, "finish_run")
     \/ UNCHANGED stored /\ Goto(t, "fail_run")
  /\ UNCHANGED <<lock, conv, saw, runs, operation, loop>>

\* finish_model_run_success, whose failure is swallowed.
FinishRun(t) ==
  /\ pc[t] = "finish_run"
  /\ \E s \in {"succeeded", "started"} : runs' = [runs EXCEPT ![t] = s]
  /\ Goto(t, "done")
  /\ lock' = Unlocked(t)
  /\ Forget({t})
  /\ UNCHANGED <<conv, saw, stored, operation, budget, batch>>

\* Mutant: the error path leaves without releasing the lock.
FailRunLocked(t) ==
  /\ pc[t] = "fail_run"
  /\ runs' = [runs EXCEPT ![t] = "failed"]
  /\ Goto(t, "failed")
  /\ UNCHANGED <<lock, conv, saw, stored, operation, loop>>

\* _safe_finish_failed_run, then the error reply.
FailRun(t) ==
  /\ pc[t] = "fail_run"
  /\ \E s \in {"failed", "started"} : runs' = [runs EXCEPT ![t] = s]
  /\ Goto(t, "failed")
  /\ lock' = Unlocked(t)
  /\ Forget({t})
  /\ UNCHANGED <<conv, saw, stored, operation, budget, batch>>

\* save_explicit_memory_chat, correct_explicit_memory_chat and
\* create_explicit_task_chat: one transaction, without the lock.
Command(d) ==
  /\ d \notin stored
  /\ stored' = stored \cup {d}
  /\ UNCHANGED <<lock, pc, conv, saw, runs, operation, loop>>

\* The process dies and is started again: its locks and turns are gone.
Restart ==
  /\ \E t \in Turns : pc[t] \notin Ended \cup {"idle"}
  /\ lock' = Free
  /\ pc' = [t \in Turns |-> IF pc[t] \in Ended \cup {"idle"} THEN pc[t] ELSE "dead"]
  /\ budget' = [t \in Turns |-> FreshBudget]
  /\ batch' = [t \in Turns |-> 0]
  /\ Forget(Turns)
  /\ UNCHANGED <<conv, saw, stored, runs, operation>>

\* One step of the thread that serves t.
Step(t) ==
  \/ AcquireLock(t)
  \/ Prepare(t)
  \/ RefuseEarly(t)
  \/ StartRun(t)
  \/ Ask(t)
  \/ \E c \in Calls : Skip(t, c) \/ Refuse(t, c) \/ Propose(t, c) \/ Execute(t, c)
  \/ BreakLoop(t)
  \/ EndBatch(t)
  \/ Finalize(t)
  \/ Commit(t)
  \/ FinishRun(t)
  \/ FailRun(t)

Next ==
  \/ \E t \in Turns : Step(t)
  \/ \E t \in Turns, c \in {"existing", "new"} : Arrive(t, c)
  \/ \E d \in Commands : Command(d)
  \/ Restart

Spec == Init /\ [][Next]_vars

\* The thread pool runs every request, and both waits are bounded: the provider
\* by its timeout, SQLite by its busy timeout.
FairSpec == Spec /\ \A t \in Turns : WF_vars(Step(t))

-----------------------------------------------------------------------------
(* Properties                                                              *)

Budgets == [total: Nat, executions: Nat, failures: Nat, counts: [Calls -> Nat]]

\* Every variable has the type of the column or field it stands for.
TypeOK ==
  /\ lock \in Turns \cup {Free}
  /\ pc \in [Turns -> PCs]
  /\ conv \in [Turns -> {"none", "existing", "new"}]
  /\ saw \in [Turns -> SUBSET (Turns \cup Commands)]
  /\ stored \subseteq Turns \cup Commands
  /\ runs \in [Turns -> {"none", "started", "succeeded", "failed"}]
  /\ operation \in [Turns -> {"none", "pending"}]
  /\ budget \in [Turns -> Budgets]
  /\ batch \in [Turns -> Nat]
  /\ rounds \in [Turns -> Nat]
  /\ executed \in [Turns -> Nat]
  /\ ran \in [Turns -> [Calls -> Nat]]

\* Two provider turns never generate from the same old history: when a turn on
\* the existing conversation is committed, every provider turn in the
\* conversation is one it had read, through errors and restarts.
NoStaleGeneration ==
  [][\A t \in Turns :
       t \in stored' \ stored /\ conv[t] = "existing" => History \cap Turns \subseteq saw[t]]_vars

\* What the caller is told and what the audit says agree with the database: an
\* error reply means the message was not saved, a success that it was, and a
\* closed Run says which.
ReplyTellsTruth ==
  \A t \in Turns :
    /\ pc[t] = "failed" => t \notin stored
    /\ pc[t] = "done" => t \in stored
    /\ runs[t] = "failed" => t \notin stored
    /\ runs[t] = "succeeded" => t \in stored

\* "Maximum 5 tool executions per user turn": no turn invokes more executors
\* than the limit, those that fail included, however the provider batches; and
\* the loop ends, for skipped requests count too: the provider is asked at most
\* once per allowed request and once to close.
LoopWithinBudget ==
  \A t \in Turns : executed[t] <= MaxCalls /\ rounds[t] <= MaxCalls + 1

\* Every request that arrives is answered, even those that wait for the lock.
TurnEnds == \A t \in Turns : pc[t] = "waiting" ~> pc[t] \in Ended

(* What the documentation says and the code does not do.                   *)

\* "MAX_IDENTICAL_CALLS_PER_TURN = 2 (repeated identical (tool, arguments))"
\* (TOOL_SYSTEM.md:176).
IdenticalCapped == \A t \in Turns, c \in Calls : ran[t][c] <= MaxIdentical
=============================================================================
