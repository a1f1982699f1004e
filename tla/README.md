# MootOS: TLA+ models, checks and proofs

MootOS is a personal assistant backend (FastAPI and SQLite, `backend/`) with an
offline "Continuous Builder" (`backend/continuous_builder/`) that plans work,
runs untrusted workers in containers and decides what their output is worth,
and a set of offline capability-build scripts (`scripts/`). This directory
models the parts in which order, failure and concurrency decide correctness,
checks them with TLC on small instances, and proves the main properties with
TLAPS for all instances.

`PROJECT.json` holds, for every definition, the source lines it models; the
runs; a mutant per property; the hazards; and the list of theorems. This file
explains them.

## 1. The system

### Components, their state and how they interact

| Component | State | Operations | Model |
|---|---|---|---|
| Tool operations (`tool_operations.py`, `tool_executor.py`, `runs.py`) | rows of `tool_operations` and `runs`, the process's tool registry | create pending, list, approve, reject, expire; each handler is several transactions | ToolOperations, OperationContract |
| Chat pipeline (`main.py` `chat`, `chat_pipeline.py`, `conversation.py`) | messages, model Runs, one lock per conversation | a turn: lock, prepare, ask provider, tools, commit, finish | ChatTurns |
| Tool loop and budget (`tool_conversation.py`, `tool_budget.py`, `tool_validation.py`) | the turn's budget | validate, skip, refuse, propose, execute, finalise | ChatTurns |
| GP-D job ledger (`gpd_*.py`) | seven append-only files per job | append event, attempt, lease, side effect, reconciliation; reduce; reconstruct | JobLedger, SideEffectLedger |
| Product queue and leases (`queue_store.py`, `leases.py`, `queue_projection.py`, `blueprint_store.py`) | event chain per slice, attempts, leases | append event, acquire, inspect, reconcile, release, replay | BuilderQueue |
| Plan-to-worker adapter (`worker_planning.py`, `readiness_bridge.py`, ...) | none of its own; five separate reads of the queue | plan an inert worker action | BuilderQueue |
| Worker runtime (`worker_runtime.py`) | workspace directory, container in the daemon | execute: prepare, create, verify, start, poll or cancel, logs, remove | ContainedWorker |
| Supervisor (`supervisor.py`) | breaker snapshot handed from execution to execution | classify, count, advise a retry | Supervision |
| Artifact intake, stdout bridge (`worker_artifact.py`, `artifact_output.py`) | staging directory per execution id | stage, take in, compare, certify, remove | TrustChain |
| Gates and trust-chain proof (`blast_radius.py`, `candidate_verifier.py`, `proof_fixture.py`, `trust_chain_proof.py`) | none: content-addressed receipts | evaluate, verify, bind, classify | TrustChain |
| Memory and bootstrap profile (`memory.py`, `chat_memory.py`, `bootstrap_profile.py`) | projects, memories with supersession links | create, correct, archive, restore, delete, import, read a history | MemoryStore |
| Tasks (`tasks.py`, `chat_task.py`) | task rows | create, complete, cancel | MemoryStore |
| Capability build (`scripts/capability_build`) | `job.json` and artefact files | a dozen commands from request to publication; sessions load and save the job file | ScopeRules, BuildScope, BuildJob, CapabilityBuild |
| Composition (`composition_*.py`) | the run of one mission, whose last step is a pending operation | propose, bind, run a step, freeze the write, make a receipt, approve | CompositionPlan, Composition |
| Database, migrations, backup (`db.py`, `migrations.py`, `db_backup.py`) | schema, rows and recorded versions of one file | connect, migrate, verify, serve, back up, verify the copy, restore | Startup |
| GP-B decomposition (`gpb_*.py`) | plans, content addressed | freeze a contract, collect evidence, decompose, revise | PlanRules, Assignment |
| GP-C admission (`gpc_*.py`) | decisions, content addressed | decide what a plan and a set of requests are granted | Admission, Assignment |
| Trusted policy (`trusted_policy*.py`) | the inventory of protected paths, receipts | inventory, admit, compare with an earlier receipt | TrustedPolicy |
| GP-E worker protocol (`gpe_*.py`) | packets and the messages of an attempt | assemble a packet, take a message | Assignment, WorkerExchange |
| Verifiers and check runner (`verifier_core.py`, `check_*.py`, `adversarial_verifier.py`) | workspace and containers of a verification | plan, run checks, clean up, classify | CandidateChecks |
| System model (`system_model.py`) | a sealed map of a tree of files | inventory, scan imports, queries | SystemModel, ContextEngine |
| Context engine (`context_engine.py`) | packages and supplements, sealed | plan a selection, extract, assemble, deny or serve a supplement | ContextEngine |
| Memory retrieval, chief builder and queue analysis, capability pipeline, sandbox policy and materialization | little or none | ranking, pure analysis, validation | not modelled |
| HTTP boundary, routes, frontend, read-only tools, gates scripts, corpora | little or none | plumbing, text | not modelled |

The parts meet in six places. A chat turn creates a pending operation
(`tool_conversation.py` calls `create_pending_operation`); the reviewer's later
approval runs the tool. The planner turns a leased slice of the queue into a
worker action; the worker runtime executes an authorised action and returns an
execution receipt. The supervisor, the artifact bridge, the gates and the proof
builder consume that receipt. A composition mission ends in a pending operation
of the same queue, and its later approval reads the run's frozen call. A worker
packet is assembled from what GP-B, GP-C and GP-D sealed separately. The job
ledger is written by whoever drives a job; nothing in the repository drives one
yet.

### What is hard

- Handlers run on a thread pool, and each is a *sequence* of transactions: two
  approvals, an approval and a rejection, an expiry, a crash in between.
- A chat turn reads history, waits for a provider for up to 45 seconds a call
  and writes later; failures can hit any of five steps.
- Append-only files are read, checked and appended in separate steps; a crash
  can tear a line.
- The planner's inputs are read over several connections while writers move,
  and a memory's history row by row outside a transaction.
- A Docker command can time out for the client and still take effect, early or
  late; `finally` blocks do not run when a process dies.
- Evidence about executions is assembled by a caller who may mix it up, and a
  packet from decisions of several releases of the policy.
- Processes of two releases boot on, migrate, serve and restore one database
  file.
- A mission reads four things at four moments, and what it froze is executed
  after any number of releases.
- Results and acknowledgements are lost, repeated, reordered and garbled, and
  come for attempts and requests that are over.
- A file is read up to four times (inventory, imports, excerpt, interface) while
  other processes write it.
- Two sessions load, change and save the same `job.json`.

`PROJECT.json` lists these as hazards with the lines at which they bite and the
properties that cover them. Four hazards are known and outside every run: two
writers of a job ledger, which takes no lock (`gpd_job_store.py:256`); a pending
operation that remains when the turn's commit fails (`main.py:727`); a
`docker create` that times out and leaves a container nobody removes
(`worker_runtime.py:803`); and the kill switch (`supervisor.py:743`), which is
proved to hold.

## 2. Plan

Modelled, most important behaviour first: ToolOperations (writes need approval,
once), JobLedger and SideEffectLedger, BuilderQueue, ChatTurns, ContainedWorker
with Supervision, TrustChain, MemoryStore; then CapabilityBuild with its rules
and its job file, Composition over the contract of the operation queue, Startup,
TrustedPolicy and CandidateChecks, PlanRules, Admission, Assignment and
WorkerExchange, and ContextEngine on SystemModel. Each of them has proofs
(section 5), and no safety property of a passing run is left without one.

What could be added next, in this order: type invariants for the later modules;
for BuildJob, that no history has more than two fix rounds; and the components
that section 6 leaves out, the sandbox policy first.

## 3. The modules

Every module is written so that an action is one committed transaction, one
command or one file operation of the code, with all it changes.

**ToolOperations** extends nothing of the project; **OperationContract** is
its abstract specification: the state diagram in the docstring of
`tool_operations.py` and one write inside a claim. `pc` is the next transaction
of a request; `StorageFault` fails a transaction at any point and follows the
handler's error path; `Restart` kills all requests and may register another
tool version. `writes`, `ran` and `lost` are history.

**JobLedger** keeps the accumulator of the reducer rather than the log, so logs
have any length. All callers are possible: the store checks identities and
order, not transitions, so an event that the reducer rejects makes the log
unreadable (`derived.state = "rejected"`). `TearAppend` leaves a partial line.
`CallersCheck` restricts callers to those that use `assert_transition_allowed`.
**SideEffectLedger** is the row-by-row duplicate check of `gpd_side_effect.py`
over a file in order.

**BuilderQueue**: a writer reads a slice and appends later, so its expected
sequence and digest may be outdated; because chains only grow and digests bind
the history, a view records only whether anything was appended since. A planner
goes through the five reads of `plan_inert_worker_action` and its last check.

**ChatTurns**: a turn's program counter runs through `chat` of `main.py`;
provider answers, tool outcomes and failures are nondeterministic; a batch is
chosen call by call. `Validated` maps a call to the call with normalised
arguments, as `validate_arguments` does. Deterministic commands do not take the
lock, as in the code.

**ContainedWorker**: `execute` of `worker_runtime.py` by several hosts that were
handed the same request, and hence compete for the same workspace directory.
The daemon is external: each command succeeds, is refused, or times out, and a
command that timed out has acted, acts later (`LateEffect`) or never. A host
follows `supervise_execution`; no code in the repository retries by itself, so
the host that does exactly what the receipt advises is the client the receipt
is made for. **Supervision** holds the policy as operators.

**TrustChain**: receipts are content addressed, so they are records, equal when
their digests are. The staging directory can be written by other processes.
`BuildProof` takes the task, execution, intake, two gate receipts, decision and
provenance receipt each from anywhere.

**MemoryStore**: a row's id is its place in the order of insertion, which random
ids do not change; deleted rows leave `Absent`. `walks` holds the local
variables of each `get_memory_history`: `ReadPrevious` and `ReadNext` are one
SELECT each, and any writer may commit between two of them. `told` and
`toldTasks` record what the chat commands confirmed. `Fold` and `NameOrder` keep
`casefold` apart from SQLite's NOCASE; `Normal` and `Words` are the normal form
and the keywords of a text.

**CapabilityBuild**: the commands of the workflow, each of which takes sealed
records of earlier ones from any job; a record is content addressed, so it is
the tuple of what it binds, and each step leaves its record in a variable.
**ScopeRules** has the overlap test of path rules and the reference it stands
for (some path matches both), **BuildScope** runs the one against the other over
every pair of rules; **BuildJob** is the job file, with two sessions that load,
change and save it, and a crash in the middle of a save. Histories stand for
texts of unknown length, so two saves at once leave either a whole text or one
with the rest of the other.

**CompositionPlan** has proposals, bindings and plans as operators;
**Composition** is a mission over them while tasks are opened and closed and
tools are released. Its last step creates a pending operation, and the decision
on it is a step of `Queue`, an INSTANCE of OperationContract: the abstraction
that ToolOperations is shown to implement is the one Composition uses.

**Startup**: a process boots through `BeginImmediate`, `ApplyNext` and `Finish`;
each migration is an operator on the schema, any migration may raise and take
the ones before it back (`MigrationFails`), and a transaction that meets a lock
retries (`Locked`). Writers, crashes, backups, their verification and a restore
interleave; the deployment platform, which is external, retires processes that
are not ready.

**TrustedPolicy** is the admission of changed paths against the inventory of
protected files, on a file system that may fold letter case, with receipts of
earlier admissions. **CandidateChecks** is one verification: it materialises a
workspace, runs the trusted checks in containers of a daemon that may act late,
cleans up and classifies, while the workspace may be written. The attached
client may end before its container does. Paths stand for texts, so `Fold` and
`Directories` give their case folding and the directories they are in.

**PlanRules** (contracts, evidence, decomposition and revision of plans) and
**Admission** (the matrix and the rules of a decision) are operators;
**Assignment** is the state machine that seals contracts, plans, revisions,
decisions and headers, takes a new release of the registry in between, and
assembles packets from any mixture of them. **WorkerExchange** is the wire
between builder and workers: messages are lost, repeated, delayed and garbled,
attempts end and new ones start.

**SystemModel** has ownership, import resolution and impact as operators on a
model; **ContextEngine** builds such a model file by file, plans a package from
it, reads files again to fill it, and serves supplements, while other processes
write the tree and newer models and packages replace the ones a worker knows.
A record of a package costs one unit of its budget and a line its size.

The theorems are in eight modules: BackendProofs (ToolOperations, Composition,
Startup), JobsProofs (JobLedger, SideEffectLedger, CapabilityBuild, BuildScope,
BuildJob), BuilderProofs (BuilderQueue, ContextEngine on SystemModel),
ChatTurnsProofs, WorkerProofs (ContainedWorker, Supervision, Assignment,
WorkerExchange), TrustChainProofs (TrustChain, TrustedPolicy, CandidateChecks),
MemoryStoreProofs, and RecursionTheorems, which is about no component: it says
what recursive functions and folds compute, for the two that need it.
`MC*` modules give definitions for the constants of a run. `MCBackend`,
`MCJobs`, `MCTrustChain` and `MCBuilderQueue` hold several modules that share no
state: the variable `part`, chosen at the start, says which of them a behaviour
is about, and the others stand still, so their state spaces add up rather than
multiply and nothing is asserted about their interleaving.

## 4. The runs

| Run | Question | Instance |
|---|---|---|
| `backend`, operations | Does a write happen at most once, only after approval, only in the reviewed version, does the queue implement `OperationContract`, and is every claim settled unless its owner is lost? | one operation, two racing requests, two tool versions, a clock that passes the expiry, faults and restarts everywhere |
| `backend`, mission | Does a run account for its steps, does the frozen write rest on what was really there, and is it the planned version that writes? | the ADR-040 mission and five departures from it, three projects, two task events, one release |
| `backend`, startup | Is the schema whole, does a serving process have what it needs, does every boot end? | an old and a new release on a new file or one two versions behind, one insert, one crash, one restore |
| `jobs`, workflow, scope and job | Is only published what every gate passed and a human approved, is no path both creatable and modifiable, and is a job file that loads one that was saved? | three scopes, nine returns, nine reports, two jobs with one slug; twelve rules over thirty paths; two sessions, two saves |
| `jobs`, ledger and effects | Is there no blind retry, and does an idempotency key stand for one request? | any events, two attempts, any torn file; three ids, two keys, two requests, four rows |
| `builder_queue`, race and leases | Are dependencies respected, are updates never lost, and are finished plans about ready slices? | two dependent slices, two writers; or one writer, two attempts and a planner |
| `builder_queue`, context | Is a package honest about what it lacks, within its budget and free of secrets? | five files in four components, one written over at any moment, seven task scopes, eleven requests, a second model or package |
| `chat_turns` | Does every turn end with a truthful reply, and never from an outdated history? | two turns, one command, budget of two calls, batches of two |
| `contained_worker` | Are receipts and cleanups true, do live executions exclude each other, are retries safe and finite? | two hosts, three executions each, every daemon failure, crashes |
| `memory_store` | Do versions form chains, do imports add only what is new, are confirmations true, and is a history read among writers whole? | three rows, two texts that can correct each other, one project and the global scope, imports of two entries, one conversation, one history request |
| `trust_chain`, assignment | Is nothing granted beyond the contract, whatever is mixed into a packet? | a read-only and a writing contract, two models, six revisions, three sets of requests, four ceilings, two releases |
| `trust_chain`, exchange | Is what is taken as the outcome the worker's answer to this request? | two attempts, two contexts, two workers, two messages in flight |
| `trust_chain`, admission and verification | Is an admission safe to continue from, is a pass or a verdict earned, and are claims of cleanup true? | five inventories with a case variant of a protected file; four contracts, one with a file where a directory is wanted, eight intakes, two check lists |
| `trust_chain`, proof | Is an accepted proof sound whatever evidence was offered? | two executions with one id, two tasks, three artifact sets, four receipts |
| `failed_executed_nothing` | (violation) "failed ... executed nothing" | one operation, one request |
| `torn_append` | (violation) "History survives restart" | callers that check every transition |
| `identical_calls` | (violation) the cap on identical calls | one turn, the code's own limits |
| `evidence_of_another_job` | (violation) "Evidence from job A cannot be validated against job B" | the workflow of `jobs` |
| `revised_plan_admitted` | (violation) "`requires_escalation` blocks silent auto-allow" | the assignment of `trust_chain` |

### Bounds

- *Two of everything that races* (requests, writers, turns, hosts, executions):
  the properties relate two actors at a time, and the theorems remove the bound.
- One operation in `backend`: a request handles one operation, and no
  two operations share a row; the theorems are for any set of them.
- Three rows in `memory_store`: a chain of three versions has a row with both
  links, and a chain of two leaves a row for an import or a delete. The two
  texts are interchangeable (same number of words, one in common), so the run
  identifies states that differ by exchanging them. Contents, names and requests
  are unbounded in the theorems.
- `Ttl = 1`, `MaxTime = 2`: before, at and after the expiry.
- Two tool versions: the reviewed one and another.
- `MaxAttempts = 2`: an attempt, and one after lost contact. The event log is
  unbounded, since its fold is the state.
- Four rows of side effects: the duplicate check needs two earlier rows to
  disagree and a candidate that meets both; four leaves one to spare.
- `MaxCalls = 2`, `MaxIdentical = 1`, `MaxBatch = 2`: a batch can cross every
  limit in its middle. `identical_calls` uses the code's 5, 2 and 2.
- `MaxRetryAttempts = 2 = CircuitBreakerFailures`: the breaker, not the cap,
  ends a chain, which is the case `ChainsEnd` is about.
- The receipts of `trust_chain` are clean success, success with a failed
  cleanup, a stop at the deadline that exited zero, and an uncertain end;
  artifacts are right, wrong, and right with a secret outside a fence.
- `DefaultLimit = 1` in a mission, so that a project can have more open tasks
  than are listed, which is where the number in the title is wrong.
- Releases 6 and 7 over files of version 0 and 5: each process finds versions
  below, at and above what it knows; migration 7 is the one that rebuilds tables
  with rows. `Retries = 2` of the code's loop suffices to run out of them.
- Rules and paths of at most three segments of at most three characters: every
  shape the overlap test distinguishes (literal, `*` before, after and on both
  sides, `**` first, last and in the middle, letter case) meets every other.
- One write of a file in the context part: each reading is followed by at most
  one other of the same file in a call, so one write reaches every difference
  between two of them. The second model or package is begun while the worker
  holds a request, which is when replacing them matters.
- In the leases part a slice is set aside by `paused` and given up by `cancelled`
  only: `blocked` leads to a subset of where `paused` leads, and `superseded` and
  `retired` end a slice as `cancelled` does. The race part has them all.
- `MaxMessages = 2`: a late message of an old attempt together with one of the
  new.

### Fairness

Three properties need it. `ClaimSettles`: weak fairness of each request's
`Step`. A thread of the pool is scheduled, and SQLite's busy timeout of five
seconds turns a blocked transaction into an error, which is a step. `TurnEnds`:
weak fairness of each turn's `Step`. Provider calls have a timeout of 45
seconds, the busy timeout bounds storage, and the conversation lock is left on
every path; `AcquireLock` needs no strong fairness since finitely many turns
compete. `BootEnds`: weak fairness of each process's `BootStep`; the busy timeout
and the bounded retries of `run_migrations` make a step possible whatever the
other process does. Arrivals, faults, crashes, restarts, writes and the clock are
never fair.

Deadlock is checked where the system goes on forever. It is not in `backend`,
`jobs` and `trust_chain`, where a mission, a published build, a full file or a
proof is the end. In the context part of `builder_queue` a model or package that
failed and is not tried again is an explicit stuttering step.

### Violations

- `failed_executed_nothing`: the tool writes, recording the Run's success fails,
  the handler records the operation as failed. `tool_operations.py:31` says
  failed operations executed nothing.
- `torn_append`: a cut write leaves half a line; `_read_jsonl` refuses the file.
  The GP-D document says history survives a restart.
- `identical_calls`: the budget looks calls up by their raw arguments and counts
  them by the normalised ones, so padded arguments are never counted.

- `evidence_of_another_job`: `attach_evidence_from_workflow_intake` matches
  records to the plan by command name only, so records of another job satisfy it.
- `revised_plan_admitted`: `revise_execution_plan` seals every revision with
  `requires_escalation` false, the revision by no operations included, and
  admission then allows automatic work (`GPC_TRUSTED_ADMISSION.md`, line 70, and
  `GPB_TASK_DECOMPOSER.md`, line 91, want a hard stop).

### Differences met that have no run

- The expiry is checked in one transaction and the operation claimed in the
  next (`tool_operations.py:257`, and :74 on what expiry means): an operation
  can be claimed just after it expired. `NoClaimOfStaleArrival` is what holds.
- Recovery reads the last reconciliation record, whichever attempt it is about
  (`gpd_recovery.py:115`).
- `retry_eligibility` (`gpd_side_effect.py:306`) looks at the primary state, so
  after an `execution_unknown`, a reconciliation event that does not clear the
  flag and `retryable_marked` it offers a retry without a reconciliation record
  while `execution_unknown` is still flagged; the GP-D document (line 81) asks
  for the record. `NoBlindRetry` is what holds.
- The duplicate check (`gpd_side_effect.py:276`) stops at the first row that
  decides, so a safe replay at an earlier row hides a clash of ids at a later
  one; line 91 of the document says duplicates are detected.
  `KeyBindsOneRequest` is what holds.
- The success gate asks whether an event carries `worker_claim`
  (`gpd_job_state.py:211`), not who sent it as its comment (line 4) has it.
- The planner's last check is about the slice's chain and not about the lease
  (`worker_planning.py:257`), so a lease can be released under a finished plan;
  the plan is inert.
- `budget.total` may exceed five inside a batch (`tool_budget.py:14`): denied
  requests count. `LoopWithinBudget` bounds what runs.
- When `commit_chat_turn` fails, an operation proposed in the turn remains
  pending although the client is told nothing was saved.
- The messages of a turn are stamped before the write lock is taken, so a
  command that commits first may carry later stamps.
- The CB-025 document says an accepted proof is unreachable until ordering is
  proven; `trust_chain_proof.py` accepts with a stdout provenance receipt.
- `_load_project_names` (`bootstrap_profile.py:44`) keys projects by `casefold`,
  while the table keeps names apart that differ outside ASCII (NOCASE), so two
  projects such as "Straße" and "STRASSE" share a key and an import may go to the
  other one. `ConfirmedInScope` is about chat commands, which use NOCASE;
  `_resolve_conversation` (`chat_memory.py:254`) compares by `casefold` too, but
  then keeps the conversation's own project.
- `POST /memories` accepts any `memory_type`, the import's own label included, so
  the label does not tell imported memories; the model has `origin` for that.
- A `docker create` or `stop` that times out raises: no receipt is written, so
  nobody learns that something may be left, while the threat model asks that a
  failed cleanup block new work. Any later execution of the request still finds
  the workspace directory in its way if that was not removed either.

Capability build:

- A base of 7 to 39 hexadecimal digits passes every check until
  `authorize_pr_publication`, which wants 40 and raises.
- Contradictory decisions about one review, and several authorizations of it
  with different idempotency keys, are all accepted; a package id folds job ids,
  so two jobs can share one.
- `_changed_files` calls a file created under a pattern rule "modify"; a return
  of Python and other files gets no manual review of the others; a file named
  like a dangerous token cannot be planned; `.ENV.EXAMPLE` can be allowed and
  never used; a third round of fixes is reachable through stale copies of
  `job.json`.

Composition:

- `tasks.list` at its limit hides tasks: a project with more open tasks than the
  limit cannot be composed, or gets a number that is the limit.
- A proposal that files the task under no or another project yields a run that
  waits for approval and for which no receipt can be made.
- Approval compares the tool's version and not its schema or risk digest. The
  budget branch and the risk checks after a registry match are unreachable.

Database:

- The docstring of `db_backup.py` says `run_migrations` enforces that the module
  was used; what is checked is the flag `MOOTOS_MIGRATION_BACKUP_CONFIRMED`.
- A backup is compared with the source at the time of its verification, so a
  write in between fails a good one; a failed backup file stays and blocks its
  path.

Checks and policy:

- An `OSError` in the `finally` block of `_execute_one` leaves no result, so the
  receipt's own `cleanup_confirmed` can be true while the container remains; the
  docstring says it "must stay false (fail closed)". The status is uncertain then,
  and `VerdictIsEarned` is what holds.
- An earlier receipt without candidate or request digest is not stale, although
  the docstring says it must bind the same identities "or admission stops".
- A deadline that passes before `docker create` gives `checks_uncertain` and not
  `timed_out`; the bound of 120 seconds on the sum of timeouts is unreachable.
- A `docker start --attach` that loses its connection may exit with 1, which
  `_collect` takes for a complete output; if the container ends with 0 before it
  is inspected, the check passes with the digest of a part of its output.
- A workspace that is changed and restored during a check cannot be told from
  one that was not; the model takes writes as lasting.

GP-B, GP-C and GP-E:

- A system model of another registry gives "uncertain" and an investigation, and
  no escalation; admission checks the exact protected paths again.
- A reorder may drop the dependency on the investigation; `replace_strategy` does
  not keep acceptance, as `gpb_plan_revision.py:7` says it does, may overwrite
  another node and leaves dangling `children`.
- A capability asked for twice can be both admitted and denied.
- `facts_from_admission_input` always passes no expected system model, so that
  check never fires; the cost ceiling is ignored.
- A directory in the scope covers protected and forbidden files beneath it
  without a gate, since paths are compared exactly; `is_tcb_path` is sensitive to
  letter case where enforcement rejects variants.
- The constraints of a packet may exceed the header's narrower ceiling; the
  documents leave the intersection to a later milestone.
- A malformed, foreign or late result turns a new attempt into
  `execution_unknown`; there is no durable reservation of a dispatch.

Context engine:

- Required components can be dropped without an uncertainty, and the package be
  "sufficient", when the files fill `max_excerpts`: the file loop stops at the
  next component and tells only of the files of the one at hand
  (`context_engine.py:1751`), so once a component fits exactly, or one without
  files comes next, the remaining ones are lost; files of impacted components,
  which are "possible", can take the places of required ones; and an excerpt is
  passed over in silence when the package has its number (:2763, :2853). Line
  2636 says "Never silently drop critical". `SufficientIsComplete` therefore
  speaks of tasks whose files are not more than `max_excerpts`.
- Neither a truncated excerpt (down to no line at all) nor a secret file of the
  neighbourhood leaves an uncertainty, nor do impacted components beyond
  `max_components` at depth 0.
- Contents are compared neither with the inventory's digests nor with the commit
  a package is labelled with, so it may show later ones; architecture evidence
  ignores forbidden paths; possible files are excerpted before supporting ones,
  since items are sorted by the name of their tag.
- `impacted_components` misses dependents by relative or unresolved imports and
  by files that do not parse. "conflicting" is unreachable, as are the special
  cases of `_resolve_import_to_component`. The number of earlier supplements is
  the caller's to count.

## 5. The proofs

For the modules below each safety invariant and action property of the runs, and
the refinement of `OperationContract`, is proved in the modules named in section
3 for all values of the constants that satisfy the named assumptions. Proved
without being part of a run are the type invariants of the first group, that
claims are owned and Runs of recorded results succeeded (ToolOperations), that
lost contact is reconciled before work goes on, one active lease, and that a
terminal job stays so (JobLedger), that staging follows review and only one
holder moves a slice (BuilderQueue), the bound on tool calls (ChatTurns), the
kill switch (ContainedWorker), and that the past of a memory is kept
(MemoryStore).

- **ToolOperations** (`IndInv`): the invariants are inductive once
  `OwnerProgress` says what has been written at each point of a claim's owner,
  `RanOnlyByWriting` that versions run only by writing, and `ResultRunSettled`
  that a recorded Run belongs to a request that is over. `Refinement` maps each
  transaction to an arrow of the contract or to a stutter. `NoStaleClaim` needs
  `PendingIsFresh`: the expiry is read in one transaction and the row claimed in
  another, and a row still pending between them is the one that was fresh on
  arrival.
- **Composition** (`CompositionInv`): `RunShape` lists the ways a run can stand
  (not started, under way, blocked, failed, pending) and what its records say in
  each; `OperationInv` ties the frozen operation to the version of the plan's
  last step; `SeenInv` says that what the run counted was there, that the project
  chosen on it has the most open tasks and that the list agreed with the count.
  The three properties follow from these, whatever is released or changed in the
  meantime, between the run and the approval.
- **Startup** (`StartupInv`): `Whole` (a recorded version stands for its whole
  schema) survives a migration because who migrates holds the lock and works on
  a copy that has kept every row (`MigratorsHoldTheLock`); a backup is of a whole
  database, so a restore is too. `ApplyType` says what a migration leaves and
  `LaterSchemaSuffices` that a later schema serves an earlier release.
- **JobLedger**: `AwaitingIsParked` says where a job can be after contact was
  lost and before it is reconciled: in `execution_unknown`, cancelled, failed, or
  in a log the reducer rejects.
- **SideEffectLedger**: of the rows with the candidate's key or id the least one
  decides; if it accepted a candidate whose key occurs with another request,
  that row would contradict the invariant for the earlier rows.
- **CapabilityBuild** (`BuildInv`): a stage that is made follows the one before
  it (`StagesInOrder`), and one that advanced agrees with it on what it took over
  (`BuildRests`, `ReviewRests`), so an eligible decision goes back to an
  approvable handoff, empty blockers and the findings of the files that came in
  (`PublicationRests`).
- **BuildScope** (`ScopeInv`): two rules that match one path, folded, overlap by
  the textual test (`OverlapIsSound`). `Glob` and `Matches` are tables filled from
  the end of the pattern; an overlap of two patterns is a table over both. A path
  both match gives a way through the second table, which is an induction on how
  much of the two patterns is left. A scope is frozen only if no two of its rules
  overlap where they may not, so what it answers is unambiguous.
- **BuildJob** (`FileInv`): a whole `job.json` is the text of a completed save.
- **BuilderQueue**: `ReviewedFromReview` follows reviews through side states,
  `CurrentViewIsTrue` says that a view whose chain is unmoved shows the durable
  state, `PlanEvidence` what a planner has established at each stage,
  `LeaseHasAttempt` that a lease's attempt exists.
- **ContextEngine** (`ContextInv`): first the plan. A model has files of the
  tree and edges between components (`IsModel`), whatever is written while it is
  built; the levels of `Expand` reach all that is `Near` the task unless its bound
  is met, which leaves a doubt; the loop over the files takes each one unless
  there are enough or a doubt says so (`Kept`, `Taken`). So a plan without a
  doubt covers what the task needs (`PlanIs`). Then the package: without a
  doubt, what it should show is shown or still to be read, and there is room for
  it (`Faithful`); what it holds adds up to its size, is within its budgets and
  hides what is secret (`Sound`). Both hold when the package is begun and after
  every step, whatever the file read has become since: one that can no longer be
  shown leaves a doubt. Last the supplement, which takes its
  request's budget and shows only what its own reading found clean
  (`ServingIsSound`).
- **ChatTurns**: `LockHeld` (a turn between lock and end holds it), `Current` (no
  other turn has been stored since the holder read), `Settled` (what is stored
  and recorded at each point) and `Counted` (calls run and rounds asked are
  covered by the budget).
- **ContainedWorker** (`HostInv`): `Locked` (an execution that is under way owns
  the workspace directory), `Fresh` (later executions of a chain are untouched),
  `Quiet` (while nothing failed no command is in flight: a timeout leads to an
  exception or an unconfirmed cleanup), `Watched` and `Truthful` (what the
  program point says of the container), `Confirmed` (a chain goes on only from a
  confirmed cleanup) and `Counted` (the breaker has counted the whole chain).
- **TrustChain**: receipts never change once returned and the set of results
  that can be held only grows; with `StagedReturned` a certificate is of a
  returned execution, and the binding checks force all evidence to be of one
  intake.
- **TrustedPolicy** (`PolicyInv`): the latest admission is `AdmitChangedPaths` of
  some arguments, and a receipt whose inventory was missing is of no path at
  all. The theorem is then one about a function: an inventory that continues
  holds no protected path in any letter case, and if a receipt was compared, the
  same paths.
- **CandidateChecks** (`ChecksInv`): a receipt speaks of containers and
  workspaces that are long gone, so the invariant follows a run from its first
  step. `StageInv` counts the runs and says which plan they are of; `CurrentInv`
  and `RunInv` give, for each point of the runner, what the check in progress
  and the ones before it have established; `SpoiledInv` says that a workspace a
  container saw altered still is altered when the runner looks for the last
  time; `FutureInv` keeps the workspaces of later runs untouched, so that what
  `ReceiptInv` says of an ended run is disturbed by none of them. The verdict
  follows from the receipts and the repetitions.
- **MemoryStore** (`IndInv`): `LinksAgree` is inductive with types, because a
  delete needs both links to be empty and a correction an active row, which by
  the invariant has no successor. `ToldOfInserted` ties a confirmation to an
  existing row and conversation. `WalksFollowLinks` carries a history request
  through the writes of others: the row at hand is out of date at most in its
  status and its successor (`RowAtHand`), a link once seen is permanent, the
  rows walked over backwards lead by their successors to the one asked for
  (`LeadsToAsked`), ids fall on the way back and rise on the way forward
  (`Backward`, `Forward`), so there is no cycle, and the versions listed are
  consecutive (`Listed`).
- **Assignment** (`AssignmentInv`): the plan held is free of violations unless
  escalated (`DecomposedIsPlan`, `RevisedIsPlan`), the decision was made for a
  plan of its contract, and the packet is computed from both. The lemmas say what
  the absence of violations (`KeptContract`) and an allowed request
  (`AllowedRequest`) mean; the most severe of the outcomes allows only if every
  rule does.
- **WorkerExchange** (`ExchangeInv`): a result under way names a request that a
  worker was given. For `NoRunAfterResult`, `HeldIsOpen`: a request without an
  outcome is of an attempt without a result.

**RecursionTheorems** is what the proofs about tables, folds and sums rest on. A
theorem over any step of a recursion would need an operator as a parameter,
which the provers cannot instantiate. Here the step is a constant operator
`Value(_, _, _)` of a module, and each recursion of the model is an instance of
the module with its own step; its first argument is a context for the
parameters of the definition at hand. `LeastNumber` and `Induction` are about
sets of numbers; `Recursion` and `Descent` say that a function defined upward or
downward exists and has the values its equation says; `FoldSteps` that
`FoldLeft` adds one element after the other, and `FoldKeeps` that an invariant of
the step is one of the fold.

The assumptions on constants are the named ones of each module and are what the
code guarantees or what its representation needs: sentinels differ from values
(`"free"` is no process, `Nothing` no status), bounds are numbers, registered
versions of `tasks.list` have the limit of its schema (Composition), budgets are
numbers or absent and a revised node is one the builder of nodes accepts
(Assignment), the registry is canonical (TrustedPolicy; its constructor
raises otherwise), check lists are sequences and the runner starts at most
`MaxChecks` of them, and payloads are finite (CandidateChecks), casefolding
neither makes nor removes a wildcard, and rules and paths are sequences of
segments of characters, with `.env.example` no pattern (BuildScope), paths and
components are listed once and a file's component is one of them (SystemModel,
ContextEngine), and sizes and budgets are numbers, the budget of a supplement
included (`context_engine.py:3140` validates it).

Three statements were corrected because a proof of them failed. `PassedIsEarned`
claimed that no changed path equals a protected path of the contract in another
letter case. `verifier_core.py` compares those by exact name; other letter cases
are caught by the registry, and by the collision check where the protected file
is in the tree. It now says that. A payload with a path the inventory cannot
hold was possible in CandidateChecks; its assumption now excludes it.
`SufficientIsComplete` held in the run only because its trees have few
components; it now leaves out the tasks for which files of other components
count against `max_excerpts` (see the context engine in section 4).

Only model-checked: the liveness properties `ClaimSettles`, `TurnEnds` and
`BootEnds` (temporal reasoning under fairness is out of the prover's reach), and
the five violations.

## 6. What is not modelled

Components not modelled are listed in `PROJECT.json` with reasons. Inside the
modelled components these are left out: heartbeats and the stall detector, and
the expected-binding checks of `reconstruct_job`; idempotency reservations
(`leases.py`) and artifact references (`audit.py`), which nothing reads; titles,
the projects of chat turns and message texts; listings, counts and the ranking
of memories, lengths, and the switch that forbids hard deletion; two concurrent
writers of a job ledger, which the GP-D document leaves to a later milestone; the
validation of worker contracts, which is a step that passes or raises; sizes,
encodings and secret patterns; texts, signatures, snapshots and count bounds of
the system model and the context engine, whose check for a symbolic link and
reading of the file are one step.

The pure analysis of the chief builder (priorities, conflicts, dependency
cycles) and the ranking of memories are functions of one snapshot and have no
interleaving of their own; their results enter BuilderQueue and MemoryStore as
inputs. The capability pipeline is a record a human advances by hand. Sandbox
policy and materialization validate contracts, which ContainedWorker takes as a
step that passes or raises. The remaining parts are text, plumbing or fixtures.

Digests are taken to be collision free, and one SQLite transaction to be atomic.
