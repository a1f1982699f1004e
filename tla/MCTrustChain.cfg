\* Two contracts, two releases; two requests of two attempts to two workers; two
\* executions that were given one execution id, two tasks, three artifact sets;
\* five inventories; one verification of a value or of a two-check candidate.
SPECIFICATION MCSpec
CONSTANTS
  MaxRetryAttempts = 1
  CircuitBreakerFailures = 2
  Executions = {x1, x2}
  ExecutionIds = {"e"}
  ExecutionId <- OneId
  Observed <- SomeReceipts
  Outputs <- SomeOutputs
  Secret <- Secrets
  Tasks = {"strict", "loose"}
  Allowed <- Fence
  MaxCount <- TaskCounts
  Base <- Ones
  Expected <- Twos
  None = None
  Unusable = Unusable
  Paths <- MCPaths
  Fold <- MCFold
  Refusal <- MCRefusal
  MaxChangedPaths = 2
  Inventories <- MCInventories
  RequestOf <- MCRequestOf
  Absent = Absent
  Contracts <- MCContracts
  WorkerReceipts <- MCWorkerReceipts
  ArtifactIntakes <- MCIntakes
  CheckLists <- MCCheckLists
  Unmountable = {"a/../b"}
  Directories <- MCDirectories
  MaxChecks = 2
  Exposed = {1}
  Unknown = Unknown
  Uncapped = Uncapped
  Unset = Unset
  TestNames = {"test_main.py"}
  Registries <- MCRegistries
  TaskContracts <- MCTaskContracts
  Models <- MCModels
  Revisions <- MCRevisions
  RequestSets <- MCRequestSets
  Ceilings <- MCCeilings
  Attempts = {a1, a2}
  Contexts = {c1, c2}
  Workers = {w1, w2}
  Garbage = Garbage
  Nothing = Nothing
  MaxMessages = 2
SYMMETRY ExecutionSymmetry
INVARIANTS
  AuthorityNeverWidens
  OutcomeIsEarned
  AcceptedIsSound
  ProvenanceIsTrue
  ContinuationIsSafe
  CleanupClaimsAreTrue
  PassedIsEarned
  VerdictIsEarned
CHECK_DEADLOCK FALSE
