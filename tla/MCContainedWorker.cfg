\* Two hosts, three executions each; the breaker opens before the retries run out.
SPECIFICATION Spec
CONSTANTS
  Hosts = {h1, h2}
  MaxRetryAttempts = 2
  CircuitBreakerFailures = 2
  Kills = TRUE
  None = None
SYMMETRY HostSymmetry
\* All chains may have ended.
CHECK_DEADLOCK FALSE
INVARIANTS
  ReceiptIsTrue
  CleanupIsTrue
  OneWorkerPerRequest
  RetryIsSafe
  ChainsEnd
