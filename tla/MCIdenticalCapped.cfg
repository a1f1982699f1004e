\* One turn whose provider repeats a call with arguments that normalise.
SPECIFICATION Spec
CONSTANTS
  read = read
  other = other
  padded = padded
  write = write
  danger = danger
  Turns = {t1}
  Newcomers = {}
  Commands = {}
  Calls <- MCPaddedCalls
  Validated <- MCValidated
  Risk <- MCRisk
  MaxCalls = 5
  MaxIdentical = 2
  MaxFailures = 2
  MaxBatch = 3
INVARIANT IdenticalCapped
CHECK_DEADLOCK FALSE
