SPECIFICATION Spec
CONSTANTS
  Ops = {o1}
  Reqs = {r1}
  Versions = {v1}
  Ttl = 1
  MaxTime = 2
  None = None
INVARIANT FailedExecutedNothing
