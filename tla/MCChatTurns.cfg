\* Two turns and a deterministic command on one conversation, or new ones.
SPECIFICATION FairSpec
CONSTANTS
  read = read
  other = other
  padded = padded
  write = write
  danger = danger
  Turns = {t1, t2}
  Newcomers = {t2}
  Commands = {d1}
  Calls <- MCCalls
  Validated <- MCValidated
  Risk <- MCRisk
  MaxCalls = 2
  MaxIdentical = 1
  MaxFailures = 2
  MaxBatch = 2
INVARIANTS
  ReplyTellsTruth
PROPERTIES
  NoStaleGeneration
  TurnEnds
\* All requests may have been served.
CHECK_DEADLOCK FALSE
