SPECIFICATION MCSpec
CONSTANTS
  Ops = {o1}
  Reqs = {r1, r2}
  Versions = {v1, v2}
  Ttl = 1
  MaxTime = 2
  None = None
  Proposals <- MCProposals
  Releases <- MCReleases
  FirstRegistry <- MCRegistry
  ProjectNames <- MCProjectNames
  FirstProjects <- MCFirstProjects
  MaxEntries = 2
  DefaultLimit = 1
  MaxOpen = 2
  MaxTaskEvents = 2
  MaxDeploys = 1
  Procs = {"old", "new"}
  Latest <- MCLatest
  OnRailway = TRUE
  FirstVersions = {0, 5}
  Retries = 2
  MaxInserts = 1
  MaxCrashes = 1
  MaxRestores = 1
INVARIANTS
  WritesNeedApproval
  OnlyTheReviewedVersionRan
  NoClaimOfStaleArrival
  RunAccountsForItsSteps
  FrozenWriteWasSeen
  OnlyPlannedVersionWrites
  SchemaIsWhole
  ServedSchemaSuffices
PROPERTIES
  ImplementsContract
  ClaimSettles
  BootEnds
CHECK_DEADLOCK FALSE
