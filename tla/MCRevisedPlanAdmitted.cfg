\* An execution plan revised by an empty list of operations is no longer escalated.
SPECIFICATION AssignmentSpec
CONSTANTS
  Unknown = Unknown
  Uncapped = Uncapped
  Unset = Unset
  TestNames = {"test_main.py"}
  Registries <- MCRegistries
  TaskContracts <- MCTaskContracts
  Models <- MCModels
  Revisions <- MCRevisions
  RequestSets <- MCRequestSets
  Ceilings <- MCCeilings
INVARIANT EscalationBlocksAdmission
CHECK_DEADLOCK FALSE
