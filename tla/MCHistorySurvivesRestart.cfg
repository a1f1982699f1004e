\* Callers that check every transition first.
SPECIFICATION MCSpec
CONSTANTS
    Lower <- MCLower
    DefaultDenied <- MCDefaultDenied
    EnvExample <- MCEnvExample
    EnvRules <- MCEnvRules
    Rules <- MCRules
    Paths <- MCPaths
    Bindings <- MCBindings
    FullShas = {"full"}
    Slug <- MCSlug
    ScopeInputs <- MCScopeInputs
    Returns <- MCReturns
    PythonPaths <- MCPythonPaths
    TestPaths <- MCPythonPaths
    UnplannablePaths <- MCUnplannable
    Reports <- MCReports
    DecisionIds = {"d1"}
    AuthorizationIds = {"a1", "a2"}
    Fields = {"body_sha256"}
    MaxDecisions = 2
    MaxAuthorizations = 1
    MaxResults = 1
    Sessions = {p, q}
    MaxSaves = 2
    MaxEvents = 6
    Ids = {id1, id2, id3}
    Keys = {k1, k2}
    Requests = {q1, q2}
    MaxRows = 4
    MaxAttempts = 2
    CallersCheck = TRUE
INVARIANT HistorySurvivesRestart
CHECK_DEADLOCK FALSE
