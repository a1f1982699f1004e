\* Two writers, or one with two attempts and a planner, over two slices; or the
\* context engine over five files.
SPECIFICATION MCSpec
CONSTANTS
  s1 = s1
  s2 = s2
  w1 = w1
  w2 = w2
  Slices <- MCSlices
  HardDeps <- MCHardDeps
  SoftDeps <- MCNoDeps
  Attempts = {a1, a2}
  Writers <- MCWriters
  Planners = {p1}
  Paths <- MCPaths
  PythonNames <- MCPythonNames
  TestNames <- MCTestNames
  ExcludedPaths <- MCExcluded
  IncludeExcluded = FALSE
  ProtectedPaths <- MCProtected
  Contents <- MCContents
  Unparsable = {"binary", "broken"}
  Imports <- MCImports
  Gone = "gone"
  Link = "link"
  ComponentOrder <- MCComponentOrder
  SecretPaths <- MCSecretPaths
  RejectedPaths <- MCNone
  DocNames = {"DESIGN.md"}
  DesignDocs <- MCDocs
  ArchitectureDocs <- MCDocs
  RelatedSeeds <- MCRelated
  Secret = {"password"}
  NoText = {"binary"}
  LineSizes <- MCLineSizes
  ArchitectureLines = 1
  DefaultExcerpt = 2
  MaxExcerpt = 4
  MaxSupplements = 1
  Bases = {"b1", "b2"}
  TaskScopes <- MCTaskScopes
  Asks <- MCAsks
  WholeRepository <- MCWholeRepository
  Nothing = Nothing
  FirstTrees <- MCFirstTrees
  MaxWrites = 1
  MaxModels = 2
  MaxPackages = 2
SYMMETRY MCSymmetry
INVARIANTS
  DependenciesComplete
  PackageIsHonest
PROPERTIES
  NoLostUpdate
  PlannedIsReady
