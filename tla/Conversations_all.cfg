CONSTANTS
  Kinds = {"claude", "codex", "copilot"}
  MaxActivity = 2
  Adapters = {"command", "claude", "copilot", "codex"}
  Pages = 2
  PageRepairs = 1
  CoverageTurns = 1
  MaxEvents = 1
  a = a
  b = b
  v = v
  w = w
  Bad = Bad
  Ids = {a, b}
  Candidates <- TwoCandidates
  Contents <- Shown
  PerPage = 1
  MaxFindings = 2
  MaxItems = 2
  Declarations <- SomeDeclarations
  MaxPages = 3
  MaxRepairs = 1
  MaxInspections = 1
  MaxAttempts = 2
SPECIFICATION Spec
INVARIANT CleanupIsSafe
INVARIANT SessionsAreHonest
INVARIANT NothingDropped
PROPERTY EveryConversationEnds
\* Every conversation ends.
CHECK_DEADLOCK FALSE
