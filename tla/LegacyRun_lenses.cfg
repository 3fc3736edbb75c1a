SPECIFICATION FairSpec
CONSTANTS
  A = A
  B = B
  a1 = a1
  a2 = a2
  b1 = b1
  p = p
  q = q
  NoOne = NoOne
  LensOrder <- MCLensOrder
  Chain <- MCChain
  Group <- MCGroup
  PassQuorum <- MCPassQuorum
  MinGroups <- MCMinGroups
  Adjudicated <- MCAdjudicated
  Scopes <- MCScopes
  Reported <- MCReported
  MaxAttempts = 2
  MaxConcurrency = 2
  ProviderLimit <- MCProviderLimit
  Threshold = 1
INVARIANT EndsAreEarned
INVARIANT NothingIsStranded
PROPERTY EveryRunSettles
\* The run ends.
CHECK_DEADLOCK FALSE
