\* Two lenses, one with adjudication, that share a provider with a single slot.
CONSTANTS
  a = a
  b = b
  g1 = g1
  g2 = g2
  Lenses = {a, b}
  Count <- RosterCount
  GroupOf <- RosterGroups
  PassQuorum <- RosterQuorum
  MinGroups <- RosterQuorum
  Adjudicated <- OnlyA
  MaxConcurrency = 2
  ProviderLimit <- LimitOne
SPECIFICATION FairSpec
INVARIANT RunIsAccounted
PROPERTY DecidedStays
PROPERTY EveryRunEnds
\* The run ends.
CHECK_DEADLOCK FALSE
