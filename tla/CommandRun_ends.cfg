\* A run of two lenses and its retry; two chains of two events each and three
\* heartbeats, every kind of failure.  No symmetry: liveness is checked.
CONSTANTS
  a = a
  b = b
  g1 = g1
  g2 = g2
  Lenses = {a, b}
  Count <- RunsCount
  GroupOf <- RunsGroups
  PassQuorum <- RunsQuorum
  MinGroups <- RunsQuorum
  Adjudicated <- OnlyA
  MaxRuns = 2
  c1 = c1
  c2 = c2
  Chains = {c1, c2}
  Heart = Heart
  MaxEvents = 2
  MaxBeats = 3
SPECIFICATION BothSpec
INVARIANT VerdictsAreEarned
INVARIANT EndIsHonest
INVARIANT RetryKeepsVerdict
INVARIANT DeliveryIsTold
PROPERTY NothingAfterVerdict
PROPERTY StreamSpec
PROPERTY EveryRunEnds
\* The run ends.
CHECK_DEADLOCK FALSE
