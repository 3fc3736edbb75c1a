\* Two hosts, an index of two records, swept one at a time, one crash.
CONSTANTS
  h1 = h1
  h2 = h2
  Hosts = {h1, h2}
  MaxSpools = 4
  MaxIndex = 2
  Window = 1
  Retention = 2
  Limit = 1
  MaxCrashes = 1
  Commands = {h1}
SPECIFICATION FairSpec
INVARIANT PagesAreSafe
PROPERTY WipedInTheEnd
