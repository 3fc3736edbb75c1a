\* Two providers, fewer slots than reviewers: the scan, the two limits, a line
\* in which a slot for the one provider passes the other's reviewers, and a
\* reviewer that waits for the circuit of its provider.
CONSTANTS
  r1 = r1
  r2 = r2
  r3 = r3
  r4 = r4
  g1 = g1
  g2 = g2
  Reviewers = {r1, r2, r3, r4}
  Groups = {g1, g2}
  GroupOf <- Pairs
  MaxConcurrency = 2
  ProviderLimit <- OneAndTwo
  Threshold = 1
  RetryAttempts = 1
  NoReviewer = NoReviewer
SPECIFICATION Spec
SYMMETRY WithinGroups
CONSTRAINT FewBoundaries
INVARIANT SlotsAccounted
INVARIANT SlotsHaveOwners
INVARIANT WaitersAreServed
PROPERTY PoolSpec
 
\* Every reviewer may be done: the run's reviewers are executed once.
CHECK_DEADLOCK FALSE
