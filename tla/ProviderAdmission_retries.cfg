\* Two reviewers of one provider with two slots, three attempts each and a
\* threshold of two: failures accumulate, the circuit opens and half-opens
\* several times.  No symmetry: a liveness property is checked.
CONSTANTS
  r1 = r1
  r2 = r2
  r3 = r3
  r4 = r4
  g1 = g1
  g2 = g2
  Reviewers = {r1, r2}
  Groups = {g1}
  GroupOf <- OneGroup
  MaxConcurrency = 2
  ProviderLimit <- LimitTwo
  Threshold = 2
  RetryAttempts = 3
  NoReviewer = NoReviewer
SPECIFICATION FairSpec
INVARIANT SleeperWillWake
INVARIANT ReservationIsLive
PROPERTY EveryReviewerEnds
\* Every reviewer may be done: the run's reviewers are executed once.
CHECK_DEADLOCK FALSE
