\* One stored run and the reviewer of it that is shown; one change on disk, one
\* move of the user, one failing answer.
CONSTANTS
  r1 = r1
  r2 = r2
  v = v
  Runs = {r1}
  Reviewers = {v}
  None = None
  MaxChanges = 1
  MaxMoves = 1
  MaxFaults = 1
SPECIFICATION DashboardFairSpec
PROPERTY NothingGoesBack
PROPERTY EveryChangeShows
\* The page may rest once all is shown.
CHECK_DEADLOCK FALSE
