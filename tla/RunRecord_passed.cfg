\* The same run without a heartbeat: what a reader says of its record.
CONSTANTS
  Reviewers <- MCReviewers
  Verdicts <- MCVerdicts
  r1 = r1
  r2 = r2
  MaxPending = 1
  MaxBeats = 0
  MaxFaults = 1
  Older = 1
  Unowned = {1}
  MaxRuns = 1
SPECIFICATION RecordFairSpec
INVARIANT PassedIsComplete
CHECK_DEADLOCK FALSE
