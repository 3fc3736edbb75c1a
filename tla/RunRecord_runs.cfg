\* Two reviewers, of which one passes and the other does not; a mirror
\* of one pending line; one heartbeat, one failure; an older and an unowned
\* record, of which the retention keeps one.
CONSTANTS
  Reviewers <- MCReviewers
  Verdicts <- MCVerdicts
  r1 = r1
  r2 = r2
  MaxPending = 1
  MaxBeats = 1
  MaxFaults = 1
  Older = 1
  Unowned = {1}
  MaxRuns = 1
SPECIFICATION RecordFairSpec
INVARIANT RecordIsHonest
PROPERTY RetentionKeepsNewest
PROPERTY EveryRecordEnds
\* The run ends.
CHECK_DEADLOCK FALSE
