\* Two executions side by side with one event; the run and two recoveries of its
\* index entry; any failure, and a crash anywhere.
CONSTANTS
  reviewer1 = reviewer1
  reviewer2 = reviewer2
  recovery1 = recovery1
  recovery2 = recovery2
  Reviewers = {reviewer1, reviewer2}
  Chunks = 1
  Pages = 2
  Attempts = 2
  MaxEvents = 1
  NoOne = NoOne
  Publisher = Publisher
  Recoverers = {recovery1, recovery2}
  NoDoc = NoDoc
  NoUpdate = NoUpdate
  TornEntry = TornEntry
  NoClaim = NoClaim
SPECIFICATION BothSpec
SYMMETRY Symmetric
INVARIANT FileIsReadable
INVARIANT CopySurvives
INVARIANT IndexStaysWhole
PROPERTY OthersAreLeftAlone
\* The run and every process end.
CHECK_DEADLOCK FALSE
