\* Two workers that also scan, one API request at a time, one crash.
SPECIFICATION FairSpec
CONSTANTS
  w1 = w1
  w2 = w2
  c1 = c1
  Worker = {w1, w2}
  Client = {c1}
  Inline = FALSE
  NumRuns = 4
  MaxCrashes = 1
INVARIANTS IngestionTypeOK RunningRunsAreFetched BacklogIsBounded
PROPERTIES RunsEnd ScansTakeOver
