\* Inline mode: what a scan finds when it reports, with another task on its run.
SPECIFICATION Spec
CONSTANTS
  c1 = c1
  c2 = c2
  Worker = {}
  Client = {c1, c2}
  Inline = TRUE
  NumRuns = 3
  MaxCrashes = 0
INVARIANTS ScansFindAnOutcome
