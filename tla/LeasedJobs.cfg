\* Timely workers: two of them race for one job while two API requests may write
\* it off or answer it.  One heartbeat in a row may fail, the lease lasts three.
SPECIFICATION Spec
CONSTANTS
  w1 = w1
  w2 = w2
  c1 = c1
  c2 = c2
  NoWorker = NoWorker
  Worker = {w1, w2}
  Thread = {w1, w2}
  Client = {c1, c2}
  Requests = {"poll", "scan", "matching", "profile", "cached_profile"}
  NumJobs = 1
  MaxAttempts = 3
  LeaseTicks = 3
  StaleTicks = 2
  Backoffs = {0, 1}
  MaxMissed = 1
  MaxCrashes = 1
  Timely = TRUE
SYMMETRY Symmetry
INVARIANTS TypeOK ExclusiveExecution LeaseCoversExecution StaleMeansAbandoned
PROPERTIES SettledForGood ImplementsLifecycle
