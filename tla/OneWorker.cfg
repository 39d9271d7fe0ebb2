\* Timely workers and a polling page, against what worker.py says of leases.
SPECIFICATION Spec
CONSTANTS
  w1 = w1
  w2 = w2
  c1 = c1
  NoWorker = NoWorker
  Worker = {w1, w2}
  Thread = {w1, w2}
  Client = {c1}
  Requests = {"poll", "matching"}
  NumJobs = 1
  MaxAttempts = 3
  LeaseTicks = 3
  StaleTicks = 2
  Backoffs = {0, 1}
  MaxMissed = 1
  MaxCrashes = 1
  Timely = TRUE
SYMMETRY Symmetry
INVARIANT OneWorkerPerJob
