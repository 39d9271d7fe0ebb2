\* Workers and requests may be paused for any time between two transactions.  No
\* symmetry: it is unsound for liveness.
SPECIFICATION FairSpec
CONSTANTS
  w1 = w1
  w2 = w2
  c1 = c1
  NoWorker = NoWorker
  Worker = {w1, w2}
  Thread = {w1, w2}
  Client = {c1}
  Requests = {"poll", "scan", "matching", "profile", "cached_profile"}
  NumJobs = 1
  MaxAttempts = 3
  LeaseTicks = 2
  StaleTicks = 1
  Backoffs = {0, 1}
  MaxMissed = 0
  MaxCrashes = 1
  Timely = FALSE
INVARIANTS AttemptsCountHandOuts DeadLettersWereTried PicturesAreTrue
PROPERTIES ClaimsTakeFreeJobs EveryJobSettles
