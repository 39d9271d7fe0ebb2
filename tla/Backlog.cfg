\* Two jobs of one kind: timely workers and the page polling must not mix them up,
\* and each job gets its turn.  No symmetry: it is unsound for liveness.
SPECIFICATION FairSpec
CONSTANTS
  w1 = w1
  w2 = w2
  c1 = c1
  NoWorker = NoWorker
  Worker = {w1, w2}
  Thread = {w1, w2}
  Client = {c1}
  Requests = {"poll", "profile"}
  NumJobs = 2
  MaxAttempts = 2
  LeaseTicks = 2
  StaleTicks = 1
  Backoffs = {1}
  MaxMissed = 0
  MaxCrashes = 1
  Timely = TRUE
INVARIANT ExclusiveExecution
PROPERTIES SettledForGood EveryJobSettles
