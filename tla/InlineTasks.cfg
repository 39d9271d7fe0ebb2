\* An API process in inline mode: two tasks, one client, one restart.
SPECIFICATION FairSpec
CONSTANTS
  t1 = t1
  t2 = t2
  c1 = c1
  NoWorker = NoWorker
  Worker = {}
  Thread = {t1, t2}
  Client = {c1}
  Requests = {"poll", "matching", "profile", "cached_profile"}
  NumJobs = 2
  MaxAttempts = 1
  LeaseTicks = 1
  StaleTicks = 0
  Backoffs = {0}
  MaxReboots = 1
  MaxAborts = 1
INVARIANTS InlineTypeOK RunningJobsAreExecuted
PROPERTIES AnsweredProfilesAreNotGenerated RunningEnds
