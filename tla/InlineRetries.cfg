\* A restart in inline mode, against the message its recovery leaves in the row.
\* No failure asks to be retried, so that only the recovery requeues a row.
SPECIFICATION FairSpec
CONSTANTS
  t1 = t1
  t2 = t2
  c1 = c1
  NoWorker = NoWorker
  Worker = {}
  Thread = {t1, t2}
  Client = {c1}
  Requests = {"profile"}
  NumJobs = 1
  MaxAttempts = 1
  LeaseTicks = 1
  StaleTicks = 0
  Backoffs = {}
  MaxReboots = 1
  MaxAborts = 0
PROPERTY RequeuedJobsAreRetried
