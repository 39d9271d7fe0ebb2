------------------------------ MODULE JobRunner ------------------------------
(***************************************************************************)
(* The service methods that execute one background job                     *)
(* (CareerService.run_profile_generation, run_scan_job, run_matching_job), *)
(* as the steps a thread takes between two transactions.  Nothing here     *)
(* looks at the lease: every write names the job by its id alone.          *)
(* JobQueue runs these steps in leased workers, InlineQueue in the tasks   *)
(* of the API process.                                                     *)
(***************************************************************************)
EXTENDS JobTable

CONSTANTS
  Thread,   \* the threads that execute jobs
  NumJobs   \* bound: how many jobs are ever created

ASSUME JobRunnerAssumption == NumJobs \in Nat \ {0}

VARIABLES
  jobs,  \* the table; jobs are numbered in the order of their created_at
  pc,    \* where each thread is
  held   \* the job a thread was given, NoJob while it has none

Job   == 1..NumJobs
NoJob == 0

\* "claiming": between the SELECT and the UPDATE of a claim (workers only).
\* "claimed": given a job; "loaded": has read its row; "executing": has
\* written status running and is calling the model, the sources or the matcher.
Busy     == {"claimed", "loaded", "executing"}
ThreadPC == {"down", "idle", "claiming"} \cup Busy

runnerVars == <<jobs, pc, held>>

JobRunnerTypeOK ==
  /\ jobs \in [Job -> Row]
  /\ pc \in [Thread -> ThreadPC]
  /\ held \in [Thread -> Job \cup {NoJob}]
  /\ \A t \in Thread : pc[t] \in Busy => held[t] \in Job

Release(t) ==
  /\ pc' = [pc EXCEPT ![t] = "idle"]
  /\ held' = [held EXCEPT ![t] = NoJob]

WriteRow(j, row) == jobs' = [jobs EXCEPT ![j] = row]

-----------------------------------------------------------------------------
\* Fault: profile generation does not look at the status either.
LoadAnyway(t) ==
  /\ pc[t] = "claimed"
  /\ pc' = [pc EXCEPT ![t] = "loaded"]
  /\ UNCHANGED <<jobs, held>>

\* get_background_job at the start of every run_* method.  Only profile
\* generation looks at the status it read, and only for "completed".
Load(t) ==
  /\ pc[t] = "claimed"
  /\ ~ /\ jobs[held[t]].kind = "profile_generation"
       /\ jobs[held[t]].status = "completed"
  /\ pc' = [pc EXCEPT ![t] = "loaded"]
  /\ UNCHANGED <<jobs, held>>

\* run_profile_generation returns without touching the row when the workspace
\* has no profile any more (the user may delete it at any time) or the job is
\* already completed.
ReturnEarly(t) ==
  /\ pc[t] = "claimed"
  /\ jobs[held[t]].kind = "profile_generation"
  /\ Release(t)
  /\ UNCHANGED jobs

\* update_background_job(job_id, "running"), a transaction after the read.
Begin(t) ==
  /\ pc[t] = "loaded"
  /\ WriteRow(held[t], RunningRow(jobs[held[t]]))
  /\ pc' = [pc EXCEPT ![t] = "executing"]
  /\ UNCHANGED held

\* run_matching writes status running again with the progress of each job.
ReportProgress(t) ==
  /\ pc[t] = "executing"
  /\ jobs[held[t]].kind = "matching"
  /\ WriteRow(held[t], RunningRow(jobs[held[t]]))
  /\ UNCHANGED <<pc, held>>

Complete(t) ==
  /\ pc[t] = "executing"
  /\ LET r == jobs[held[t]] IN WriteRow(held[t], ClosedRow(r, "completed", r.error))
  /\ Release(t)

\* The except clause.  run_matching_job reads and begins outside its try: an
\* error there ends the thread and is a crash.
MayFail(t) ==
  \/ pc[t] = "executing"
  \/ pc[t] \in {"claimed", "loaded"} /\ jobs[held[t]].kind # "matching"

FailPermanently(t) ==
  /\ MayFail(t)
  /\ WriteRow(held[t], ClosedRow(jobs[held[t]], "failed", "permanent"))
  /\ Release(t)

FailRetryably(t, backoff) ==
  /\ MayFail(t)
  /\ WriteRow(held[t], RetriedRow(jobs[held[t]], backoff))
  /\ Release(t)

Finish(t) ==
  \/ Complete(t)
  \/ FailPermanently(t)
  \/ \E b \in Backoffs : FailRetryably(t, b)
=============================================================================
