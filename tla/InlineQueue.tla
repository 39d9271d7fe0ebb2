------------------------------ MODULE InlineQueue ------------------------------
(***************************************************************************)
(* The job table with an API process in inline mode (FOXPILOT_WORKER_MODE  *)
(* not "external", the default): whoever requests a job also spawns a      *)
(* background task that executes it, in the same process.  There are no    *)
(* workers, so nothing is claimed or leased and no attempt is counted.     *)
(* When the process starts, lifespan recovers the jobs its predecessor     *)
(* left running.                                                           *)
(***************************************************************************)
EXTENDS JobRequests, FiniteSets

CONSTANTS
  MaxReboots,  \* bound: restarts of the process in a behaviour
  MaxAborts    \* bound: jobs whose task ends with an exception nobody records

ASSUME InlineQueueAssumption ==
  /\ Worker = {}
  /\ MaxReboots \in Nat
  /\ MaxAborts \in Nat

VARIABLES
  reboots,
  aborted  \* history: jobs whose task ended without a word since the last restart

vars == <<jobs, pc, held, client, reboots, aborted>>
processVars == <<reboots, aborted>>

InlineTypeOK ==
  /\ JobRunnerTypeOK
  /\ JobRequestsTypeOK
  /\ reboots \in 0..MaxReboots
  /\ aborted \in SUBSET Job
  /\ \A t \in Thread : pc[t] \in {"idle"} \cup Busy

Init ==
  /\ jobs = [j \in Job |-> AbsentRow]
  /\ pc = [t \in Thread |-> "idle"]
  /\ held = [t \in Thread |-> NoJob]
  /\ client = [c \in Client |-> IdleClient]
  /\ reboots = 0
  /\ aborted = {}

-----------------------------------------------------------------------------
(* Requests.  BackgroundTasks runs the task once the response is sent: the  *)
(* row is committed, and if the process dies now only the row is left.      *)

Spawn(t, j) ==
  /\ pc[t] = "idle"
  /\ pc' = [pc EXCEPT ![t] = "claimed"]
  /\ held' = [held EXCEPT ![t] = j]

\* A poll, or the first transaction of a request that will create a job.
Look(c) ==
  /\ \/ \E kind \in Kind, next \in {"idle", "creating"} : FindStale(c, kind, next)
     \/ \E kind \in Kind : FindNone(c, kind)
     \/ \E j \in Job : CreateAnsweredJob(c, j)
  /\ UNCHANGED <<pc, held, processVars>>

\* queue_scan and queue_matching hand back the active job they find, and the
\* endpoint spawns a task for it whether or not one is running already.
Reuse(c) ==
  /\ client[c].pc = "idle"
  /\ \E kind \in Kind, t \in Thread : \E j \in Newest(kind) :
       /\ Asks(kind, "creating")
       /\ kind # "profile_generation"
       /\ ~Stale(jobs[j])
       /\ Spawn(t, j)
  /\ UNCHANGED <<jobs, client, processVars>>

Submit(c) ==
  /\ \E j \in Job, t \in Thread :
       /\ CreateJob(c, j) \/ CreateProfileJob(c, j)
       /\ Spawn(t, j)
  /\ UNCHANGED processVars

\* The task of an answered job is spawned all the same.
Answer(c) ==
  /\ AnswerFromStore(c)
  /\ \E t \in Thread : Spawn(t, client[c].job)
  /\ UNCHANGED processVars

Expire(c) ==
  /\ ExpireStale(c)
  /\ UNCHANGED <<pc, held, processVars>>

-----------------------------------------------------------------------------
(* Tasks *)

ReadTask(t) ==
  /\ Load(t) \/ ReturnEarly(t)
  /\ UNCHANGED <<client, processVars>>

BeginTask(t) ==
  /\ Begin(t)
  /\ UNCHANGED <<client, processVars>>

ReportTask(t) ==
  /\ ReportProgress(t)
  /\ UNCHANGED <<client, processVars>>

FinishTask(t) ==
  /\ Finish(t)
  /\ UNCHANGED <<client, processVars>>

\* An exception outside the try of run_matching_job, or while the except clause
\* records a failure (the database is away): the task ends, the row stays.
AbortTask(t) ==
  /\ pc[t] \in Busy
  /\ Cardinality(aborted) < MaxAborts
  /\ aborted' = aborted \cup {held[t]}
  /\ Release(t)
  /\ UNCHANGED <<jobs, client, reboots>>

-----------------------------------------------------------------------------
\* The process ends, with its tasks and requests, and a new one recovers.
Reboot ==
  /\ reboots < MaxReboots
  /\ reboots' = reboots + 1
  /\ jobs' = [j \in Job |-> RecoveredRow(jobs[j])]
  /\ pc' = [t \in Thread |-> "idle"]
  /\ held' = [t \in Thread |-> NoJob]
  /\ client' = [c \in Client |-> IdleClient]
  /\ aborted' = {}

Tick ==
  /\ jobs' = [j \in Job |-> ElapsedRow(jobs[j])]
  /\ UNCHANGED <<pc, held, client, processVars>>

Next ==
  \/ \E c \in Client : Look(c) \/ Reuse(c) \/ Submit(c) \/ Answer(c) \/ Expire(c)
  \/ \E t \in Thread :
       ReadTask(t) \/ BeginTask(t) \/ ReportTask(t) \/ FinishTask(t) \/ AbortTask(t)
  \/ Reboot
  \/ Tick

Spec == Init /\ [][Next]_vars

\* Tasks get their turn, a request in progress goes on, and time passes.  Nobody
\* has to ask for anything.
Fairness ==
  /\ WF_vars(Tick)
  /\ \A c \in Client : WF_vars(Submit(c) /\ client[c].pc = "creating")
                     /\ WF_vars(Answer(c)) /\ WF_vars(Expire(c))
  /\ \A t \in Thread :
       WF_vars(ReadTask(t)) /\ WF_vars(BeginTask(t)) /\ WF_vars(FinishTask(t))

FairSpec == Spec /\ Fairness

-----------------------------------------------------------------------------
(* What inline mode promises *)

WorkingOn(j) == {t \in Thread : pc[t] = "executing" /\ held[t] = j}

\* A job shown as running is being executed, or its task ended without a word
\* since the process started: tasks that share a job, stale write-offs and
\* restarts (recover_interrupted_background_jobs) leave no row running for nobody.
RunningJobsAreExecuted ==
  \A j \in Job : jobs[j].status = "running" =>
    WorkingOn(j) # {} \/ j \in aborted

\* The task that is spawned for an answered job anyway, or runs on after the
\* resume was uploaded again, does not call the model for a job that is already
\* completed (test_profile_generation_reuses_identical_resume: "LLM should not
\* run").
AnsweredProfilesAreNotGenerated ==
  [][\A t \in Thread :
       pc[t] # "executing" /\ pc'[t] = "executing"
         => ~ /\ jobs[held[t]].kind = "profile_generation"
              /\ jobs[held[t]].status = "completed"]_vars

\* Nothing runs for ever, even with several tasks on one job.
RunningEnds ==
  \A j \in Job : jobs[j].status = "running" ~>
    jobs[j].status # "running" \/ j \in aborted

\* recover_interrupted_background_jobs leaves the message "Job interrupted by a
\* process restart. Will retry." in a row it puts back to queued.  Where no
\* failure asks for a retry (Backoffs is empty) nothing else requeues a row.
RequeuedJobsAreRetried ==
  \A j \in Job :
    jobs[j].status = "queued" /\ jobs[j].error = "retryable" ~> jobs[j].status # "queued"
=============================================================================
