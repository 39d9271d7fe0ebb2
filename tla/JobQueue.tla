------------------------------- MODULE JobQueue -------------------------------
(***************************************************************************)
(* The durable job queue with external workers (FOXPILOT_WORKER_MODE =     *)
(* external): worker.py's processes claim rows of background_jobs under a  *)
(* lease, a heartbeat thread renews the lease while the job executes, API  *)
(* requests create jobs and write off stale ones, workers crash and are    *)
(* started again, and time passes.                                         *)
(*                                                                         *)
(* A claim is a SELECT and a later UPDATE that compares status and         *)
(* updated_at with what the SELECT saw; seen[w] is that picture, and       *)
(* current says whether updated_at is still the one it shows.  Two writes  *)
(* never get the same updated_at (microseconds in the code).               *)
(***************************************************************************)
EXTENDS JobRequests

CONSTANTS
  MaxMissed,   \* bound: heartbeats in a row that may fail with an exception
  MaxCrashes,  \* bound: worker crashes in a behaviour
  Timely       \* TRUE: heartbeats and claims take less than one tick;
               \* FALSE: any process may be paused for any time

ASSUME JobQueueAssumption ==
  /\ Thread = Worker
  /\ MaxMissed \in Nat
  /\ MaxCrashes \in Nat
  /\ Timely \in BOOLEAN

\* The heartbeat interval and the lease must leave room for the missed beats.
LeaseOutlastsMisses == LeaseTicks >= MaxMissed + 2

VARIABLES
  seen,        \* per worker, the candidate its claim selected
  beat,        \* per worker, its heartbeat thread
  crashes,
  starts,      \* history: how often each job was handed to a worker
  overridden   \* history: jobs whose status an API request wrote

vars == <<jobs, pc, held, seen, beat, client, crashes, starts, overridden>>

workerVars  == <<pc, held, seen, beat>>
historyVars == <<crashes, starts, overridden>>

Timer == {"off", "waiting", "due"}

Picture ==
  [job : Job \cup {NoJob}, status : Status, attempt : Attempt,
   lease : 0..LeaseTicks, current : BOOLEAN]
Nothing ==
  [job |-> NoJob, status |-> "absent", attempt |-> 0, lease |-> 0, current |-> FALSE]

NoBeat == [timer |-> "off", missed |-> 0]

TypeOK ==
  /\ JobRunnerTypeOK
  /\ seen \in [Worker -> Picture]
  /\ beat \in [Worker -> [timer : Timer, missed : 0..MaxMissed]]
  /\ JobRequestsTypeOK
  /\ \A w \in Worker : pc[w] = "claiming" => seen[w].job \in Job
  /\ \A w \in Worker : beat[w].timer # "off" => pc[w] \in Busy
  /\ crashes \in 0..MaxCrashes
  /\ starts \in [Job -> Nat]
  /\ overridden \in SUBSET Job

Init ==
  /\ jobs = [j \in Job |-> AbsentRow]
  /\ pc = [w \in Worker |-> "idle"]
  /\ held = [w \in Worker |-> NoJob]
  /\ seen = [w \in Worker |-> Nothing]
  /\ beat = [w \in Worker |-> NoBeat]
  /\ client = [c \in Client |-> IdleClient]
  /\ crashes = 0
  /\ starts = [j \in Job |-> 0]
  /\ overridden = {}

\* Fault: writes leave updated_at as it is.
NeverStamped(j, pictures) == pictures

\* Every write to job j gives it a new updated_at, and so outdates every picture
\* of it among the ones the workers are left with.
Stamped(j, pictures) ==
  [v \in Worker |-> [pictures[v] EXCEPT !.current = @ /\ pictures[v].job # j]]

-----------------------------------------------------------------------------
(* claim_next_background_job *)

\* The oldest row the WHERE clause admits.
IsCandidate(j) ==
  /\ Claimable(jobs[j])
  /\ \A i \in Job : Claimable(jobs[i]) => j <= i

SelectCandidate(w) ==
  /\ pc[w] = "idle"
  /\ \E j \in Job :
       /\ IsCandidate(j)
       /\ seen' = [seen EXCEPT ![w] =
            [job |-> j, status |-> jobs[j].status, attempt |-> jobs[j].attempt,
             lease |-> LeaseTicks, current |-> TRUE]]
  /\ pc' = [pc EXCEPT ![w] = "claiming"]
  /\ UNCHANGED <<jobs, held, beat, client, historyVars>>

\* Fault: the UPDATE compares the status only.
UnmovedStatus(w) == jobs[seen[w].job].status = seen[w].status

\* The UPDATE's compare-and-swap on status and updated_at.
Unmoved(w) == seen[w].current /\ jobs[seen[w].job].status = seen[w].status

\* Fault: one attempt too many.
ExhaustedLate(w) == seen[w].attempt > MaxAttempts

Exhausted(w) == seen[w].attempt + 1 > MaxAttempts

\* The claim succeeds: the worker has the job and its heartbeat thread starts.
Claim(w) ==
  /\ pc[w] = "claiming"
  /\ Unmoved(w)
  /\ ~Exhausted(w)
  /\ LET j == seen[w].job IN
       /\ WriteRow(j, ClaimedRow(jobs[j], w, seen[w].attempt + 1, seen[w].lease))
       /\ held' = [held EXCEPT ![w] = j]
       /\ starts' = [starts EXCEPT ![j] = @ + 1]
       /\ seen' = Stamped(j, [seen EXCEPT ![w] = Nothing])
  /\ pc' = [pc EXCEPT ![w] = "claimed"]
  /\ beat' = [beat EXCEPT ![w] = [timer |-> "waiting", missed |-> 0]]
  /\ UNCHANGED <<client, crashes, overridden>>

\* All attempts are used up: the row is written off instead.
WriteOff(w) ==
  /\ pc[w] = "claiming"
  /\ Unmoved(w)
  /\ Exhausted(w)
  /\ LET j == seen[w].job IN
       /\ WriteRow(j, ExhaustedRow(jobs[j]))
       /\ seen' = Stamped(j, [seen EXCEPT ![w] = Nothing])
  /\ pc' = [pc EXCEPT ![w] = "idle"]
  /\ UNCHANGED <<held, beat, client, historyVars>>

\* Somebody wrote the row since the SELECT: no row matches, claim nothing.
LoseRace(w) ==
  /\ pc[w] = "claiming"
  /\ ~Unmoved(w)
  /\ pc' = [pc EXCEPT ![w] = "idle"]
  /\ seen' = [seen EXCEPT ![w] = Nothing]
  /\ UNCHANGED <<jobs, held, beat, client, historyVars>>

-----------------------------------------------------------------------------
(* _execute_job between Heartbeat.start and Heartbeat.stop *)

StopHeartbeat(w) == beat' = [beat EXCEPT ![w] = NoBeat]

LoadJob(w) ==
  /\ Load(w)
  /\ UNCHANGED <<seen, beat, client, historyVars>>

ReturnJobEarly(w) ==
  /\ ReturnEarly(w)
  /\ StopHeartbeat(w)
  /\ UNCHANGED <<seen, client, historyVars>>

BeginJob(w) ==
  /\ Begin(w)
  /\ seen' = Stamped(held[w], seen)
  /\ UNCHANGED <<beat, client, historyVars>>

ReportJobProgress(w) ==
  /\ ReportProgress(w)
  /\ seen' = Stamped(held[w], seen)
  /\ UNCHANGED <<beat, client, historyVars>>

FinishJob(w) ==
  /\ Finish(w)
  /\ StopHeartbeat(w)
  /\ seen' = Stamped(held[w], seen)
  /\ UNCHANGED <<client, historyVars>>

\* One round of Heartbeat._run.  The thread ends for good when the row is no
\* longer running under this worker; the main thread is not told.
Heartbeat(w) ==
  /\ beat[w].timer = "due"
  /\ LET j == held[w] IN
       IF jobs[j].owner = w /\ jobs[j].status = "running"
         THEN /\ WriteRow(j, BeatenRow(jobs[j]))
              /\ seen' = Stamped(j, seen)
              /\ beat' = [beat EXCEPT ![w] = [timer |-> "waiting", missed |-> 0]]
         ELSE /\ beat' = [beat EXCEPT ![w] = NoBeat]
              /\ UNCHANGED <<jobs, seen>>
  /\ UNCHANGED <<pc, held, client, historyVars>>

\* The update raised: logged, and tried again one interval later.
HeartbeatError(w) ==
  /\ beat[w].timer = "due"
  /\ beat[w].missed < MaxMissed
  /\ beat' = [beat EXCEPT ![w] = [timer |-> "waiting", missed |-> @.missed + 1]]
  /\ UNCHANGED <<jobs, pc, held, seen, client, historyVars>>

\* The process dies with its heartbeat thread; what it wrote stays.
Crash(w) ==
  /\ pc[w] # "down"
  /\ crashes < MaxCrashes
  /\ crashes' = crashes + 1
  /\ pc' = [pc EXCEPT ![w] = "down"]
  /\ held' = [held EXCEPT ![w] = NoJob]
  /\ seen' = [seen EXCEPT ![w] = Nothing]
  /\ StopHeartbeat(w)
  /\ UNCHANGED <<jobs, client, starts, overridden>>

\* The new process picks a new worker_id.  Reusing the name is the same: no row
\* is written in the name of a worker but by the worker that has claimed it.
Restart(w) ==
  /\ pc[w] = "down"
  /\ pc' = [pc EXCEPT ![w] = "idle"]
  /\ UNCHANGED <<jobs, held, seen, beat, client, historyVars>>

-----------------------------------------------------------------------------
(* API requests *)

\* A request that only reads, or creates a row no worker has seen yet.
Ask(c) ==
  /\ \/ \E kind \in Kind, next \in {"idle", "creating"} : FindStale(c, kind, next)
     \/ \E kind \in Kind : FindNone(c, kind)
     \/ \E j \in Job : CreateJob(c, j) \/ CreateProfileJob(c, j) \/ CreateAnsweredJob(c, j)
  /\ UNCHANGED <<workerVars, historyVars>>

\* A request that writes a row workers may be about to claim.
Override(c) ==
  /\ ExpireStale(c) \/ AnswerFromStore(c)
  /\ seen' = Stamped(client[c].job, seen)
  /\ overridden' = overridden \cup {client[c].job}
  /\ UNCHANGED <<pc, held, beat, crashes, starts>>

-----------------------------------------------------------------------------
\* One heartbeat interval passes.  Timely: not before every due heartbeat has
\* been sent and every claim transaction has ended.
Tick ==
  /\ Timely => \A w \in Worker : beat[w].timer # "due" /\ pc[w] # "claiming"
  /\ jobs' = [j \in Job |-> ElapsedRow(jobs[j])]
  /\ seen' = [w \in Worker |->
       [seen[w] EXCEPT !.lease = IF @ > 0 THEN @ - 1 ELSE @]]
  /\ beat' = [w \in Worker |->
       [beat[w] EXCEPT !.timer = IF @ = "waiting" THEN "due" ELSE @]]
  /\ UNCHANGED <<pc, held, client, historyVars>>

WorkerStep(w) ==
  \/ SelectCandidate(w) \/ Claim(w) \/ WriteOff(w) \/ LoseRace(w)
  \/ LoadJob(w) \/ ReturnJobEarly(w) \/ BeginJob(w) \/ ReportJobProgress(w)
  \/ FinishJob(w) \/ Heartbeat(w) \/ HeartbeatError(w) \/ Crash(w) \/ Restart(w)

Next ==
  \/ \E w \in Worker : WorkerStep(w)
  \/ \E c \in Client : Ask(c) \/ Override(c)
  \/ Tick

Spec == Init /\ [][Next]_vars

\* A worker that is up keeps polling and keeps executing, its heartbeat thread
\* keeps waking up, a crashed worker is started again, time passes.  Progress
\* reports are finitely many, so finishing has a fairness condition of its own.
\* Nothing is assumed of clients, failures or crashes.
Fairness ==
  /\ WF_vars(Tick)
  /\ \A w \in Worker :
       /\ WF_vars(SelectCandidate(w))
       /\ WF_vars(Claim(w) \/ WriteOff(w) \/ LoseRace(w))
       /\ WF_vars(LoadJob(w) \/ ReturnJobEarly(w))
       /\ WF_vars(BeginJob(w))
       /\ WF_vars(FinishJob(w))
       /\ WF_vars(Heartbeat(w) \/ HeartbeatError(w))
       /\ WF_vars(Restart(w))

FairSpec == Spec /\ Fairness

-----------------------------------------------------------------------------
(* What the queue promises *)

Executing(w, j) == pc[w] \in Busy /\ held[w] = j

\* Two workers never execute the same job at one time, as long as workers are
\* timely and no API request wrote the job's status: the point of leasing each
\* job to one worker (worker.py, claim_next_background_job).
ExclusiveExecution ==
  \A j \in Job \ overridden : \A v, w \in Worker :
    Executing(v, j) /\ Executing(w, j) => v = w

\* Intervals since worker w last renewed its lease.
Slack(w) == beat[w].missed + IF beat[w].timer = "due" THEN 1 ELSE 0

\* Why it is so: from the claim to the last write, the executing worker owns
\* the running row, its heartbeat thread is alive, and what the lease has lost
\* and the row has aged is no more than the heartbeats it missed.
LeaseCoversExecution ==
  \A w \in Worker : \A j \in Job \ overridden :
    Executing(w, j) =>
      /\ jobs[j].status = "running"
      /\ jobs[j].owner = w
      /\ beat[w].timer # "off"
      /\ jobs[j].lease >= LeaseTicks - Slack(w)
      /\ jobs[j].age <= Slack(w)

\* The UPDATE of a claim compares updated_at and status only; that is enough:
\* if no write came in between, the row still is free to take and its attempt
\* is the one the SELECT read, however long the worker was paused.
PicturesAreTrue ==
  \A w \in Worker : seen[w].current =>
    LET r == jobs[seen[w].job] IN
      /\ r.status = seen[w].status
      /\ r.attempt = seen[w].attempt
      /\ Claimable(r)

\* worker.py's header, of every job: "Each background job is leased to a worker
\* identified by worker_id.  A heartbeat thread extends the lease while the job
\* executes."  So no two workers execute it, whatever API requests do.
OneWorkerPerJob ==
  \A j \in Job : \A v, w \in Worker : Executing(v, j) /\ Executing(w, j) => v = w

\* worker.py's header: "Permanent failures or exhausted retries move the job to
\* dead_letter".
PermanentFailuresAreDeadLetters ==
  \A j \in Job :
    jobs[j].status \in Terminal \ {"completed"} /\ jobs[j].error = "permanent"
      => jobs[j].status = "dead_letter"

\* A job that get_active_background_job takes for stalled is never one a
\* worker is busy with: its heartbeats keep updated_at young.
StaleMeansAbandoned ==
  \A w \in Worker : \A j \in Job \ overridden : Executing(w, j) => ~Stale(jobs[j])

\* The attempt column counts every hand-out of the job exactly, whatever the
\* workers race for, so that no job is handed out more than max_attempts times.
AttemptsCountHandOuts ==
  \A j \in Job : starts[j] = jobs[j].attempt /\ starts[j] <= MaxAttempts

\* No job is written off as a dead letter before it was given all its attempts.
DeadLettersWereTried ==
  \A j \in Job : jobs[j].status = "dead_letter" => starts[j] = MaxAttempts

\* A claim takes only queued work or work whose lease has run out, in the state
\* in which it takes it and not only in the one its SELECT saw, and it counts
\* one more attempt ("Atomically claim queued work or work whose lease has
\* expired").  A late heartbeat between the two makes the claim fail.
ClaimsTakeFreeJobs ==
  [][\A j \in Job : starts'[j] # starts[j] =>
       Claimable(jobs[j]) /\ jobs'[j].attempt = jobs[j].attempt + 1]_vars

\* Timely workers never touch a job again once it is completed, failed or a
\* dead letter: its result and its status are there to stay.
SettledForGood ==
  [][\A j \in Job \ overridden' :
       jobs[j].status \in Terminal => jobs'[j] = jobs[j]]_vars

\* Whatever fails, crashes or pauses, every job ends in a terminal status and
\* stays there: nothing is queued or running for ever.
EveryJobSettles ==
  \A j \in Job : <>[](jobs[j].status \in Terminal \cup {"absent"})
=============================================================================
