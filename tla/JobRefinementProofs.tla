-------------------------- MODULE JobRefinementProofs --------------------------
(***************************************************************************)
(* What the lease gives timely workers, for any number of workers, clients *)
(* and jobs: as long as the lease outlasts the heartbeats that may fail in *)
(* a row, only one worker executes a job that no API request wrote, what   *)
(* it settles stays settled, and the queue implements JobLifecycle.        *)
(***************************************************************************)
EXTENDS JobQueueProofs

-----------------------------------------------------------------------------
(* Leases *)


\* What LeaseCoversExecution says of one worker and one job.
Covered(w, j) ==
  /\ jobs[j].status = "running"
  /\ jobs[j].owner = w
  /\ beat[w].timer # "off"
  /\ jobs[j].lease >= LeaseTicks - Slack(w)
  /\ jobs[j].age <= Slack(w)

\* A timely claim hands out the lease it computed when it selected the row.
FreshClaims == \A w \in Worker : pc[w] = "claiming" => seen[w].lease = LeaseTicks

LeaseInv == ClaimInv /\ LeaseCoversExecution /\ FreshClaims

\* A worker misses no more heartbeats than MaxMissed, and the one that is due.
LEMMA SlackBound ==
  ASSUME TypeOK, NEW w \in Worker
  PROVE  Slack(w) \in Nat /\ Slack(w) <= MaxMissed + 1
<1>1. beat[w].missed \in 0..MaxMissed
  BY DEF TypeOK
<1> QED BY <1>1, JobQueueAssumption DEF JobQueueAssumption, Slack

\* The lease of an executed job has not run out: nobody may take the job.
LEMMA ExecutedIsTaken ==
  ASSUME LeaseOutlastsMisses, TypeOK, LeaseCoversExecution,
         NEW w \in Worker, NEW j \in Job \ overridden, Executing(w, j)
  PROVE  ~Claimable(jobs[j]) /\ jobs[j].lease > 0
<1>1. jobs[j].lease >= LeaseTicks - Slack(w)
  BY DEF LeaseCoversExecution
<1>2. jobs[j].lease \in Lease
  BY DEF TypeOK, JobRunnerTypeOK, Row
<1> QED BY <1>1, <1>2, SlackBound, JobTableAssumption, JobQueueAssumption
           DEF JobTableAssumption, JobQueueAssumption, LeaseOutlastsMisses, Claimable, Lease, NoLease

\* Two workers that execute one job both own its row.
LEMMA SoleExecutor ==
  ASSUME LeaseCoversExecution, NEW v \in Worker, NEW w \in Worker,
         NEW j \in Job \ overridden, Executing(v, j), Executing(w, j)
  PROVE  v = w
BY DEF LeaseCoversExecution

\* A step keeps the cover it neither renews nor touches.
LEMMA CoverKept ==
  ASSUME LeaseCoversExecution, overridden \subseteq overridden',
         \A v \in Worker : \A i \in Job \ overridden' :
           pc'[v] \in Busy /\ held'[v] = i =>
             \/ Covered(v, i)'
             \/ /\ pc[v] \in Busy /\ held[v] = i
                /\ beat'[v] = beat[v] /\ jobs'[i] = jobs[i]
  PROVE  LeaseCoversExecution'
<1> SUFFICES ASSUME NEW v \in Worker, NEW i \in Job \ overridden',
                    pc'[v] \in Busy /\ held'[v] = i
             PROVE  Covered(v, i)'
  BY DEF LeaseCoversExecution, Executing, Covered
<1>1. ASSUME pc[v] \in Busy /\ held[v] = i, beat'[v] = beat[v], jobs'[i] = jobs[i]
      PROVE  Covered(v, i)'
  <2>1. Covered(v, i)
    BY <1>1 DEF LeaseCoversExecution, Executing, Covered
  <2> QED BY <1>1, <2>1 DEF Covered, Slack
<1> QED BY <1>1

\* What executing threads write, in the terms of Covered.
LEMMA ExecutorWrites ==
  ASSUME TypeOK, NEW w \in Worker, Begin(w) \/ ReportProgress(w)
  PROVE  /\ WriteRow(held[w], RunningRow(jobs[held[w]]))
         /\ pc[w] \in Busy /\ UNCHANGED held
         /\ \A v \in Worker \ {w} : pc'[v] = pc[v]
BY JobQueueAssumption DEF JobQueueAssumption, TypeOK, JobRunnerTypeOK, Begin, ReportProgress, Busy

\* Claims compute their lease and hand it out in the same tick.
LEMMA FreshStep ==
  ASSUME Timely, LeaseInv, [Next]_vars
  PROVE  FreshClaims'
<1> USE DEF LeaseInv, ClaimInv
<1>0. /\ seen \in [Worker -> Picture] /\ pc \in [Worker -> ThreadPC] /\ Thread = Worker
      /\ TypeOK
  BY JobQueueAssumption DEF JobQueueAssumption, TypeOK, JobRunnerTypeOK
<1>1. ASSUME \A w \in Worker : pc'[w] = "claiming" => pc[w] = "claiming" /\ seen'[w].lease = seen[w].lease
      PROVE  FreshClaims'
  BY <1>1 DEF FreshClaims
<1>2. ASSUME NEW w \in Worker, SelectCandidate(w) PROVE FreshClaims'
  BY <1>0, <1>2 DEF SelectCandidate, FreshClaims
<1>3. ASSUME NEW w \in Worker, Claim(w) \/ WriteOff(w) PROVE FreshClaims'
  <2> DEFINE pictures == [seen EXCEPT ![w] = Nothing]
  <2>1. /\ seen' = Stamped(seen[w].job, pictures)
        /\ pc' \in {[pc EXCEPT ![w] = "claimed"], [pc EXCEPT ![w] = "idle"]}
    BY <1>3 DEF Claim, WriteOff
  <2>2. pictures \in [Worker -> Picture] /\ \A v \in Worker \ {w} : pictures[v] = seen[v]
    BY <1>0, NothingPicture
  <2> HIDE DEF pictures
  <2> QED BY <1>0, <1>1, <2>1, <2>2, StampedPictures
<1>4. ASSUME NEW w \in Worker, LoseRace(w) \/ Crash(w) PROVE FreshClaims'
  BY <1>0, <1>1, <1>4 DEF LoseRace, Crash
<1>5. ASSUME NEW w \in Worker,
             LoadJob(w) \/ ReturnJobEarly(w) \/ BeginJob(w) \/ ReportJobProgress(w) \/ FinishJob(w)
      PROVE  FreshClaims'
  <2>1. /\ Load(w) \/ ReturnEarly(w) \/ Begin(w) \/ ReportProgress(w) \/ Finish(w)
        /\ seen' = seen \/ seen' = Stamped(held[w], seen)
    BY <1>5 DEF LoadJob, ReturnJobEarly, BeginJob, ReportJobProgress, FinishJob
  <2>2. pc' \in {[pc EXCEPT ![w] = "loaded"], [pc EXCEPT ![w] = "executing"],
                 [pc EXCEPT ![w] = "idle"], pc}
    BY <1>0, <2>1, RunnerMoves DEF Release
  <2>3. \A v \in Worker : seen'[v].lease = seen[v].lease
    BY <1>0, <2>1, StampedPictures
  <2> QED BY <1>0, <1>1, <2>2, <2>3
<1>6. ASSUME NEW w \in Worker, Heartbeat(w) \/ HeartbeatError(w) PROVE FreshClaims'
  <2>1. UNCHANGED pc /\ (seen' = seen \/ seen' = Stamped(held[w], seen))
    BY <1>6 DEF Heartbeat, HeartbeatError
  <2> QED BY <1>0, <1>1, <2>1, StampedPictures
<1>7. ASSUME NEW w \in Worker, Restart(w) PROVE FreshClaims'
  BY <1>0, <1>1, <1>7 DEF Restart
<1>8. ASSUME NEW c \in Client, Ask(c) \/ Override(c) PROVE FreshClaims'
  <2>1. UNCHANGED pc /\ (seen' = seen \/ seen' = Stamped(client[c].job, seen))
    BY <1>8 DEF Ask, Override, workerVars
  <2> QED BY <1>0, <1>1, <2>1, StampedPictures
<1>9. ASSUME Tick PROVE FreshClaims'
  BY <1>9 DEF Tick, FreshClaims
<1>10. CASE UNCHANGED vars
  BY <1>1, <1>10 DEF vars
<1> QED
  BY <1>2, <1>3, <1>4, <1>5, <1>6, <1>7, <1>8, <1>9, <1>10 DEF Next, WorkerStep

\* Every step leaves each executed job covered: a claim takes no covered job, a
\* beat renews the cover, and a tick takes from lease and age what Slack counts.
LEMMA CoverStep ==
  ASSUME Timely, LeaseOutlastsMisses, LeaseInv, [Next]_vars
  PROVE  LeaseCoversExecution'
<1> USE DEF LeaseInv, ClaimInv
<1>0. /\ seen \in [Worker -> Picture] /\ pc \in [Worker -> ThreadPC] /\ Thread = Worker
      /\ jobs \in [Job -> Row] /\ held \in [Worker -> Job \cup {NoJob}] /\ TypeOK
      /\ \A w \in Worker : pc[w] \in Busy => held[w] \in Job
  BY JobQueueAssumption DEF JobQueueAssumption, TypeOK, JobRunnerTypeOK
<1>a. ASSUME UNCHANGED <<jobs, beat, held, overridden>>,
             \A w \in Worker : pc'[w] \in Busy => pc[w] \in Busy
      PROVE  LeaseCoversExecution'
  BY <1>a, CoverKept
<1>1. ASSUME NEW w \in Worker, SelectCandidate(w) \/ LoseRace(w) \/ LoadJob(w) \/ Restart(w)
      PROVE  LeaseCoversExecution'
  <2>1. UNCHANGED <<jobs, beat, held, overridden>>
    BY <1>1 DEF SelectCandidate, LoseRace, LoadJob, Load, Restart, historyVars
  <2>2. \/ pc' \in {[pc EXCEPT ![w] = "claiming"], [pc EXCEPT ![w] = "idle"]}
        \/ pc' = [pc EXCEPT ![w] = "loaded"] /\ pc[w] = "claimed"
    BY <1>1 DEF SelectCandidate, LoseRace, LoadJob, Load, Restart
  <2> QED BY <1>0, <1>a, <2>1, <2>2 DEF Busy
<1>2. ASSUME NEW w \in Worker, Claim(w) PROVE LeaseCoversExecution'
  <2> DEFINE j == seen[w].job
             row == ClaimedRow(jobs[j], w, seen[w].attempt + 1, seen[w].lease)
  <2>1. j \in Job /\ jobs[j] \in Row /\ Claimable(jobs[j]) /\ seen[w].lease = LeaseTicks
    BY <1>0, <1>2 DEF Claim, Unmoved, PicturesAreTrue, FreshClaims, TypeOK
  <2>2. seen[w].attempt + 1 \in Attempt /\ seen[w].lease \in Lease
    BY <1>0, <1>2, JobTableAssumption
       DEF JobTableAssumption, Claim, Exhausted, Picture, Attempt, Lease
  <2>3. /\ row \in Row /\ row.status = "running" /\ row.owner = w
        /\ row.lease = LeaseTicks /\ row.age = 0
    BY <2>1, <2>2, ClaimWrites, RowFields
  <2>4. /\ WriteRow(j, row) /\ UNCHANGED overridden
        /\ held' = [held EXCEPT ![w] = j]
        /\ pc' = [pc EXCEPT ![w] = "claimed"]
        /\ beat' = [beat EXCEPT ![w] = [timer |-> "waiting", missed |-> 0]]
    BY <1>2 DEF Claim
  <2> HIDE DEF row
  <2>5. jobs'[j] = row /\ \A i \in Job \ {j} : jobs'[i] = jobs[i]
    BY <1>0, <2>1, <2>3, <2>4, RowWritten
  <2>6. beat'[w] = [timer |-> "waiting", missed |-> 0]
    BY <2>4 DEF TypeOK
  <2>7. ASSUME NEW i \in Job, i = j PROVE Covered(w, i)'
    <3>1. Slack(w)' = 0
      BY <2>6 DEF Slack
    <3> QED BY <2>3, <2>5, <2>6, <2>7, <3>1, JobTableAssumption DEF JobTableAssumption, Covered
  <2>8. ASSUME NEW v \in Worker, NEW i \in Job \ overridden', pc'[v] \in Busy, held'[v] = i
        PROVE  \/ Covered(v, i)'
               \/ /\ pc[v] \in Busy /\ held[v] = i
                  /\ beat'[v] = beat[v] /\ jobs'[i] = jobs[i]
    <3>1. CASE v = w
      BY <1>0, <2>4, <2>7, <2>8, <3>1
    <3>2. CASE v # w
      <4>1. pc[v] \in Busy /\ held[v] = i /\ beat'[v] = beat[v]
        BY <2>4, <2>8, <3>2 DEF TypeOK
      <4>2. i # j
        BY <2>1, <2>4, <4>1, ExecutedIsTaken DEF Executing
      <4> QED BY <2>5, <4>1, <4>2
    <3> QED BY <3>1, <3>2
  <2> QED BY <2>4, <2>8, CoverKept
<1>3. ASSUME NEW w \in Worker, WriteOff(w) PROVE LeaseCoversExecution'
  <2> DEFINE j == seen[w].job
  <2>1. j \in Job /\ jobs[j] \in Row /\ Claimable(jobs[j])
    BY <1>0, <1>3 DEF WriteOff, Unmoved, PicturesAreTrue, TypeOK
  <2>2. ExhaustedRow(jobs[j]) \in Row
    BY <2>1, FieldValues DEF ExhaustedRow, Row
  <2>3. /\ WriteRow(j, ExhaustedRow(jobs[j])) /\ UNCHANGED <<overridden, held, beat>>
        /\ pc' = [pc EXCEPT ![w] = "idle"]
    BY <1>3 DEF WriteOff, historyVars
  <2>4. \A i \in Job \ {j} : jobs'[i] = jobs[i]
    BY <1>0, <2>1, <2>2, <2>3, RowWritten
  <2>5. ASSUME NEW v \in Worker, NEW i \in Job \ overridden', pc'[v] \in Busy, held'[v] = i
        PROVE  pc[v] \in Busy /\ held[v] = i /\ beat'[v] = beat[v] /\ jobs'[i] = jobs[i]
    <3>1. pc[v] \in Busy /\ held[v] = i /\ beat'[v] = beat[v]
      BY <1>0, <2>3, <2>5 DEF Busy
    <3>2. i # j
      BY <2>1, <2>3, <3>1, ExecutedIsTaken DEF Executing
    <3> QED BY <2>4, <3>1, <3>2
  <2> QED BY <2>3, <2>5, CoverKept
<1>4. ASSUME NEW w \in Worker, BeginJob(w) \/ ReportJobProgress(w) PROVE LeaseCoversExecution'
  <2> DEFINE j == held[w]
             row == RunningRow(jobs[j])
  <2>1. /\ WriteRow(j, row) /\ UNCHANGED <<held, overridden, beat>>
        /\ pc[w] \in Busy
        /\ \A v \in Worker \ {w} : pc'[v] = pc[v]
    BY <1>0, <1>4, ExecutorWrites DEF BeginJob, ReportJobProgress, historyVars
  <2>2. j \in Job /\ jobs[j] \in Row
    BY <1>0, <2>1
  <2>3. /\ row \in Row /\ row.status = "running" /\ row.owner = jobs[j].owner
        /\ row.lease = jobs[j].lease /\ row.age = 0
    BY <2>2, RunnerWrites, RowFields
  <2> HIDE DEF row
  <2>4. jobs'[j] = row /\ \A i \in Job \ {j} : jobs'[i] = jobs[i]
    BY <1>0, <2>1, <2>2, <2>3, RowWritten
  <2>5. ASSUME NEW v \in Worker, NEW i \in Job \ overridden', pc'[v] \in Busy, held'[v] = i
        PROVE  \/ Covered(v, i)'
               \/ /\ pc[v] \in Busy /\ held[v] = i
                  /\ beat'[v] = beat[v] /\ jobs'[i] = jobs[i]
    <3>1. pc[v] \in Busy /\ held[v] = i /\ beat'[v] = beat[v] /\ i \in Job \ overridden
      BY <2>1, <2>5
    <3>2. CASE i = j
      <4>1. Covered(v, i)
        BY <3>1 DEF LeaseCoversExecution, Executing, Covered
      <4>2. Slack(v)' = Slack(v) /\ 0 <= Slack(v)
        BY <1>0, <3>1, SlackBound DEF Slack
      <4> QED BY <2>3, <2>4, <3>1, <3>2, <4>1, <4>2 DEF Covered
    <3>3. CASE i # j
      BY <2>4, <3>1, <3>3
    <3> QED BY <3>2, <3>3
  <2> QED BY <2>1, <2>5, CoverKept
<1>5. ASSUME NEW w \in Worker, ReturnJobEarly(w) \/ FinishJob(w) PROVE LeaseCoversExecution'
  <2> DEFINE j == held[w]
  <2>1. /\ pc[w] \in Busy /\ Release(w) /\ StopHeartbeat(w) /\ UNCHANGED overridden
        /\ \/ UNCHANGED jobs
           \/ \E row \in Row : WriteRow(j, row)
    BY <1>0, <1>5, RunnerMoves, RunnerWriteFacts DEF ReturnJobEarly, FinishJob, historyVars
  <2>2. j \in Job
    BY <1>0, <2>1
  <2>3. \A i \in Job \ {j} : jobs'[i] = jobs[i]
    BY <1>0, <2>1, <2>2, RowWritten
  <2>4. ASSUME NEW v \in Worker, NEW i \in Job \ overridden', pc'[v] \in Busy, held'[v] = i
        PROVE  pc[v] \in Busy /\ held[v] = i /\ beat'[v] = beat[v] /\ jobs'[i] = jobs[i]
    <3>1. v # w
      BY <1>0, <2>1, <2>4 DEF Release, Busy
    <3>2. pc[v] \in Busy /\ held[v] = i /\ beat'[v] = beat[v]
      BY <2>1, <2>4, <3>1 DEF Release, StopHeartbeat, TypeOK
    <3>3. i # j
      BY <2>1, <3>1, <3>2, SoleExecutor DEF Executing
    <3> QED BY <2>3, <3>2, <3>3
  <2> QED BY <2>1, <2>4, CoverKept
<1>6. ASSUME NEW w \in Worker, Heartbeat(w) PROVE LeaseCoversExecution'
  <2> DEFINE j == held[w]
             row == BeatenRow(jobs[j])
  <2>1. UNCHANGED <<pc, held, overridden>> /\ pc[w] \in Busy /\ j \in Job /\ jobs[j] \in Row
    BY <1>0, <1>6 DEF Heartbeat, historyVars, TypeOK, Timer
  <2>2. \A v \in Worker \ {w} : beat'[v] = beat[v]
    BY <1>6 DEF Heartbeat, TypeOK
  <2>3. CASE jobs[j].owner = w /\ jobs[j].status = "running"
    <3>1. WriteRow(j, row) /\ beat'[w] = [timer |-> "waiting", missed |-> 0]
      BY <1>6, <2>3 DEF Heartbeat, TypeOK
    <3>2. /\ row \in Row /\ row.status = "running" /\ row.owner = w
          /\ row.lease = LeaseTicks /\ row.age = 0
      BY <2>1, <2>3, RunnerWrites, RowFields
    <3> HIDE DEF row
    <3>3. jobs'[j] = row /\ \A i \in Job \ {j} : jobs'[i] = jobs[i]
      BY <1>0, <2>1, <3>1, <3>2, RowWritten
    <3>4. Covered(w, j)'
      <4>1. Slack(w)' = 0
        BY <3>1 DEF Slack
      <4> QED BY <2>1, <3>1, <3>2, <3>3, <4>1, JobTableAssumption DEF JobTableAssumption, Covered
    <3>5. ASSUME NEW v \in Worker, NEW i \in Job \ overridden', pc'[v] \in Busy, held'[v] = i
          PROVE  \/ Covered(v, i)'
                 \/ /\ pc[v] \in Busy /\ held[v] = i
                    /\ beat'[v] = beat[v] /\ jobs'[i] = jobs[i]
      <4>1. v # w => i # j
        BY <2>1, <3>5, SoleExecutor DEF Executing
      <4> QED BY <2>1, <2>2, <3>3, <3>4, <3>5, <4>1
    <3> QED BY <2>1, <3>5, CoverKept
  <2>4. CASE ~(jobs[j].owner = w /\ jobs[j].status = "running")
    <3>1. UNCHANGED jobs
      BY <1>6, <2>4 DEF Heartbeat
    <3>2. j \in overridden
      BY <2>1, <2>4 DEF LeaseCoversExecution, Executing
    <3> QED BY <2>1, <2>2, <3>1, <3>2, CoverKept
  <2> QED BY <2>3, <2>4
<1>7. ASSUME NEW w \in Worker, HeartbeatError(w) PROVE LeaseCoversExecution'
  <2>1. UNCHANGED <<jobs, pc, held, overridden>> /\ beat[w].timer = "due"
    BY <1>7 DEF HeartbeatError, historyVars
  <2>2. /\ beat'[w] = [timer |-> "waiting", missed |-> beat[w].missed + 1]
        /\ \A v \in Worker \ {w} : beat'[v] = beat[v]
    BY <1>7 DEF HeartbeatError, TypeOK
  <2>3. Slack(w)' = Slack(w)
    <3>1. beat[w].missed \in 0..MaxMissed
      BY DEF TypeOK
    <3> QED BY <2>1, <2>2, <3>1, JobQueueAssumption DEF JobQueueAssumption, Slack
  <2>4. ASSUME NEW i \in Job \ overridden', pc'[w] \in Busy, held'[w] = i
        PROVE  Covered(w, i)'
    <3>1. Covered(w, i)
      BY <2>1, <2>4 DEF LeaseCoversExecution, Executing, Covered
    <3> QED BY <2>1, <2>2, <2>3, <3>1 DEF Covered
  <2> QED BY <2>1, <2>2, <2>4, CoverKept
<1>8. ASSUME NEW w \in Worker, Crash(w) PROVE LeaseCoversExecution'
  <2>1. /\ UNCHANGED <<jobs, overridden>> /\ pc'[w] \notin Busy
        /\ \A v \in Worker \ {w} : pc'[v] = pc[v] /\ held'[v] = held[v] /\ beat'[v] = beat[v]
    BY <1>0, <1>8 DEF Crash, StopHeartbeat, Busy, TypeOK
  <2> QED BY <2>1, CoverKept
<1>9. ASSUME NEW c \in Client, Ask(c) PROVE LeaseCoversExecution'
  <2>1. UNCHANGED <<pc, held, beat, overridden>>
    BY <1>9 DEF Ask, workerVars, historyVars
  <2>2. ASSUME NEW j \in Job, NEW kind \in Kind,
               jobs[j].status = "absent", WriteRow(j, QueuedRow(kind))
        PROVE  LeaseCoversExecution'
    <3>1. \A i \in Job \ {j} : jobs'[i] = jobs[i]
      BY <1>0, <2>2, NewRows, RowWritten
    <3>2. \A v \in Worker : \A i \in Job \ overridden : Executing(v, i) => i # j
      BY <2>2 DEF LeaseCoversExecution
    <3> QED BY <2>1, <3>1, <3>2, CoverKept DEF Executing
  <2> QED BY <1>0, <1>9, <1>a, <2>1, <2>2, RequestWriteFacts
<1>10. ASSUME NEW c \in Client, Override(c) PROVE LeaseCoversExecution'
  <2> DEFINE j == client[c].job
  <2>1. UNCHANGED <<pc, held, beat>> /\ overridden' = overridden \cup {j}
    BY <1>10 DEF Override
  <2>2. \A i \in Job \ {j} : jobs'[i] = jobs[i]
    BY <1>0, <1>10, RequestWriteFacts, RowWritten
  <2> QED BY <2>1, <2>2, CoverKept
<1>11. ASSUME Tick PROVE LeaseCoversExecution'
  <2>1. /\ UNCHANGED <<pc, held, overridden>>
        /\ \A i \in Job : jobs'[i] = ElapsedRow(jobs[i])
        /\ \A v \in Worker : beat[v].timer # "due"
    BY <1>11 DEF Tick, historyVars
  <2>2. ASSUME NEW v \in Worker, NEW i \in Job \ overridden', pc'[v] \in Busy, held'[v] = i
        PROVE  Covered(v, i)'
    <3>1. Executing(v, i) /\ i \in Job \ overridden
      BY <2>1, <2>2 DEF Executing
    <3>2. Covered(v, i)
      BY <3>1 DEF LeaseCoversExecution, Covered
    <3>3. jobs[i].lease > 0 /\ jobs[i].lease \in Lease /\ jobs[i] \in Row /\ jobs[i].age \in Age
      BY <1>0, <3>1, ExecutedIsTaken DEF Row
    <3>4. beat'[v].timer = "due" /\ beat'[v].missed = beat[v].missed /\ beat[v].timer = "waiting"
      <4>1. beat[v] \in [timer : Timer, missed : 0..MaxMissed]
        BY DEF TypeOK
      <4>2. beat[v].timer = "waiting"
        BY <2>1, <3>2, <4>1 DEF Covered, Timer
      <4>3. beat'[v] = [beat[v] EXCEPT !.timer = "due"]
        BY <1>11, <4>2 DEF Tick
      <4> QED BY <4>1, <4>2, <4>3
    <3>5. Slack(v)' = Slack(v) + 1 /\ Slack(v) \in Nat
      <4>1. Slack(v) = beat[v].missed /\ Slack(v)' = beat[v].missed + 1
        BY <2>1, <3>4, SlackBound DEF Slack, TypeOK
      <4> QED BY <1>0, <4>1, SlackBound
    <3>6. /\ jobs'[i].status = "running" /\ jobs'[i].owner = v
          /\ jobs'[i].lease = jobs[i].lease - 1
          /\ jobs'[i].age <= jobs[i].age + 1
      <4>1. jobs[i].status \in Active
        BY <3>2 DEF Covered, Active
      <4>2. jobs[i].age \in Nat
        BY <3>3, JobTableAssumption DEF JobTableAssumption, Age
      <4> QED BY <2>1, <3>2, <3>3, <4>1, <4>2, RowFields DEF Covered
    <3>7. jobs[i].lease \in Int /\ jobs[i].age \in Int /\ jobs'[i].age \in Int /\ LeaseTicks \in Int
      <4>1. jobs'[i] \in Row
        BY <2>1, <3>3, RunnerWrites
      <4> QED BY <3>3, <4>1, JobTableAssumption DEF JobTableAssumption, Row, Lease, NoLease, Age
    <3> QED BY <3>2, <3>4, <3>5, <3>6, <3>7 DEF Covered
  <2> QED BY <2>1, <2>2, CoverKept
<1>12. CASE UNCHANGED vars
  BY <1>12, <1>a DEF vars
<1> QED
  BY <1>1, <1>2, <1>3, <1>4, <1>5, <1>6, <1>7, <1>8, <1>9, <1>10, <1>11, <1>12
     DEF Next, WorkerStep

\* Nobody executes anything at the start.
LEMMA LeaseInit == Init => LeaseInv
<1> SUFFICES ASSUME Init PROVE LeaseInv
  OBVIOUS
<1>1. LeaseCoversExecution /\ FreshClaims
  BY DEF Init, LeaseCoversExecution, FreshClaims, Executing, Busy
<1> QED BY <1>1, ClaimInit DEF LeaseInv

\* The inductive invariant of leases is kept by every step,
LEMMA LeaseStep ==
  ASSUME Timely, LeaseOutlastsMisses
  PROVE  LeaseInv /\ [Next]_vars => LeaseInv'
BY ClaimStep, CoverStep, FreshStep DEF LeaseInv

\* and so holds for ever.
LEMMA LeaseInvariant ==
  ASSUME Timely, LeaseOutlastsMisses
  PROVE  Spec => []LeaseInv
<1>1. LeaseInv /\ [Next]_vars => LeaseInv'
  BY LeaseStep
<1> QED BY <1>1, LeaseInit, PTL DEF Spec

-----------------------------------------------------------------------------
\* From claim to last write the executing worker owns a running row whose lease
\* has lost no more than the heartbeats it missed.
THEOREM LeaseCovers ==
  ASSUME Timely, LeaseOutlastsMisses
  PROVE  Spec => []LeaseCoversExecution
<1>1. LeaseInv => LeaseCoversExecution
  BY DEF LeaseInv
<1> QED BY <1>1, LeaseInvariant, PTL

\* No two timely workers execute one job, unless an API request wrote its row.
THEOREM Exclusive ==
  ASSUME Timely, LeaseOutlastsMisses
  PROVE  Spec => []ExclusiveExecution
<1>1. LeaseInv => ExclusiveExecution
  BY SoleExecutor DEF LeaseInv, ExclusiveExecution
<1> QED BY <1>1, LeaseInvariant, PTL

\* A job that a timely worker executes is never taken for stalled, if staleness
\* allows for the heartbeats that may be missed too.
THEOREM StaleAbandoned ==
  ASSUME Timely, LeaseOutlastsMisses, StaleTicks > MaxMissed
  PROVE  Spec => []StaleMeansAbandoned
<1>1. LeaseInv => StaleMeansAbandoned
  <2> SUFFICES ASSUME LeaseInv, NEW w \in Worker, NEW j \in Job \ overridden, Executing(w, j)
               PROVE  ~Stale(jobs[j])
    BY DEF StaleMeansAbandoned
  <2>1. jobs[j].age <= Slack(w) /\ jobs[j].age \in Age
    BY DEF LeaseInv, ClaimInv, LeaseCoversExecution, TypeOK, JobRunnerTypeOK, Row
  <2>2. Slack(w) \in Nat /\ Slack(w) <= MaxMissed + 1
    BY SlackBound DEF LeaseInv, ClaimInv
  <2> QED BY <2>1, <2>2, JobTableAssumption, JobQueueAssumption
             DEF JobTableAssumption, JobQueueAssumption, Age, Stale
<1> QED BY <1>1, LeaseInvariant, PTL

\* What a step writes: the rows of active jobs, of jobs that do not exist yet,
\* and of jobs an API request overrides.
LEMMA SettledRowsStay ==
  ASSUME LeaseOutlastsMisses, LeaseInv, [Next]_vars,
         NEW i \in Job \ overridden', jobs[i].status \in Terminal
  PROVE  jobs'[i] = jobs[i]
<1> USE DEF LeaseInv, ClaimInv
<1>0. /\ jobs \in [Job -> Row] /\ pc \in [Worker -> ThreadPC] /\ Thread = Worker /\ TypeOK
      /\ \A w \in Worker : pc[w] \in Busy => held[w] \in Job
      /\ jobs[i].status \notin Active /\ jobs[i].status \notin {"absent", "running"}
  BY JobQueueAssumption DEF JobQueueAssumption, TypeOK, JobRunnerTypeOK, Terminal, Active
<1>a. overridden \subseteq overridden'
  BY DEF Next, WorkerStep, SelectCandidate, Claim, WriteOff, LoseRace, LoadJob, ReturnJobEarly,
         BeginJob, ReportJobProgress, FinishJob, Heartbeat, HeartbeatError, Crash, Restart,
         Ask, Override, Tick, vars, historyVars
<1>b. ASSUME NEW j \in Job \ {i}, NEW row \in Row, WriteRow(j, row)
      PROVE  jobs'[i] = jobs[i]
  BY <1>0, <1>b, RowWritten
<1>c. ASSUME NEW w \in Worker, pc[w] \in Busy
      PROVE  held[w] \in Job \ {i}
  BY <1>0, <1>a, <1>c DEF LeaseCoversExecution, Executing
<1>1. ASSUME NEW w \in Worker,
             \/ SelectCandidate(w) \/ LoseRace(w) \/ LoadJob(w) \/ ReturnJobEarly(w)
             \/ HeartbeatError(w) \/ Crash(w) \/ Restart(w)
      PROVE  jobs'[i] = jobs[i]
  BY <1>1 DEF SelectCandidate, LoseRace, LoadJob, Load, ReturnJobEarly, ReturnEarly,
              HeartbeatError, Crash, Restart
<1>2. ASSUME NEW w \in Worker, Claim(w) \/ WriteOff(w) PROVE jobs'[i] = jobs[i]
  <2> DEFINE j == seen[w].job
  <2>1. j \in Job /\ j # i
    BY <1>0, <1>2 DEF Claim, WriteOff, Unmoved, PicturesAreTrue, Claimable, TypeOK
  <2>2. \E row : WriteRow(j, row)
    BY <1>2 DEF Claim, WriteOff
  <2> HIDE DEF j
  <2> QED BY <1>0, <2>1, <2>2 DEF WriteRow
<1>3. ASSUME NEW w \in Worker, BeginJob(w) \/ ReportJobProgress(w) \/ FinishJob(w)
      PROVE  jobs'[i] = jobs[i]
  <2>1. Begin(w) \/ ReportProgress(w) \/ Finish(w)
    BY <1>3 DEF BeginJob, ReportJobProgress, FinishJob
  <2>2. PICK row \in Row : WriteRow(held[w], row)
    BY <1>0, <2>1, RunnerWriteFacts
  <2>3. pc[w] \in Busy
    BY <1>0, <2>1, RunnerMoves
  <2> QED BY <1>b, <1>c, <2>2, <2>3
<1>4. ASSUME NEW w \in Worker, Heartbeat(w) PROVE jobs'[i] = jobs[i]
  <2>1. held[w] \in Job \ {i}
    BY <1>0, <1>4, <1>c DEF Heartbeat, TypeOK, Timer
  <2> QED BY <1>0, <1>4, <2>1 DEF Heartbeat, WriteRow
<1>5. ASSUME NEW c \in Client, Ask(c) PROVE jobs'[i] = jobs[i]
  <2>1. ASSUME NEW j \in Job, NEW kind \in Kind,
               jobs[j].status = "absent", WriteRow(j, QueuedRow(kind))
        PROVE  jobs'[i] = jobs[i]
    BY <1>0, <1>b, <2>1, NewRows
  <2> QED BY <1>0, <1>5, <2>1, RequestWriteFacts
<1>6. ASSUME NEW c \in Client, Override(c) PROVE jobs'[i] = jobs[i]
  <2>1. client[c].job \in Job \ {i} /\ \E row \in Row : WriteRow(client[c].job, row)
    BY <1>0, <1>6, RequestWriteFacts DEF Override
  <2> QED BY <1>b, <2>1
<1>7. ASSUME Tick PROVE jobs'[i] = jobs[i]
  BY <1>0, <1>7 DEF Tick, ElapsedRow
<1>8. CASE UNCHANGED vars
  BY <1>8 DEF vars
<1> QED
  BY <1>1, <1>2, <1>3, <1>4, <1>5, <1>6, <1>7, <1>8 DEF Next, WorkerStep

\* Once settled, a job that no API request writes is left alone.
THEOREM SettledStays ==
  ASSUME Timely, LeaseOutlastsMisses
  PROVE  Spec => SettledForGood
<1> DEFINE Stays == \A j \in Job \ overridden' :
             jobs[j].status \in Terminal => jobs'[j] = jobs[j]
<1>1. LeaseInv /\ [Next]_vars => [Stays]_vars
  BY SettledRowsStay
<1> QED BY <1>1, LeaseInvariant, PTL DEF Spec, SettledForGood

-----------------------------------------------------------------------------
(* The refinement *)


\* A request goes back only to a job that exists.
RequestedJobsExist ==
  \A c \in Client : client[c].pc \in {"expiring", "answering"} =>
    jobs[client[c].job].status # "absent"

\* What the mapping of steps relies on.
RefinementInv == LeaseInv /\ RequestedJobsExist

\* Rows are never deleted.
LEMMA NothingVanishes ==
  ASSUME ClaimInv, [Next]_vars, NEW i \in Job, jobs[i].status # "absent"
  PROVE  jobs'[i].status # "absent"
<1> USE DEF ClaimInv
<1>0. /\ jobs \in [Job -> Row] /\ Thread = Worker /\ TypeOK
      /\ \A w \in Worker : pc[w] \in Busy => held[w] \in Job
  BY JobQueueAssumption DEF JobQueueAssumption, TypeOK, JobRunnerTypeOK
<1>a. ASSUME NEW j \in Job, NEW row \in Row, WriteRow(j, row), row.status # "absent"
      PROVE  jobs'[i].status # "absent"
  <2>1. jobs'[j] = row /\ \A k \in Job \ {j} : jobs'[k] = jobs[k]
    BY <1>0, <1>a, RowWritten
  <2> QED BY <1>a, <2>1
<1>1. ASSUME NEW w \in Worker,
             \/ SelectCandidate(w) \/ LoseRace(w) \/ LoadJob(w) \/ ReturnJobEarly(w)
             \/ HeartbeatError(w) \/ Crash(w) \/ Restart(w)
      PROVE  jobs'[i].status # "absent"
  BY <1>1 DEF SelectCandidate, LoseRace, LoadJob, Load, ReturnJobEarly, ReturnEarly,
              HeartbeatError, Crash, Restart
<1>2. ASSUME NEW w \in Worker, Claim(w) PROVE jobs'[i].status # "absent"
  <2> DEFINE j == seen[w].job
             row == ClaimedRow(jobs[j], w, seen[w].attempt + 1, seen[w].lease)
  <2>1. j \in Job /\ jobs[j] \in Row /\ seen[w] \in Picture
    BY <1>0, <1>2 DEF Claim, TypeOK
  <2>2. seen[w].attempt + 1 \in Attempt /\ seen[w].lease \in Lease
    BY <1>2, <2>1, JobTableAssumption
       DEF JobTableAssumption, Claim, Exhausted, Picture, Attempt, Lease
  <2>3. row \in Row /\ row.status = "running"
    BY <2>1, <2>2, ClaimWrites, RowFields
  <2>4. WriteRow(j, row)
    BY <1>2 DEF Claim
  <2> HIDE DEF row, j
  <2> QED BY <1>a, <2>1, <2>3, <2>4
<1>3. ASSUME NEW w \in Worker, WriteOff(w) PROVE jobs'[i].status # "absent"
  <2> DEFINE j == seen[w].job
             row == ExhaustedRow(jobs[j])
  <2>1. j \in Job /\ jobs[j] \in Row
    BY <1>0, <1>3 DEF WriteOff, TypeOK
  <2>2. row \in Row /\ row.status = "dead_letter"
    BY <2>1, FieldValues, RowFields DEF ExhaustedRow, Row
  <2>3. WriteRow(j, row)
    BY <1>3 DEF WriteOff
  <2> HIDE DEF row, j
  <2> QED BY <1>a, <2>1, <2>2, <2>3
<1>4. ASSUME NEW w \in Worker, BeginJob(w) \/ ReportJobProgress(w) \/ FinishJob(w)
      PROVE  jobs'[i].status # "absent"
  <2>1. Begin(w) \/ ReportProgress(w) \/ Finish(w)
    BY <1>4 DEF BeginJob, ReportJobProgress, FinishJob
  <2> QED BY <1>0, <1>a, <2>1, RunnerWriteFacts
<1>5. ASSUME NEW w \in Worker, Heartbeat(w) PROVE jobs'[i].status # "absent"
  <2>1. held[w] \in Job
    BY <1>0, <1>5 DEF Heartbeat, TypeOK, Timer
  <2>2. \/ UNCHANGED jobs
        \/ WriteRow(held[w], BeatenRow(jobs[held[w]])) /\ jobs[held[w]].status = "running"
    BY <1>5 DEF Heartbeat
  <2>3. BeatenRow(jobs[held[w]]) \in Row
        /\ BeatenRow(jobs[held[w]]).status = jobs[held[w]].status
    BY <1>0, <2>1, RunnerWrites, RowFields
  <2> QED BY <1>a, <2>1, <2>2, <2>3
<1>6. ASSUME NEW c \in Client, Ask(c) PROVE jobs'[i].status # "absent"
  <2>1. \A kind \in Kind : QueuedRow(kind) \in Row /\ QueuedRow(kind).status = "queued"
    BY NewRows DEF QueuedRow, NewRow
  <2> QED BY <1>0, <1>6, <1>a, <2>1, RequestWriteFacts
<1>7. ASSUME NEW c \in Client, Override(c) PROVE jobs'[i].status # "absent"
  BY <1>0, <1>7, <1>a, RequestWriteFacts
<1>8. ASSUME Tick PROVE jobs'[i].status # "absent"
  <2>1. jobs'[i] = ElapsedRow(jobs[i]) /\ jobs[i] \in Row
    BY <1>0, <1>8 DEF Tick
  <2> QED BY <2>1, RowFields
<1>9. CASE UNCHANGED vars
  BY <1>9 DEF vars
<1> QED
  BY <1>1, <1>2, <1>3, <1>4, <1>5, <1>6, <1>7, <1>8, <1>9 DEF Next, WorkerStep

\* What a request keeps for its next transaction is a job it found or created.
LEMMA RequestedStep ==
  ASSUME ClaimInv, RequestedJobsExist, [Next]_vars
  PROVE  RequestedJobsExist'
<1> SUFFICES ASSUME NEW d \in Client, client'[d].pc \in {"expiring", "answering"}
             PROVE  jobs'[client'[d].job].status # "absent"
  BY DEF RequestedJobsExist
<1>0. /\ TypeOK /\ jobs \in [Job -> Row] /\ client \in [Client -> ClientState]
      /\ client[d].pc \in {"expiring", "answering"} => client[d].job \in Job
  BY DEF ClaimInv, TypeOK, JobRunnerTypeOK, JobRequestsTypeOK
<1>1. CASE client'[d] = client[d]
  BY <1>0, <1>1, NothingVanishes DEF RequestedJobsExist
<1>2. CASE client'[d] # client[d]
  <2>1. PICK c \in Client : Ask(c) \/ Override(c)
    BY <1>2 DEF Next, WorkerStep, SelectCandidate, Claim, WriteOff, LoseRace, LoadJob,
               ReturnJobEarly, BeginJob, ReportJobProgress, FinishJob, Heartbeat,
               HeartbeatError, Crash, Restart, Tick, vars
  <2>2. ASSUME NEW state, SetClient(c, state)
        PROVE  d = c /\ client'[d] = state
    BY <1>0, <1>2, <2>2 DEF SetClient
  <2>3. IdleClient.pc = "idle" /\ \A kind \in Kind : CreatingClient(kind).pc = "creating"
    BY ClientStates
  <2>4. CASE Override(c)
    <3>1. client[c].kind \in Kind
      BY <1>0 DEF ClientState
    <3>2. client'[d].pc \in {"idle", "creating"}
      BY <2>2, <2>3, <2>4, <3>1 DEF Override, ExpireStale, AnswerFromStore
    <3> QED BY <3>2
  <2>5. CASE Ask(c)
    <3>1. CASE \E kind \in Kind, next \in {"idle", "creating"} : FindStale(c, kind, next)
      <4> PICK kind \in Kind, next \in {"idle", "creating"} : FindStale(c, kind, next)
        BY <3>1
      <4>1. PICK j \in Newest(kind) :
              SetClient(c, [pc |-> "expiring", kind |-> kind, job |-> j, next |-> next])
        BY DEF FindStale
      <4>2. client'[d].job = j /\ jobs[j].status # "absent" /\ UNCHANGED jobs
        BY <2>2, <4>1 DEF Newest, ActiveOf, Active, FindStale
      <4> QED BY <4>2
    <3>2. CASE \E kind \in Kind : FindNone(c, kind)
      BY <2>2, <2>3, <3>2 DEF FindNone
    <3>3. CASE \E j \in Job : CreateJob(c, j)
      BY <2>2, <2>3, <3>3 DEF CreateJob
    <3>4. CASE \E j \in Job : CreateProfileJob(c, j)
      BY <1>2, <3>4 DEF CreateProfileJob
    <3>5. CASE \E j \in Job : CreateAnsweredJob(c, j)
      <4> PICK j \in Job : CreateAnsweredJob(c, j)
        BY <3>5
      <4>1. client'[d].job = j
        BY <2>2 DEF CreateAnsweredJob
      <4>2. QueuedRow("profile_generation") \in Row
            /\ QueuedRow("profile_generation").status = "queued"
        BY NewRows DEF QueuedRow, NewRow, Kind
      <4>3. WriteRow(j, QueuedRow("profile_generation"))
        BY DEF CreateAnsweredJob, Create
      <4> QED BY <1>0, <4>1, <4>2, <4>3, RowWritten
    <3> QED BY <2>5, <3>1, <3>2, <3>3, <3>4, <3>5 DEF Ask
  <2> QED BY <2>1, <2>4, <2>5
<1> QED BY <1>1, <1>2

\* A request's picture of a job is of one that exists, in every state.
LEMMA RefinementInvariant ==
  ASSUME Timely, LeaseOutlastsMisses
  PROVE  Spec => []RefinementInv
<1>1. Init => RequestedJobsExist
  BY DEF Init, RequestedJobsExist, IdleClient
<1>2. LeaseInv /\ RequestedJobsExist /\ [Next]_vars => RequestedJobsExist'
  BY RequestedStep DEF LeaseInv
<1> QED BY <1>1, <1>2, LeaseInvariant, PTL DEF Spec, RefinementInv

-----------------------------------------------------------------------------
(* What a step of the queue must do to look like a step of the life cycle. *)

\* Row i looks the same to JobLifecycle after a step.
SameLook(i) ==
  /\ i \in overridden' <=> i \in overridden
  /\ i \notin overridden =>
       /\ jobs'[i].attempt = jobs[i].attempt
       /\ \/ jobs'[i].status = jobs[i].status
          \/ jobs'[i].status \in Active /\ jobs[i].status \in Active

\* A row that looks the same has the same phase and tries.
LEMMA LookKept ==
  ASSUME NEW i \in Job, SameLook(i)
  PROVE  PhaseOf(i)' = PhaseOf(i) /\ TriesOf(i)' = TriesOf(i)
<1>1. TriesOf(i)' = TriesOf(i)
  BY DEF SameLook, TriesOf
<1>2. PhaseOf(i)' = PhaseOf(i)
  BY DEF SameLook, PhaseOf, Active
<1> QED BY <1>1, <1>2

\* The job numbers leave 0 for no job.
LEMMA NoJobIsNone == NoJob \notin Job
BY JobRunnerAssumption DEF JobRunnerAssumption, NoJob, Job

\* Nothing the life cycle can see has changed.
LEMMA StutterMaps ==
  ASSUME \A i \in Job : SameLook(i), \A v \in Worker : WorkOf(v)' = WorkOf(v)
  PROVE  UNCHANGED Lifecycle!lifecycleVars
<1>1. \A i \in Job : PhaseOf(i)' = PhaseOf(i) /\ TriesOf(i)' = TriesOf(i)
  BY LookKept
<1> QED BY <1>1 DEF Lifecycle!lifecycleVars

\* A new row is a submitted job.
LEMMA SubmitMaps ==
  ASSUME NEW j \in Job, PhaseOf(j) = "absent", PhaseOf(j)' = "open", TriesOf(j)' = TriesOf(j),
         \A i \in Job \ {j} : SameLook(i), \A v \in Worker : WorkOf(v)' = WorkOf(v)
  PROVE  Lifecycle!Submit(j)
<1>1. \A i \in Job \ {j} : PhaseOf(i)' = PhaseOf(i) /\ TriesOf(i)' = TriesOf(i)
  BY LookKept
<1> QED BY <1>1 DEF Lifecycle!Submit

\* A counted hand-out of a job nobody works on is a start.
LEMMA StartMaps ==
  ASSUME NEW w \in Worker, NEW j \in Job,
         PhaseOf(j) = "open", PhaseOf(j)' = "open",
         TriesOf(j) < MaxAttempts, TriesOf(j)' = TriesOf(j) + 1,
         \A v \in Worker : WorkOf(v) # j,
         WorkOf(w) = NoJob, WorkOf(w)' = j,
         \A i \in Job \ {j} : SameLook(i),
         \A v \in Worker \ {w} : WorkOf(v)' = WorkOf(v)
  PROVE  Lifecycle!Start(w, j)
<1>1. \A i \in Job \ {j} : PhaseOf(i)' = PhaseOf(i) /\ TriesOf(i)' = TriesOf(i)
  BY LookKept
<1> QED BY <1>1 DEF Lifecycle!Start, Lifecycle!Unattended

\* A worker that stops and leaves the job open has left it.
LEMMA LeaveMaps ==
  ASSUME NEW w \in Worker, WorkOf(w) # NoJob, WorkOf(w)' = NoJob,
         \A i \in Job : SameLook(i),
         \A v \in Worker \ {w} : WorkOf(v)' = WorkOf(v)
  PROVE  Lifecycle!Leave(w)
<1>1. \A i \in Job : PhaseOf(i)' = PhaseOf(i) /\ TriesOf(i)' = TriesOf(i)
  BY LookKept
<1>2. /\ [i \in Job |-> PhaseOf(i)]' = [i \in Job |-> PhaseOf(i)]
      /\ [i \in Job |-> TriesOf(i)]' = [i \in Job |-> TriesOf(i)]
  BY <1>1
<1>3. [v \in Worker |-> WorkOf(v)]' = [[v \in Worker |-> WorkOf(v)] EXCEPT ![w] = NoJob]
  <2>1. \A v \in Worker : WorkOf(v)' = IF v = w THEN NoJob ELSE WorkOf(v)
    OBVIOUS
  <2> QED BY <2>1
<1> QED BY <1>2, <1>3 DEF Lifecycle!Leave

\* A worker that stops and closes its job has settled it.
LEMMA SettleMaps ==
  ASSUME NEW w \in Worker, NEW j \in Job, WorkOf(w) = j, WorkOf(w)' = NoJob,
         PhaseOf(j) = "open", PhaseOf(j)' = "settled", TriesOf(j)' = TriesOf(j),
         \A i \in Job \ {j} : SameLook(i),
         \A v \in Worker \ {w} : WorkOf(v)' = WorkOf(v)
  PROVE  Lifecycle!Settle(w, j)
<1>1. \A i \in Job \ {j} : PhaseOf(i)' = PhaseOf(i) /\ TriesOf(i)' = TriesOf(i)
  BY LookKept
<1> QED BY <1>1 DEF Lifecycle!Settle

\* A claim that finds no tries left settles the job without a worker.
LEMMA ExhaustMaps ==
  ASSUME NEW j \in Job, PhaseOf(j) = "open", PhaseOf(j)' = "settled",
         TriesOf(j) = MaxAttempts, TriesOf(j)' = TriesOf(j),
         \A v \in Worker : WorkOf(v) # j /\ WorkOf(v)' = WorkOf(v),
         \A i \in Job \ {j} : SameLook(i)
  PROVE  Lifecycle!Exhaust(j)
<1>1. \A i \in Job \ {j} : PhaseOf(i)' = PhaseOf(i) /\ TriesOf(i)' = TriesOf(i)
  BY LookKept
<1> QED BY <1>1 DEF Lifecycle!Exhaust, Lifecycle!Unattended

\* A write by a request takes the job over, from whoever works on it.
LEMMA TakeOverMaps ==
  ASSUME NEW j \in Job, PhaseOf(j) \in {"open", "settled"},
         PhaseOf(j)' = "taken_over", TriesOf(j)' = 0,
         \A v \in Worker : WorkOf(v)' = IF WorkOf(v) = j THEN NoJob ELSE WorkOf(v),
         \A i \in Job \ {j} : SameLook(i)
  PROVE  Lifecycle!TakeOver(j)
<1>1. \A i \in Job \ {j} : PhaseOf(i)' = PhaseOf(i) /\ TriesOf(i)' = TriesOf(i)
  BY LookKept
<1> QED BY <1>1 DEF Lifecycle!TakeOver

\* A finished job is queued again or settled, with the same attempt.
LEMMA FinishedRow ==
  ASSUME TypeOK, NEW w \in Worker, Finish(w)
  PROVE  \E row \in Row : /\ WriteRow(held[w], row)
                          /\ row.attempt = jobs[held[w]].attempt
                          /\ row.status \in {"queued"} \cup Terminal
<1> DEFINE j == held[w]
<1>1. j \in Job /\ jobs[j] \in Row /\ jobs[j].error \in ErrorClass
  BY RunnerMoves, JobQueueAssumption DEF JobQueueAssumption, TypeOK, JobRunnerTypeOK, Row
<1>2. ASSUME NEW status \in Terminal, NEW error \in ErrorClass,
             WriteRow(j, ClosedRow(jobs[j], status, error))
      PROVE  \E row \in Row : /\ WriteRow(j, row) /\ row.attempt = jobs[j].attempt
                              /\ row.status \in {"queued"} \cup Terminal
  <2> DEFINE row == ClosedRow(jobs[j], status, error)
  <2>1. row \in Row /\ row.status = status /\ row.attempt = jobs[j].attempt
    BY <1>1, ClosedFields
  <2>2. WriteRow(j, row)
    BY <1>2
  <2> HIDE DEF row
  <2> QED BY <2>1, <2>2
<1>3. CASE Complete(w) \/ FailPermanently(w)
  BY <1>1, <1>2, <1>3 DEF Complete, FailPermanently, Terminal, ErrorClass
<1>4. CASE \E b \in Backoffs : FailRetryably(w, b)
  <2> PICK b \in Backoffs : FailRetryably(w, b)
    BY <1>4
  <2> DEFINE row == RetriedRow(jobs[j], b)
  <2>1. row \in Row
    BY <1>1, RunnerWrites
  <2>2. row.attempt = jobs[j].attempt /\ row.status \in {"queued"} \cup Terminal
    <3>1. CASE jobs[j].attempt < MaxAttempts
      BY <1>1, <3>1 DEF RetriedRow, Row
    <3>2. CASE ~(jobs[j].attempt < MaxAttempts)
      <4>1. row = ClosedRow(jobs[j], "dead_letter", "permanent")
        BY <3>2 DEF RetriedRow
      <4>2. "dead_letter" \in Terminal /\ "permanent" \in ErrorClass
        BY DEF Terminal, ErrorClass
      <4> HIDE DEF row
      <4> QED BY <1>1, <4>1, <4>2, ClosedFields
    <3> QED BY <3>1, <3>2
  <2>3. WriteRow(j, row)
    BY DEF FailRetryably
  <2> HIDE DEF row
  <2> QED BY <2>1, <2>2, <2>3
<1> QED BY <1>3, <1>4 DEF Finish

-----------------------------------------------------------------------------
(* The steps of the queue, one by one. *)

\* Whoever has work in the life cycle executes a job that nobody overrode.
LEMMA WorkIsExecution ==
  ASSUME TypeOK, NEW v \in Worker
  PROVE  /\ WorkOf(v) # NoJob => /\ WorkOf(v) \in Job \ overridden
                                /\ Executing(v, WorkOf(v))
         /\ \A j \in Job \ overridden : Executing(v, j) => WorkOf(v) = j
BY JobQueueAssumption, NoJobIsNone
   DEF JobQueueAssumption, TypeOK, JobRunnerTypeOK, WorkOf, Executing

\* Work stays the same where thread, job and overrides stay the same.
LEMMA WorkKept ==
  ASSUME NEW v \in Worker, pc'[v] \in Busy <=> pc[v] \in Busy, held'[v] = held[v],
         UNCHANGED overridden
  PROVE  WorkOf(v)' = WorkOf(v)
BY DEF WorkOf

\* Every step of the queue is a step of the life cycle or invisible to it.
LEMMA StepMaps ==
  ASSUME LeaseOutlastsMisses, RefinementInv, RefinementInv', [Next]_vars
  PROVE  Lifecycle!Next \/ UNCHANGED Lifecycle!lifecycleVars
<1> USE DEF RefinementInv, LeaseInv, ClaimInv
<1>0. /\ jobs \in [Job -> Row] /\ pc \in [Worker -> ThreadPC] /\ held \in [Worker -> Job \cup {NoJob}]
      /\ Thread = Worker /\ TypeOK /\ TypeOK'
      /\ \A w \in Worker : pc[w] \in Busy => held[w] \in Job
  BY JobQueueAssumption DEF JobQueueAssumption, TypeOK, JobRunnerTypeOK
<1>a. ASSUME NEW j \in Job, UNCHANGED overridden, \A i \in Job \ {j} : jobs'[i] = jobs[i]
      PROVE  \A i \in Job \ {j} : SameLook(i)
  BY <1>a DEF SameLook
<1>b. ASSUME UNCHANGED overridden, NEW j \in overridden, \A i \in Job \ {j} : jobs'[i] = jobs[i]
      PROVE  \A i \in Job : SameLook(i)
  BY <1>b DEF SameLook
<1>c. ASSUME UNCHANGED <<jobs, overridden>> PROVE \A i \in Job : SameLook(i)
  BY <1>c DEF SameLook
<1>1. ASSUME NEW w \in Worker,
             \/ SelectCandidate(w) \/ LoseRace(w) \/ LoadJob(w) \/ HeartbeatError(w) \/ Restart(w)
      PROVE  UNCHANGED Lifecycle!lifecycleVars
  <2>1. UNCHANGED <<jobs, held, overridden>>
    BY <1>1 DEF SelectCandidate, LoseRace, LoadJob, Load, HeartbeatError, Restart, historyVars
  <2>2. \A v \in Worker : pc'[v] \in Busy <=> pc[v] \in Busy
    BY <1>0, <1>1 DEF SelectCandidate, LoseRace, LoadJob, Load, HeartbeatError, Restart, Busy
  <2> QED BY <1>c, <2>1, <2>2, WorkKept, StutterMaps
<1>2. ASSUME NEW w \in Worker, Claim(w)
      PROVE  Lifecycle!Next \/ UNCHANGED Lifecycle!lifecycleVars
  <2> PICK j \in Job : j = seen[w].job
    BY <1>2 DEF Claim, TypeOK
  <2> DEFINE row == ClaimedRow(jobs[j], w, seen[w].attempt + 1, seen[w].lease)
  <2>1. /\ WriteRow(j, row) /\ UNCHANGED overridden /\ pc[w] = "claiming"
        /\ held' = [held EXCEPT ![w] = j] /\ pc' = [pc EXCEPT ![w] = "claimed"]
    BY <1>2 DEF Claim
  <2>2. /\ Claimable(jobs[j]) /\ jobs[j] \in Row
        /\ seen[w].attempt = jobs[j].attempt /\ seen[w].attempt < MaxAttempts
        /\ seen[w].attempt + 1 \in Attempt /\ seen[w].lease \in Lease
    BY <1>0, <1>2, JobTableAssumption
       DEF JobTableAssumption, Claim, Unmoved, Exhausted, PicturesAreTrue, TypeOK, Picture,
           Attempt, Lease
  <2>3. row \in Row /\ row.status = "running" /\ row.attempt = jobs[j].attempt + 1
    BY <2>2, ClaimWrites, RowFields
  <2> HIDE DEF row
  <2>4. jobs'[j] = row /\ \A i \in Job \ {j} : jobs'[i] = jobs[i]
    BY <1>0, <2>1, <2>3, RowWritten
  <2>5. \A v \in Worker \ {w} : WorkOf(v)' = WorkOf(v)
    BY <2>1, WorkKept DEF TypeOK
  <2>6. WorkOf(w) = NoJob
    BY <2>1 DEF WorkOf, Busy
  <2>7. WorkOf(w)' = IF j \in overridden THEN NoJob ELSE j
    BY <1>0, <2>1 DEF WorkOf, Busy
  <2>8. CASE j \in overridden
    BY <1>b, <2>1, <2>4, <2>5, <2>6, <2>7, <2>8, StutterMaps
  <2>9. CASE j \notin overridden
    <3>1. PhaseOf(j) = "open" /\ PhaseOf(j)' = "open"
          /\ TriesOf(j) < MaxAttempts /\ TriesOf(j)' = TriesOf(j) + 1
      BY <2>1, <2>2, <2>3, <2>4, <2>9 DEF PhaseOf, TriesOf, Claimable, Active
    <3>2. \A v \in Worker : WorkOf(v) # j
      BY <1>0, <2>2, <2>9, NoJobIsNone, WorkIsExecution, ExecutedIsTaken
    <3>3. Lifecycle!Start(w, j)
      BY <1>a, <2>1, <2>4, <2>5, <2>6, <2>7, <2>9, <3>1, <3>2, StartMaps
    <3> QED BY <3>3 DEF Lifecycle!Next
  <2> QED BY <2>8, <2>9
<1>3. ASSUME NEW w \in Worker, WriteOff(w)
      PROVE  Lifecycle!Next \/ UNCHANGED Lifecycle!lifecycleVars
  <2> PICK j \in Job : j = seen[w].job
    BY <1>3 DEF WriteOff, TypeOK
  <2> DEFINE row == ExhaustedRow(jobs[j])
  <2>1. /\ WriteRow(j, row) /\ UNCHANGED <<held, overridden>> /\ pc[w] = "claiming"
        /\ pc' = [pc EXCEPT ![w] = "idle"]
    BY <1>3 DEF WriteOff, historyVars
  <2>2. /\ Claimable(jobs[j]) /\ jobs[j] \in Row
        /\ seen[w].attempt = jobs[j].attempt /\ seen[w].attempt + 1 > MaxAttempts
    BY <1>0, <1>3 DEF WriteOff, Unmoved, Exhausted, PicturesAreTrue, TypeOK
  <2>3. jobs[j].attempt = MaxAttempts
    <3>1. jobs[j].attempt \in 0..MaxAttempts
      BY <2>2 DEF Row, Attempt
    <3> QED BY <2>2, <3>1, JobTableAssumption DEF JobTableAssumption
  <2>4. row \in Row /\ row.status = "dead_letter" /\ row.attempt = jobs[j].attempt
    BY <2>2, FieldValues, RowFields DEF ExhaustedRow, Row
  <2> HIDE DEF row
  <2>5. jobs'[j] = row /\ \A i \in Job \ {j} : jobs'[i] = jobs[i]
    BY <1>0, <2>1, <2>4, RowWritten
  <2>6. \A v \in Worker : WorkOf(v)' = WorkOf(v)
    BY <1>0, <2>1, WorkKept DEF Busy
  <2>7. CASE j \in overridden
    BY <1>b, <2>1, <2>5, <2>6, <2>7, StutterMaps
  <2>8. CASE j \notin overridden
    <3>1. PhaseOf(j) = "open" /\ PhaseOf(j)' = "settled"
          /\ TriesOf(j) = MaxAttempts /\ TriesOf(j)' = TriesOf(j)
      BY <2>1, <2>2, <2>3, <2>4, <2>5, <2>8 DEF PhaseOf, TriesOf, Claimable, Active, Terminal
    <3>2. \A v \in Worker : WorkOf(v) # j
      BY <1>0, <2>2, <2>8, NoJobIsNone, WorkIsExecution, ExecutedIsTaken
    <3>3. Lifecycle!Exhaust(j)
      BY <1>a, <2>1, <2>5, <2>6, <3>1, <3>2, ExhaustMaps
    <3> QED BY <3>3 DEF Lifecycle!Next
  <2> QED BY <2>7, <2>8
<1>4. ASSUME NEW w \in Worker, BeginJob(w) \/ ReportJobProgress(w)
      PROVE  UNCHANGED Lifecycle!lifecycleVars
  <2> PICK j \in Job : j = held[w]
    BY <1>0, <1>4, RunnerMoves DEF BeginJob, ReportJobProgress
  <2> DEFINE row == RunningRow(jobs[j])
  <2>1. /\ WriteRow(j, row) /\ UNCHANGED <<held, overridden>> /\ pc[w] \in Busy
        /\ pc' = [pc EXCEPT ![w] = "executing"] \/ UNCHANGED pc
    BY <1>0, <1>4, RunnerMoves
       DEF BeginJob, ReportJobProgress, Begin, ReportProgress, historyVars
  <2>2. row \in Row /\ row.status = "running" /\ row.attempt = jobs[j].attempt
    BY <1>0, RunnerWrites, RowFields
  <2> HIDE DEF row
  <2>3. jobs'[j] = row /\ \A i \in Job \ {j} : jobs'[i] = jobs[i]
    BY <1>0, <2>1, <2>2, RowWritten
  <2>4. \A v \in Worker : WorkOf(v)' = WorkOf(v)
    BY <1>0, <2>1, WorkKept DEF Busy
  <2>5. j \notin overridden => jobs[j].status = "running"
    BY <2>1 DEF LeaseCoversExecution, Executing
  <2>6. SameLook(j)
    BY <2>1, <2>2, <2>3, <2>5 DEF SameLook
  <2> QED BY <1>a, <2>1, <2>3, <2>4, <2>6, StutterMaps
<1>5. ASSUME NEW w \in Worker, ReturnJobEarly(w) \/ FinishJob(w)
      PROVE  Lifecycle!Next \/ UNCHANGED Lifecycle!lifecycleVars
  <2> PICK j \in Job : j = held[w]
    BY <1>0, <1>5, RunnerMoves DEF ReturnJobEarly, FinishJob
  <2>1. /\ pc[w] \in Busy /\ Release(w) /\ UNCHANGED overridden
        /\ \/ UNCHANGED jobs
           \/ \E row \in Row : WriteRow(j, row) /\ row.attempt = jobs[j].attempt
                                                /\ row.status \in {"queued"} \cup Terminal
    BY <1>0, <1>5, RunnerMoves, FinishedRow DEF ReturnJobEarly, FinishJob, historyVars
  <2>2. /\ \A i \in Job \ {j} : jobs'[i] = jobs[i]
        /\ jobs'[j].attempt = jobs[j].attempt
        /\ jobs'[j] = jobs[j] \/ jobs'[j].status \in {"queued"} \cup Terminal
    BY <1>0, <2>1, RowWritten
  <2>3. WorkOf(w)' = NoJob /\ \A v \in Worker \ {w} : WorkOf(v)' = WorkOf(v)
    <3>1. \A v \in Worker \ {w} : pc'[v] = pc[v] /\ held'[v] = held[v]
      BY <1>0, <2>1 DEF Release
    <3>2. pc'[w] \notin Busy
      BY <1>0, <2>1 DEF Release, Busy
    <3> QED BY <2>1, <3>1, <3>2, WorkKept DEF WorkOf
  <2>4. CASE j \in overridden
    <3>1. WorkOf(w) = NoJob
      BY <2>4 DEF WorkOf
    <3> QED BY <1>b, <2>1, <2>2, <2>3, <2>4, <3>1, StutterMaps
  <2>5. CASE j \notin overridden
    <3>1. WorkOf(w) = j /\ jobs[j].status = "running"
      BY <2>1, <2>5 DEF WorkOf, LeaseCoversExecution, Executing
    <3>2. CASE jobs'[j].status \in Terminal
      <4>1. PhaseOf(j) = "open" /\ PhaseOf(j)' = "settled" /\ TriesOf(j)' = TriesOf(j)
        BY <2>1, <2>2, <2>5, <3>1, <3>2 DEF PhaseOf, TriesOf, Active, Terminal
      <4>2. Lifecycle!Settle(w, j)
        BY <1>a, <2>1, <2>2, <2>3, <3>1, <4>1, SettleMaps
      <4> QED BY <4>2 DEF Lifecycle!Next
    <3>3. CASE jobs'[j].status \notin Terminal
      <4>1. SameLook(j)
        BY <2>1, <2>2, <3>1, <3>3 DEF SameLook, Active
      <4>2. Lifecycle!Leave(w)
        BY <1>a, <2>1, <2>2, <2>3, <3>1, <4>1, NoJobIsNone, LeaveMaps
      <4> QED BY <4>2 DEF Lifecycle!Next
    <3> QED BY <3>2, <3>3
  <2> QED BY <2>4, <2>5
<1>6. ASSUME NEW w \in Worker, Heartbeat(w) PROVE UNCHANGED Lifecycle!lifecycleVars
  <2> PICK j \in Job : j = held[w]
    BY <1>0, <1>6 DEF Heartbeat, TypeOK, Timer
  <2>1. /\ UNCHANGED <<pc, held, overridden>>
        /\ UNCHANGED jobs \/ WriteRow(j, BeatenRow(jobs[j]))
    BY <1>6 DEF Heartbeat, historyVars
  <2>2. /\ BeatenRow(jobs[j]) \in Row /\ BeatenRow(jobs[j]).status = jobs[j].status
        /\ BeatenRow(jobs[j]).attempt = jobs[j].attempt
    BY <1>0, RunnerWrites, RowFields
  <2>3. /\ \A i \in Job \ {j} : jobs'[i] = jobs[i]
        /\ jobs'[j].status = jobs[j].status /\ jobs'[j].attempt = jobs[j].attempt
    BY <1>0, <2>1, <2>2, RowWritten
  <2>4. SameLook(j)
    BY <2>1, <2>3 DEF SameLook
  <2> QED BY <1>a, <2>1, <2>3, <2>4, WorkKept, StutterMaps
<1>7. ASSUME NEW w \in Worker, Crash(w)
      PROVE  Lifecycle!Next \/ UNCHANGED Lifecycle!lifecycleVars
  <2>1. /\ UNCHANGED <<jobs, overridden>>
        /\ pc' = [pc EXCEPT ![w] = "down"] /\ held' = [held EXCEPT ![w] = NoJob]
    BY <1>7 DEF Crash
  <2>2. WorkOf(w)' = NoJob /\ \A v \in Worker \ {w} : WorkOf(v)' = WorkOf(v)
    <3>1. \A v \in Worker \ {w} : pc'[v] = pc[v] /\ held'[v] = held[v]
      BY <1>0, <2>1
    <3>2. pc'[w] \notin Busy
      BY <1>0, <2>1 DEF Busy
    <3> QED BY <2>1, <3>1, <3>2, WorkKept DEF WorkOf
  <2>3. CASE WorkOf(w) = NoJob
    BY <1>c, <2>1, <2>2, <2>3, StutterMaps
  <2>4. CASE WorkOf(w) # NoJob
    <3>1. Lifecycle!Leave(w)
      BY <1>c, <2>1, <2>2, <2>4, LeaveMaps
    <3> QED BY <3>1 DEF Lifecycle!Next
  <2> QED BY <2>3, <2>4
<1>8. ASSUME NEW c \in Client, Ask(c)
      PROVE  Lifecycle!Next \/ UNCHANGED Lifecycle!lifecycleVars
  <2>1. UNCHANGED <<pc, held, overridden>> /\ \A v \in Worker : WorkOf(v)' = WorkOf(v)
    BY <1>8, WorkKept DEF Ask, workerVars, historyVars
  <2>2. ASSUME NEW j \in Job, NEW kind \in Kind,
               jobs[j].status = "absent", WriteRow(j, QueuedRow(kind))
        PROVE  Lifecycle!Next \/ UNCHANGED Lifecycle!lifecycleVars
    <3>1. /\ QueuedRow(kind) \in Row /\ QueuedRow(kind).status = "queued"
          /\ QueuedRow(kind).attempt = 0
      BY NewRows DEF QueuedRow, NewRow
    <3>2. jobs'[j] = QueuedRow(kind) /\ \A i \in Job \ {j} : jobs'[i] = jobs[i]
      BY <1>0, <2>2, <3>1, RowWritten
    <3>3. CASE j \in overridden
      BY <1>b, <2>1, <3>2, <3>3, StutterMaps
    <3>4. CASE j \notin overridden
      <4>1. PhaseOf(j) = "absent" /\ PhaseOf(j)' = "open" /\ TriesOf(j)' = TriesOf(j)
        BY <2>1, <2>2, <3>1, <3>2, <3>4
           DEF PhaseOf, TriesOf, Active, Terminal, AttemptsCounted
      <4>2. Lifecycle!Submit(j)
        BY <1>a, <2>1, <3>2, <4>1, SubmitMaps
      <4> QED BY <4>2 DEF Lifecycle!Next
    <3> QED BY <3>3, <3>4
  <2>3. CASE UNCHANGED jobs
    BY <1>c, <2>1, <2>3, StutterMaps
  <2> QED BY <1>0, <1>8, <2>2, <2>3, RequestWriteFacts
<1>9. ASSUME NEW c \in Client, Override(c)
      PROVE  Lifecycle!Next \/ UNCHANGED Lifecycle!lifecycleVars
  <2> PICK j \in Job : j = client[c].job
    BY <1>0, <1>9, RequestWriteFacts
  <2>1. UNCHANGED <<pc, held>> /\ overridden' = overridden \cup {j}
    BY <1>9 DEF Override
  <2>2. \A i \in Job \ {j} : jobs'[i] = jobs[i]
    BY <1>0, <1>9, RequestWriteFacts, RowWritten
  <2>3. \A i \in Job \ {j} : SameLook(i)
    BY <2>1, <2>2 DEF SameLook
  <2>4. CASE j \in overridden
    <3>1. SameLook(j) /\ UNCHANGED overridden
      BY <2>1, <2>4 DEF SameLook
    <3> QED BY <2>1, <2>3, <3>1, WorkKept, StutterMaps
  <2>5. CASE j \notin overridden
    <3>1. jobs[j].status # "absent" /\ jobs[j].status \in Status
      BY <1>0, <1>9 DEF Override, ExpireStale, AnswerFromStore, RequestedJobsExist, Row
    <3>2. PhaseOf(j) \in {"open", "settled"} /\ PhaseOf(j)' = "taken_over" /\ TriesOf(j)' = 0
      BY <2>1, <2>5, <3>1 DEF PhaseOf, TriesOf, Status
    <3>3. \A v \in Worker : WorkOf(v)' = IF WorkOf(v) = j THEN NoJob ELSE WorkOf(v)
      BY <2>1, NoJobIsNone DEF WorkOf
    <3>4. Lifecycle!TakeOver(j)
      BY <2>3, <3>2, <3>3, TakeOverMaps
    <3> QED BY <3>4 DEF Lifecycle!Next
  <2> QED BY <2>4, <2>5
<1>10. ASSUME Tick PROVE UNCHANGED Lifecycle!lifecycleVars
  <2>1. /\ UNCHANGED <<pc, held, overridden>>
        /\ \A i \in Job : jobs'[i] = ElapsedRow(jobs[i]) /\ jobs[i] \in Row
    BY <1>0, <1>10 DEF Tick, historyVars
  <2>2. \A i \in Job : SameLook(i)
    BY <2>1, RowFields DEF SameLook
  <2> QED BY <2>1, <2>2, WorkKept, StutterMaps
<1>11. CASE UNCHANGED vars
  BY <1>c, <1>11, WorkKept, StutterMaps DEF vars
<1> QED
  BY <1>1, <1>2, <1>3, <1>4, <1>5, <1>6, <1>7, <1>8, <1>9, <1>10, <1>11 DEF Next, WorkerStep

\* The empty table is the life cycle's initial state.
LEMMA InitMaps == Init => Lifecycle!Init
<1> SUFFICES ASSUME Init PROVE Lifecycle!Init
  OBVIOUS
<1>1. \A j \in Job : PhaseOf(j) = "absent" /\ TriesOf(j) = 0
  BY DEF Init, PhaseOf, TriesOf, AbsentRow, NewRow, Active, Terminal
<1>2. \A w \in Worker : WorkOf(w) = NoJob
  BY DEF Init, WorkOf, Busy
<1> QED BY <1>1, <1>2 DEF Lifecycle!Init

\* Leases, heartbeats, claims by compare-and-swap and the attempt column add up
\* to the life cycle: one worker at a time, at most MaxAttempts times, settled
\* once and for all, until an API request takes the job over.
THEOREM Implements ==
  ASSUME Timely, LeaseOutlastsMisses
  PROVE  Spec => ImplementsLifecycle
<1>1. RefinementInv /\ RefinementInv' /\ [Next]_vars => [Lifecycle!Next]_(Lifecycle!lifecycleVars)
  BY StepMaps
<1> QED BY <1>1, InitMaps, RefinementInvariant, PTL DEF Spec, ImplementsLifecycle, Lifecycle!Spec
=============================================================================
