---------------------------- MODULE JobQueueProofs ----------------------------
(***************************************************************************)
(* What holds of JobQueue for any number of workers, clients and jobs.     *)
(***************************************************************************)
EXTENDS JobQueueRefinement, JobRequestsProofs

-----------------------------------------------------------------------------
(* Type correctness. *)

\* A new updated_at outdates the pictures of its row and nothing else of them.
LEMMA StampedPictures ==
  ASSUME NEW j, NEW pictures \in [Worker -> Picture]
  PROVE  /\ Stamped(j, pictures) \in [Worker -> Picture]
         /\ \A w \in Worker :
              /\ Stamped(j, pictures)[w].job = pictures[w].job
              /\ Stamped(j, pictures)[w].status = pictures[w].status
              /\ Stamped(j, pictures)[w].attempt = pictures[w].attempt
              /\ Stamped(j, pictures)[w].lease = pictures[w].lease
              /\ Stamped(j, pictures)[w].current <=>
                   pictures[w].current /\ pictures[w].job # j
<1>1. ASSUME NEW p \in Picture, NEW b \in BOOLEAN
      PROVE  /\ [p EXCEPT !.current = b] \in Picture
             /\ [p EXCEPT !.current = b].job = p.job
             /\ [p EXCEPT !.current = b].status = p.status
             /\ [p EXCEPT !.current = b].attempt = p.attempt
             /\ [p EXCEPT !.current = b].lease = p.lease
             /\ [p EXCEPT !.current = b].current = b
  BY DEF Picture
<1>2. ASSUME NEW w \in Worker
      PROVE  /\ Stamped(j, pictures)[w] \in Picture
             /\ Stamped(j, pictures)[w].job = pictures[w].job
             /\ Stamped(j, pictures)[w].status = pictures[w].status
             /\ Stamped(j, pictures)[w].attempt = pictures[w].attempt
             /\ Stamped(j, pictures)[w].lease = pictures[w].lease
             /\ Stamped(j, pictures)[w].current <=>
                  pictures[w].current /\ pictures[w].job # j
  <2> DEFINE p == pictures[w]
             b == p.current /\ p.job # j
  <2>1. p \in Picture /\ b \in BOOLEAN
    BY DEF Picture
  <2>2. Stamped(j, pictures)[w] = [p EXCEPT !.current = b]
    BY DEF Stamped
  <2>3. b <=> pictures[w].current /\ pictures[w].job # j
    OBVIOUS
  <2> HIDE DEF b
  <2> QED BY <1>1, <2>1, <2>2, <2>3
<1>3. Stamped(j, pictures) = [w \in Worker |-> Stamped(j, pictures)[w]]
  BY DEF Stamped
<1>4. Stamped(j, pictures) \in [Worker -> Picture]
  BY <1>2, <1>3
<1> QED BY <1>2, <1>4

\* A worker without a candidate is in the type too.
LEMMA NothingPicture == Nothing \in Picture
BY JobTableAssumption, FieldValues DEF JobTableAssumption, Nothing, Picture, NoJob

\* How the steps of run_* move the thread that takes them.
LEMMA RunnerMoves ==
  ASSUME TypeOK, NEW w \in Worker
  PROVE  /\ Load(w) => pc[w] \in Busy /\ pc' = [pc EXCEPT ![w] = "loaded"] /\ UNCHANGED <<jobs, held>>
         /\ ReturnEarly(w) => pc[w] \in Busy /\ Release(w) /\ UNCHANGED jobs
         /\ Begin(w) => pc[w] \in Busy /\ pc' = [pc EXCEPT ![w] = "executing"] /\ UNCHANGED held
         /\ ReportProgress(w) => pc[w] \in Busy /\ UNCHANGED <<pc, held>>
         /\ Finish(w) => pc[w] \in Busy /\ Release(w)
BY DEF Load, ReturnEarly, Begin, ReportProgress, Finish, Complete, FailPermanently, FailRetryably,
       MayFail, Busy

\* Every step of the queue keeps the types.
LEMMA TypeStep == TypeOK /\ [Next]_vars => TypeOK'
<1> SUFFICES ASSUME TypeOK, [Next]_vars PROVE TypeOK'
  OBVIOUS
<1> USE DEF TypeOK
<1> DEFINE Beat == [timer : Timer, missed : 0..MaxMissed]
<1>0. /\ Thread = Worker
      /\ NoBeat \in Beat /\ NoBeat.timer = "off"
      /\ [timer |-> "waiting", missed |-> 0] \in Beat
  BY JobQueueAssumption DEF JobQueueAssumption, NoBeat, Timer
<1>a. UNCHANGED client => JobRequestsTypeOK'
  BY DEF JobRequestsTypeOK
<1>1. ASSUME NEW w \in Worker, SelectCandidate(w) PROVE TypeOK'
  <2> PICK j \in Job :
        /\ pc[w] = "idle"
        /\ seen' = [seen EXCEPT ![w] =
             [job |-> j, status |-> jobs[j].status, attempt |-> jobs[j].attempt,
              lease |-> LeaseTicks, current |-> TRUE]]
        /\ pc' = [pc EXCEPT ![w] = "claiming"]
        /\ UNCHANGED <<jobs, held, beat, client, historyVars>>
    BY <1>1 DEF SelectCandidate
  <2>1. [job |-> j, status |-> jobs[j].status, attempt |-> jobs[j].attempt,
         lease |-> LeaseTicks, current |-> TRUE] \in Picture
    BY JobTableAssumption DEF JobTableAssumption, Picture, JobRunnerTypeOK, Row
  <2>2. JobRunnerTypeOK'
    BY <1>0 DEF JobRunnerTypeOK, ThreadPC, Busy
  <2>3. beat[w].timer = "off"
    BY DEF Busy
  <2> QED BY <1>a, <2>1, <2>2, <2>3 DEF historyVars
<1>2. ASSUME NEW w \in Worker, Claim(w) PROVE TypeOK'
  <2> DEFINE j == seen[w].job
             row == ClaimedRow(jobs[j], w, seen[w].attempt + 1, seen[w].lease)
  <2>1. j \in Job /\ seen[w] \in Picture /\ jobs[j] \in Row
    BY <1>2 DEF Claim, JobRunnerTypeOK
  <2>2. seen[w].attempt + 1 \in Attempt /\ seen[w].lease \in Lease
    BY <1>2, <2>1, JobTableAssumption
       DEF JobTableAssumption, Claim, Exhausted, Picture, Attempt, Lease
  <2>3. row \in Row
    BY <2>1, <2>2, ClaimWrites
  <2>4. jobs' \in [Job -> Row]
    BY <1>2, <2>1, <2>3, RowWritten DEF Claim, JobRunnerTypeOK
  <2>5. JobRunnerTypeOK'
    BY <1>0, <1>2, <2>1, <2>4 DEF Claim, JobRunnerTypeOK, ThreadPC, Busy
  <2>6. seen' \in [Worker -> Picture] /\ \A v \in Worker \ {w} : seen'[v].job = seen[v].job
    <3> DEFINE rest == [seen EXCEPT ![w] = Nothing]
    <3>1. rest \in [Worker -> Picture] /\ \A v \in Worker \ {w} : rest[v] = seen[v]
      BY NothingPicture
    <3>2. seen' = Stamped(j, rest)
      BY <1>2 DEF Claim
    <3> HIDE DEF rest
    <3> QED BY <3>1, <3>2, StampedPictures
  <2>7. beat' \in [Worker -> Beat]
    BY <1>0, <1>2 DEF Claim
  <2>8. /\ \A v \in Worker : pc'[v] = "claiming" => seen'[v].job \in Job
        /\ \A v \in Worker : beat'[v].timer # "off" => pc'[v] \in Busy
    <3>1. pc' = [pc EXCEPT ![w] = "claimed"] /\ pc \in [Worker -> ThreadPC]
      BY <1>0, <1>2 DEF Claim, JobRunnerTypeOK
    <3>2. \A v \in Worker \ {w} : beat'[v] = beat[v]
      BY <1>2 DEF Claim
    <3> QED BY <3>1, <3>2, <2>6 DEF Busy
  <2>9. starts' \in [Job -> Nat]
    BY <1>2, <2>1 DEF Claim
  <2>10. UNCHANGED <<client, crashes, overridden>>
    BY <1>2 DEF Claim
  <2> QED BY <1>a, <2>5, <2>6, <2>7, <2>8, <2>9, <2>10
<1>3. ASSUME NEW w \in Worker, WriteOff(w) PROVE TypeOK'
  <2> DEFINE j == seen[w].job
  <2>1. j \in Job /\ jobs[j] \in Row
    BY <1>3 DEF WriteOff, JobRunnerTypeOK
  <2>2. ExhaustedRow(jobs[j]) \in Row
    BY <1>3, <2>1, FieldValues, ClaimWrites
  <2>3. JobRunnerTypeOK'
    <3>1. jobs' \in [Job -> Row]
      BY <1>3, <2>1, <2>2, RowWritten DEF WriteOff, JobRunnerTypeOK
    <3> QED BY <1>0, <1>3, <3>1 DEF WriteOff, JobRunnerTypeOK, ThreadPC, Busy
  <2>4. seen' \in [Worker -> Picture] /\ \A v \in Worker \ {w} : seen'[v].job = seen[v].job
    <3> DEFINE rest == [seen EXCEPT ![w] = Nothing]
    <3>1. rest \in [Worker -> Picture] /\ \A v \in Worker \ {w} : rest[v] = seen[v]
      BY NothingPicture
    <3>2. seen' = Stamped(j, rest)
      BY <1>3 DEF WriteOff
    <3> HIDE DEF rest
    <3> QED BY <3>1, <3>2, StampedPictures
  <2>5. /\ \A v \in Worker : pc'[v] = "claiming" => seen'[v].job \in Job
        /\ \A v \in Worker : beat'[v].timer # "off" => pc'[v] \in Busy
    <3>1. pc' = [pc EXCEPT ![w] = "idle"] /\ pc \in [Worker -> ThreadPC]
      BY <1>0, <1>3 DEF WriteOff, JobRunnerTypeOK
    <3>2. beat' = beat /\ pc[w] \notin Busy
      BY <1>3 DEF WriteOff, Busy
    <3> QED BY <3>1, <3>2, <2>4
  <2>6. UNCHANGED <<beat, client, crashes, starts, overridden>>
    BY <1>3 DEF WriteOff, historyVars
  <2> QED BY <1>a, <2>3, <2>4, <2>5, <2>6
<1>4. ASSUME NEW w \in Worker, LoseRace(w) PROVE TypeOK'
  <2>1. JobRunnerTypeOK'
    BY <1>0, <1>4 DEF LoseRace, JobRunnerTypeOK, ThreadPC, Busy
  <2>2. seen' \in [Worker -> Picture] /\ \A v \in Worker \ {w} : seen'[v] = seen[v]
    BY <1>4, NothingPicture DEF LoseRace
  <2> QED BY <1>a, <1>4, <2>1, <2>2 DEF LoseRace, historyVars, JobRunnerTypeOK, Busy
<1>5. ASSUME NEW w \in Worker,
             LoadJob(w) \/ ReturnJobEarly(w) \/ BeginJob(w) \/ ReportJobProgress(w) \/ FinishJob(w)
      PROVE  TypeOK'
  <2>1. /\ Load(w) \/ ReturnEarly(w) \/ Begin(w) \/ ReportProgress(w) \/ Finish(w)
        /\ UNCHANGED <<client, historyVars>>
        /\ seen' = seen \/ seen' = Stamped(held[w], seen)
        /\ \/ UNCHANGED beat /\ pc' \in {[pc EXCEPT ![w] = "loaded"], [pc EXCEPT ![w] = "executing"], pc}
           \/ StopHeartbeat(w) /\ pc' = [pc EXCEPT ![w] = "idle"]
        /\ pc[w] \in Busy
    BY <1>5, RunnerMoves
       DEF LoadJob, ReturnJobEarly, BeginJob, ReportJobProgress, FinishJob, Release
  <2>2. JobRunnerTypeOK'
    BY <1>0, <2>1, RunnerTypes
  <2>3. seen' \in [Worker -> Picture] /\ \A v \in Worker : seen'[v].job = seen[v].job
    BY <2>1, StampedPictures
  <2>4. beat' \in [Worker -> Beat]
    BY <1>0, <2>1 DEF StopHeartbeat
  <2>5. \A v \in Worker : pc'[v] = "claiming" => pc[v] = "claiming"
    BY <1>0, <2>1 DEF JobRunnerTypeOK
  <2>6. \A v \in Worker : beat'[v].timer # "off" => pc'[v] \in Busy
    BY <1>0, <2>1 DEF StopHeartbeat, JobRunnerTypeOK, Busy
  <2> QED BY <1>a, <2>1, <2>2, <2>3, <2>4, <2>5, <2>6 DEF historyVars
<1>6. ASSUME NEW w \in Worker, Heartbeat(w) PROVE TypeOK'
  <2> DEFINE j == held[w]
  <2>1. j \in Job /\ jobs[j] \in Row /\ pc[w] \in Busy
    BY <1>0, <1>6 DEF Heartbeat, JobRunnerTypeOK, Timer
  <2>2. UNCHANGED jobs \/ WriteRow(j, BeatenRow(jobs[j]))
    BY <1>6 DEF Heartbeat
  <2>3. JobRunnerTypeOK'
    <3>1. jobs' \in [Job -> Row]
      BY <2>1, <2>2, RowWritten, RunnerWrites DEF JobRunnerTypeOK
    <3> QED BY <1>6, <3>1 DEF Heartbeat, JobRunnerTypeOK
  <2>4. seen' \in [Worker -> Picture] /\ \A v \in Worker : seen'[v].job = seen[v].job
    BY <1>6, StampedPictures DEF Heartbeat
  <2>5. beat' \in [Worker -> Beat] /\ \A v \in Worker \ {w} : beat'[v] = beat[v]
    BY <1>0, <1>6 DEF Heartbeat
  <2> QED BY <1>a, <1>6, <2>1, <2>3, <2>4, <2>5 DEF Heartbeat, historyVars
<1>7. ASSUME NEW w \in Worker, HeartbeatError(w) PROVE TypeOK'
  <2>1. beat[w] \in Beat /\ beat[w].missed + 1 \in 0..MaxMissed /\ pc[w] \in Busy
    BY <1>7, JobQueueAssumption DEF JobQueueAssumption, HeartbeatError
  <2>2. [timer |-> "waiting", missed |-> beat[w].missed + 1] \in Beat
    BY <2>1 DEF Timer
  <2>3. beat' = [beat EXCEPT ![w] = [timer |-> "waiting", missed |-> beat[w].missed + 1]]
    BY <1>7 DEF HeartbeatError
  <2>4. beat' \in [Worker -> Beat] /\ \A v \in Worker \ {w} : beat'[v] = beat[v]
    BY <2>2, <2>3
  <2> QED BY <1>a, <1>7, <2>1, <2>4 DEF HeartbeatError, JobRunnerTypeOK, historyVars
<1>8. ASSUME NEW w \in Worker, Crash(w) PROVE TypeOK'
  <2>1. JobRunnerTypeOK'
    BY <1>0, <1>8 DEF Crash, JobRunnerTypeOK, ThreadPC, Busy
  <2>2. seen' \in [Worker -> Picture] /\ \A v \in Worker \ {w} : seen'[v] = seen[v]
    BY <1>8, NothingPicture DEF Crash
  <2>3. beat' \in [Worker -> Beat]
    BY <1>0, <1>8 DEF Crash, StopHeartbeat
  <2>4. /\ \A v \in Worker : pc'[v] = "claiming" => seen'[v].job \in Job
        /\ \A v \in Worker : beat'[v].timer # "off" => pc'[v] \in Busy
    BY <1>0, <1>8, <2>2 DEF Crash, StopHeartbeat, Busy, JobRunnerTypeOK
  <2>5. crashes' \in 0..MaxCrashes
    BY <1>8, JobQueueAssumption DEF JobQueueAssumption, Crash
  <2>6. UNCHANGED <<client, starts, overridden>>
    BY <1>8 DEF Crash
  <2> QED BY <1>a, <2>1, <2>2, <2>3, <2>4, <2>5, <2>6
<1>9. ASSUME NEW w \in Worker, Restart(w) PROVE TypeOK'
  <2>1. JobRunnerTypeOK'
    BY <1>0, <1>9 DEF Restart, JobRunnerTypeOK, ThreadPC, Busy
  <2>2. \A v \in Worker : /\ pc'[v] = "claiming" => pc[v] = "claiming"
                         /\ pc[v] \in Busy => pc'[v] \in Busy
    BY <1>0, <1>9 DEF Restart, JobRunnerTypeOK, Busy
  <2> QED BY <1>a, <1>9, <2>1, <2>2 DEF Restart, historyVars
<1>10. ASSUME NEW c \in Client, Ask(c) PROVE TypeOK'
  <2>1. JobRunnerTypeOK' /\ JobRequestsTypeOK'
    BY <1>10, RequestTypes DEF Ask, workerVars
  <2> QED BY <1>a, <1>10, <2>1 DEF Ask, workerVars, historyVars
<1>11. ASSUME NEW c \in Client, Override(c) PROVE TypeOK'
  <2>1. JobRunnerTypeOK' /\ JobRequestsTypeOK'
    BY <1>11, RequestTypes DEF Override
  <2>2. seen' \in [Worker -> Picture] /\ \A v \in Worker : seen'[v].job = seen[v].job
    BY <1>11, StampedPictures DEF Override
  <2>3. client[c].job \in Job
    BY <1>11 DEF Override, ExpireStale, AnswerFromStore, JobRequestsTypeOK
  <2> QED BY <1>11, <2>1, <2>2, <2>3 DEF Override
<1>12. ASSUME Tick PROVE TypeOK'
  <2>1. JobRunnerTypeOK'
    BY <1>12, RunnerWrites DEF Tick, JobRunnerTypeOK
  <2> DEFINE lease(v) == IF seen[v].lease > 0 THEN seen[v].lease - 1 ELSE seen[v].lease
             timer(v) == IF beat[v].timer = "waiting" THEN "due" ELSE beat[v].timer
  <2>2. \A v \in Worker : lease(v) \in 0..LeaseTicks /\ timer(v) \in Timer
    BY JobTableAssumption DEF JobTableAssumption, Picture, Timer
  <2>3. /\ seen' = [v \in Worker |-> [seen[v] EXCEPT !.lease = lease(v)]]
        /\ beat' = [v \in Worker |-> [beat[v] EXCEPT !.timer = timer(v)]]
    BY <1>12 DEF Tick
  <2>4. \A v \in Worker : beat[v].timer = "off" => timer(v) = "off"
    OBVIOUS
  <2> HIDE DEF lease, timer
  <2>5. seen' \in [Worker -> Picture] /\ beat' \in [Worker -> Beat]
    BY <2>2, <2>3 DEF Picture
  <2>6. \A v \in Worker : seen'[v].job = seen[v].job /\ beat'[v].timer = timer(v)
    BY <2>3 DEF Picture
  <2>7. UNCHANGED <<pc, client, crashes, starts, overridden>>
    BY <1>12 DEF Tick, historyVars
  <2> QED BY <1>a, <2>1, <2>4, <2>5, <2>6, <2>7
<1>13. CASE UNCHANGED vars
  BY <1>13 DEF vars, JobRunnerTypeOK, JobRequestsTypeOK
<1> QED
  BY <1>1, <1>2, <1>3, <1>4, <1>5, <1>6, <1>7, <1>8, <1>9, <1>10, <1>11, <1>12, <1>13
     DEF Next, WorkerStep

\* They hold of the empty table.
LEMMA TypeInit == Init => TypeOK
<1> SUFFICES ASSUME Init PROVE TypeOK
  OBVIOUS
<1>1. AbsentRow \in Row
  BY NewRows DEF Kind
<1>2. JobRunnerTypeOK
  BY <1>1, JobQueueAssumption DEF JobQueueAssumption, Init, JobRunnerTypeOK, ThreadPC, Busy
<1>3. JobRequestsTypeOK
  BY ClientStates DEF Init, JobRequestsTypeOK
<1> QED
  BY <1>2, <1>3, NothingPicture, JobQueueAssumption
     DEF JobQueueAssumption, Init, TypeOK, NoBeat, Timer

\* Every variable keeps to the values its declaration promises; in particular no
\* attempt number passes max_attempts and a heartbeat runs only for a busy worker.
THEOREM TypeCorrect == Spec => []TypeOK
BY TypeInit, TypeStep, PTL DEF Spec

-----------------------------------------------------------------------------
(* Claims and attempts, however slow workers and requests are. *)

\* Only a claim in progress holds on to a picture.
OpenPictures == \A w \in Worker : seen[w].current => pc[w] = "claiming"

\* The attempt column tells how often a job was handed out, and only a job that
\* was handed out MaxAttempts times is a dead letter.  A row starts with none.
AttemptsCounted ==
  /\ \A j \in Job : starts[j] = jobs[j].attempt
  /\ \A j \in Job : jobs[j].status = "dead_letter" => jobs[j].attempt = MaxAttempts
  /\ \A j \in Job : jobs[j].status = "absent" => jobs[j].attempt = 0

ClaimInv == TypeOK /\ OpenPictures /\ PicturesAreTrue /\ AttemptsCounted

\* A step keeps the pictures true that it leaves current, if it leaves their
\* rows alone, or at least their status, attempt and freedom.
LEMMA PicturesKept ==
  ASSUME OpenPictures, PicturesAreTrue,
         \A w \in Worker : seen'[w].current =>
           LET r == jobs[seen[w].job]
               s == jobs'[seen[w].job]
           IN  /\ seen[w].current /\ pc'[w] = pc[w]
               /\ seen'[w].job = seen[w].job /\ seen'[w].status = seen[w].status
               /\ seen'[w].attempt = seen[w].attempt
               /\ s.status = r.status /\ s.attempt = r.attempt
               /\ Claimable(r) => Claimable(s)
  PROVE  OpenPictures' /\ PicturesAreTrue'
BY DEF OpenPictures, PicturesAreTrue

\* A write that stamps its row outdates every picture it could make false.
LEMMA StampedWrite ==
  ASSUME TypeOK, OpenPictures, PicturesAreTrue,
         NEW j, \A i \in Job \ {j} : jobs'[i] = jobs[i],
         NEW pictures \in [Worker -> Picture],
         \A w \in Worker : \/ pictures[w] = seen[w] /\ (pc'[w] = pc[w] \/ pc[w] # "claiming")
                          \/ pictures[w] = Nothing,
         seen' = Stamped(j, pictures)
  PROVE  OpenPictures' /\ PicturesAreTrue'
<1>1. ASSUME NEW w \in Worker, seen'[w].current
      PROVE  LET r == jobs[seen[w].job]
                 s == jobs'[seen[w].job]
             IN  /\ seen[w].current /\ pc'[w] = pc[w]
                 /\ seen'[w].job = seen[w].job /\ seen'[w].status = seen[w].status
                 /\ seen'[w].attempt = seen[w].attempt
                 /\ s.status = r.status /\ s.attempt = r.attempt
                 /\ Claimable(r) => Claimable(s)
  <2>1. pictures[w].current /\ pictures[w].job # j
    BY <1>1, StampedPictures
  <2>2. pictures[w] = seen[w] /\ pc'[w] = pc[w] /\ pc[w] = "claiming"
    BY <2>1 DEF Nothing, OpenPictures
  <2>3. seen[w].job \in Job \ {j}
    BY <2>1, <2>2 DEF TypeOK
  <2>4. jobs'[seen[w].job] = jobs[seen[w].job]
    BY <2>3
  <2> QED BY <2>1, <2>2, <2>4, StampedPictures
<1> QED BY <1>1, PicturesKept

\* The written row counts: its attempt and, if it is a dead letter, its budget.
LEMMA CountedWrite ==
  ASSUME TypeOK, AttemptsCounted, NEW j \in Job, NEW row \in Row, WriteRow(j, row),
         \A i \in Job \ {j} : starts'[i] = starts[i],
         starts'[j] = row.attempt,
         row.status = "dead_letter" => row.attempt = MaxAttempts,
         row.status = "absent" => row.attempt = 0
  PROVE  AttemptsCounted'
<1>1. jobs'[j] = row /\ \A i \in Job \ {j} : jobs'[i] = jobs[i]
  BY RowWritten DEF TypeOK, JobRunnerTypeOK
<1>2. ASSUME NEW i \in Job
      PROVE  /\ starts'[i] = jobs'[i].attempt
             /\ jobs'[i].status = "dead_letter" => jobs'[i].attempt = MaxAttempts
             /\ jobs'[i].status = "absent" => jobs'[i].attempt = 0
  BY <1>1 DEF AttemptsCounted
<1> QED BY <1>2 DEF AttemptsCounted

\* A write by whoever executes the job changes neither.
LEMMA CountedRunnerWrite ==
  ASSUME TypeOK, AttemptsCounted, NEW j \in Job, NEW row \in Row, WriteRow(j, row),
         UNCHANGED starts, row.attempt = jobs[j].attempt,
         row.status = "dead_letter" => row.attempt = MaxAttempts,
         row.status = "absent" => row.attempt = 0
  PROVE  AttemptsCounted'
<1>1. starts'[j] = row.attempt /\ \A i \in Job \ {j} : starts'[i] = starts[i]
  BY DEF AttemptsCounted
<1> QED BY <1>1, CountedWrite

\* What a busy thread writes into the row of its job.
LEMMA RunnerWriteFacts ==
  ASSUME TypeOK, NEW w \in Worker, Begin(w) \/ ReportProgress(w) \/ Finish(w)
  PROVE  /\ held[w] \in Job
         /\ \E row \in Row :
              /\ WriteRow(held[w], row)
              /\ row.attempt = jobs[held[w]].attempt
              /\ row.status = "dead_letter" => row.attempt = MaxAttempts
              /\ row.status # "absent"
<1> DEFINE j == held[w]
<1>1. j \in Job /\ jobs[j] \in Row
  BY RunnerMoves, JobQueueAssumption DEF JobQueueAssumption, TypeOK, JobRunnerTypeOK
<1>2. CASE Begin(w) \/ ReportProgress(w)
  BY <1>1, <1>2, RowFields, RunnerWrites DEF Begin, ReportProgress
<1>3. CASE Complete(w)
  <2> DEFINE row == ClosedRow(jobs[j], "completed", jobs[j].error)
  <2>1. "completed" \in Terminal /\ jobs[j].error \in ErrorClass
    BY <1>1 DEF Terminal, Row
  <2>2. row \in Row /\ row.status = "completed" /\ row.attempt = jobs[j].attempt
    BY <1>1, <2>1, ClosedFields
  <2>3. WriteRow(j, row)
    BY <1>3 DEF Complete
  <2> HIDE DEF row
  <2> QED BY <1>1, <2>2, <2>3
<1>4. CASE FailPermanently(w)
  <2> DEFINE row == ClosedRow(jobs[j], "failed", "permanent")
  <2>1. "failed" \in Terminal /\ "permanent" \in ErrorClass
    BY DEF Terminal, ErrorClass
  <2>2. row \in Row /\ row.status = "failed" /\ row.attempt = jobs[j].attempt
    BY <1>1, <2>1, ClosedFields
  <2>3. WriteRow(j, row)
    BY <1>4 DEF FailPermanently
  <2> HIDE DEF row
  <2> QED BY <1>1, <2>2, <2>3
<1>5. CASE \E b \in Backoffs : FailRetryably(w, b)
  <2> PICK b \in Backoffs : FailRetryably(w, b)
    BY <1>5
  <2> DEFINE row == RetriedRow(jobs[j], b)
  <2>1. row \in Row /\ row.attempt = jobs[j].attempt /\ row.status # "absent"
        /\ (row.status = "dead_letter" => jobs[j].attempt = MaxAttempts)
    BY <1>1, RowFields, RunnerWrites
  <2>2. WriteRow(j, row)
    BY DEF FailRetryably
  <2> HIDE DEF row
  <2> QED BY <1>1, <2>1, <2>2
<1> QED BY <1>2, <1>3, <1>4, <1>5 DEF Finish

\* A request creates a row that no worker has seen, or closes one.
LEMMA RequestWriteFacts ==
  ASSUME TypeOK, NEW c \in Client
  PROVE  /\ Ask(c) => \/ UNCHANGED jobs
                      \/ \E j \in Job, kind \in Kind :
                           jobs[j].status = "absent" /\ WriteRow(j, QueuedRow(kind))
         /\ Override(c) => LET j == client[c].job IN
              /\ j \in Job
              /\ \E row \in Row :
                   /\ WriteRow(j, row)
                   /\ row.status \in {"failed", "completed"}
                   /\ row.attempt = jobs[j].attempt
<1>1. ASSUME Ask(c)
      PROVE  \/ UNCHANGED jobs
             \/ \E j \in Job, kind \in Kind :
                  jobs[j].status = "absent" /\ WriteRow(j, QueuedRow(kind))
  <2>1. ASSUME NEW j \in Job, NEW kind \in Kind, Create(kind, j)
        PROVE  jobs[j].status = "absent" /\ WriteRow(j, QueuedRow(kind))
    BY <2>1 DEF Create
  <2>2. client[c].kind \in Kind /\ "profile_generation" \in Kind
    BY DEF TypeOK, JobRequestsTypeOK, ClientState, Kind
  <2>3. \/ UNCHANGED jobs
        \/ \E j \in Job, kind \in Kind : Create(kind, j)
    BY <1>1, <2>2 DEF Ask, FindStale, FindNone, CreateJob, CreateProfileJob, CreateAnsweredJob
  <2> QED BY <2>1, <2>3
<1>2. ASSUME Override(c)
      PROVE  LET j == client[c].job IN
               /\ j \in Job
               /\ \E row \in Row :
                    /\ WriteRow(j, row)
                    /\ row.status \in {"failed", "completed"}
                    /\ row.attempt = jobs[j].attempt
  <2> DEFINE j == client[c].job
  <2>1. j \in Job /\ jobs[j] \in Row
    BY <1>2 DEF Override, ExpireStale, AnswerFromStore, TypeOK, JobRequestsTypeOK, JobRunnerTypeOK
  <2>2. PICK status \in {"failed", "completed"}, error \in ErrorClass :
          WriteRow(j, ClosedRow(jobs[j], status, error))
    BY <1>2, <2>1 DEF Override, ExpireStale, AnswerFromStore, ErrorClass, Row
  <2> DEFINE row == ClosedRow(jobs[j], status, error)
  <2>3. row \in Row /\ row.status = status /\ row.attempt = jobs[j].attempt
    BY <2>1, ClosedFields DEF Terminal
  <2>4. WriteRow(j, row)
    BY <2>2
  <2> HIDE DEF row
  <2> QED BY <2>1, <2>3, <2>4
<1> QED BY <1>1, <1>2

\* Every step keeps pictures true and attempts counted.
LEMMA ClaimStep == ClaimInv /\ [Next]_vars => ClaimInv'
<1> SUFFICES ASSUME ClaimInv, [Next]_vars PROVE ClaimInv'
  OBVIOUS
<1> USE DEF ClaimInv
<1>0. /\ TypeOK /\ TypeOK'
      /\ jobs \in [Job -> Row] /\ seen \in [Worker -> Picture] /\ Nothing \in Picture
      /\ pc \in [Worker -> ThreadPC] /\ starts \in [Job -> Nat]
  BY TypeStep, NothingPicture, JobQueueAssumption DEF JobQueueAssumption, TypeOK, JobRunnerTypeOK
<1>a. ASSUME UNCHANGED <<jobs, starts>> PROVE AttemptsCounted'
  BY <1>a DEF AttemptsCounted
<1>b. ASSUME UNCHANGED jobs, NEW w \in Worker,
             \A v \in Worker \ {w} : pc'[v] = pc[v],
             pc'[w] = pc[w] \/ pc[w] # "claiming",
             UNCHANGED seen \/ seen' = [seen EXCEPT ![w] = Nothing]
      PROVE  OpenPictures' /\ PicturesAreTrue'
  BY <1>b, <1>0, PicturesKept DEF Nothing, OpenPictures
<1>1. ASSUME NEW w \in Worker, SelectCandidate(w) PROVE ClaimInv'
  <2> PICK j \in Job :
        /\ IsCandidate(j)
        /\ seen' = [seen EXCEPT ![w] =
             [job |-> j, status |-> jobs[j].status, attempt |-> jobs[j].attempt,
              lease |-> LeaseTicks, current |-> TRUE]]
    BY <1>1 DEF SelectCandidate
  <2>1. UNCHANGED <<jobs, starts>> /\ pc' = [pc EXCEPT ![w] = "claiming"]
    BY <1>1 DEF SelectCandidate, historyVars
  <2>2. Claimable(jobs[j])
    BY DEF IsCandidate
  <2>3. /\ seen'[w] = [job |-> j, status |-> jobs[j].status, attempt |-> jobs[j].attempt,
                       lease |-> LeaseTicks, current |-> TRUE]
        /\ \A v \in Worker \ {w} : seen'[v] = seen[v] /\ pc'[v] = pc[v]
    BY <1>0, <2>1
  <2>4. OpenPictures'
    BY <1>0, <2>1, <2>3 DEF OpenPictures
  <2>5. PicturesAreTrue'
    BY <2>1, <2>2, <2>3 DEF PicturesAreTrue
  <2> QED BY <1>0, <1>a, <2>1, <2>4, <2>5
<1>2. ASSUME NEW w \in Worker, Claim(w) PROVE ClaimInv'
  <2> DEFINE j == seen[w].job
             row == ClaimedRow(jobs[j], w, seen[w].attempt + 1, seen[w].lease)
             pictures == [seen EXCEPT ![w] = Nothing]
  <2>1. j \in Job /\ jobs[j].attempt = seen[w].attempt
    BY <1>2 DEF Claim, Unmoved, PicturesAreTrue, TypeOK
  <2>2. seen[w].attempt + 1 \in Attempt /\ seen[w].lease \in Lease /\ jobs[j] \in Row
    BY <1>0, <1>2, <2>1, JobTableAssumption
       DEF JobTableAssumption, Claim, Exhausted, Picture, Attempt, Lease
  <2>3. row \in Row /\ row.attempt = seen[w].attempt + 1 /\ row.status = "running"
    BY <2>2, ClaimWrites, RowFields
  <2>4. /\ WriteRow(j, row)
        /\ starts' = [starts EXCEPT ![j] = @ + 1]
        /\ seen' = Stamped(j, pictures)
        /\ pc' = [pc EXCEPT ![w] = "claimed"]
    BY <1>2 DEF Claim
  <2>5. starts'[j] = row.attempt /\ \A i \in Job \ {j} : starts'[i] = starts[i]
    BY <1>0, <2>1, <2>3, <2>4 DEF AttemptsCounted
  <2> HIDE DEF row
  <2>6. AttemptsCounted'
    BY <2>1, <2>3, <2>4, <2>5, CountedWrite
  <2>7. OpenPictures' /\ PicturesAreTrue'
    <3>1. pictures \in [Worker -> Picture]
          /\ \A v \in Worker : \/ pictures[v] = seen[v] /\ (pc'[v] = pc[v] \/ pc[v] # "claiming")
                              \/ pictures[v] = Nothing
      BY <1>0, <2>4
    <3>2. \A i \in Job \ {j} : jobs'[i] = jobs[i]
      BY <1>0, <2>1, <2>3, <2>4, RowWritten
    <3> HIDE DEF pictures, j
    <3> QED BY <3>1, <3>2, <2>4, StampedWrite
  <2> QED BY <1>0, <2>6, <2>7
<1>3. ASSUME NEW w \in Worker, WriteOff(w) PROVE ClaimInv'
  <2> DEFINE j == seen[w].job
             row == ExhaustedRow(jobs[j])
             pictures == [seen EXCEPT ![w] = Nothing]
  <2>1. j \in Job /\ jobs[j].attempt = seen[w].attempt
    BY <1>3 DEF WriteOff, Unmoved, PicturesAreTrue, TypeOK
  <2>2. seen[w].attempt = MaxAttempts
    <3>1. seen[w].attempt \in 0..MaxAttempts
      BY <1>0 DEF Picture, Attempt
    <3>2. seen[w].attempt + 1 > MaxAttempts
      BY <1>3 DEF WriteOff, Exhausted
    <3> QED BY <3>1, <3>2, JobTableAssumption DEF JobTableAssumption
  <2>3. row \in Row /\ row.attempt = jobs[j].attempt /\ row.status = "dead_letter"
    <3>1. jobs[j] \in Row BY <1>0, <2>1
    <3>2. row \in Row
      BY <3>1, FieldValues DEF ExhaustedRow, Row
    <3> QED BY <3>1, <3>2, RowFields
  <2>4. /\ WriteRow(j, row)
        /\ seen' = Stamped(j, pictures)
        /\ pc' = [pc EXCEPT ![w] = "idle"]
        /\ UNCHANGED starts
    BY <1>3 DEF WriteOff, historyVars
  <2> HIDE DEF row
  <2>5. AttemptsCounted'
    BY <2>1, <2>2, <2>3, <2>4, CountedRunnerWrite
  <2>6. OpenPictures' /\ PicturesAreTrue'
    <3>1. pictures \in [Worker -> Picture]
          /\ \A v \in Worker : \/ pictures[v] = seen[v] /\ (pc'[v] = pc[v] \/ pc[v] # "claiming")
                              \/ pictures[v] = Nothing
      BY <1>0, <2>4
    <3>2. \A i \in Job \ {j} : jobs'[i] = jobs[i]
      BY <1>0, <2>1, <2>3, <2>4, RowWritten
    <3> HIDE DEF pictures, j
    <3> QED BY <3>1, <3>2, <2>4, StampedWrite
  <2> QED BY <1>0, <2>5, <2>6
<1>4. ASSUME NEW w \in Worker, LoseRace(w) PROVE ClaimInv'
  <2>1. /\ UNCHANGED <<jobs, starts>> /\ seen' = [seen EXCEPT ![w] = Nothing]
        /\ pc' = [pc EXCEPT ![w] = "idle"]
    BY <1>4 DEF LoseRace, historyVars
  <2>2. OpenPictures' /\ PicturesAreTrue'
    BY <1>0, <2>1, PicturesKept DEF Nothing, OpenPictures
  <2> QED BY <1>0, <1>a, <2>1, <2>2
<1>5. ASSUME NEW w \in Worker, LoadJob(w) \/ ReturnJobEarly(w) PROVE ClaimInv'
  <2>1. /\ UNCHANGED <<jobs, starts, seen>> /\ pc[w] = "claimed"
        /\ pc' \in {[pc EXCEPT ![w] = "loaded"], [pc EXCEPT ![w] = "idle"]}
    BY <1>5 DEF LoadJob, ReturnJobEarly, Load, ReturnEarly, Release, historyVars
  <2>2. OpenPictures' /\ PicturesAreTrue'
    BY <1>0, <1>b, <2>1
  <2> QED BY <1>0, <1>a, <2>1, <2>2
<1>6. ASSUME NEW w \in Worker, BeginJob(w) \/ ReportJobProgress(w) \/ FinishJob(w)
      PROVE  ClaimInv'
  <2> DEFINE j == held[w]
  <2>1. /\ Begin(w) \/ ReportProgress(w) \/ Finish(w)
        /\ UNCHANGED starts /\ seen' = Stamped(j, seen)
    BY <1>6 DEF BeginJob, ReportJobProgress, FinishJob, historyVars
  <2>2. PICK row \in Row :
          /\ j \in Job /\ WriteRow(j, row)
          /\ row.attempt = jobs[j].attempt
          /\ row.status = "dead_letter" => row.attempt = MaxAttempts
          /\ row.status # "absent"
    BY <2>1, RunnerWriteFacts
  <2>3. AttemptsCounted'
    BY <2>1, <2>2, CountedRunnerWrite
  <2>4. /\ \A v \in Worker : seen[v] = seen[v] /\ (pc'[v] = pc[v] \/ pc[v] # "claiming")
        /\ \A i \in Job \ {j} : jobs'[i] = jobs[i]
    BY <1>0, <2>1, <2>2, RunnerMoves, RowWritten, JobQueueAssumption
       DEF JobQueueAssumption, Busy, Release
  <2> HIDE DEF j
  <2>5. OpenPictures' /\ PicturesAreTrue'
    BY <1>0, <2>1, <2>4, StampedWrite
  <2> QED BY <1>0, <2>3, <2>5
<1>7. ASSUME NEW w \in Worker, Heartbeat(w) PROVE ClaimInv'
  <2> DEFINE j == held[w]
             row == BeatenRow(jobs[j])
  <2>1. UNCHANGED <<pc, starts>>
    BY <1>7 DEF Heartbeat, historyVars
  <2>2. CASE jobs[j].owner = w /\ jobs[j].status = "running"
    <3>1. WriteRow(j, row) /\ seen' = Stamped(j, seen)
      BY <1>7, <2>2 DEF Heartbeat
    <3>2. j \in Job /\ jobs[j] \in Row
      BY <1>0, <1>7 DEF Heartbeat, TypeOK, JobRunnerTypeOK, Timer
    <3>3. row \in Row /\ row.attempt = jobs[j].attempt /\ row.status = "running"
      BY <2>2, <3>2, RowFields, RunnerWrites
    <3> HIDE DEF row
    <3>4. AttemptsCounted'
      BY <2>1, <3>1, <3>2, <3>3, CountedRunnerWrite
    <3>5. /\ \A v \in Worker : seen[v] = seen[v] /\ (pc'[v] = pc[v] \/ pc[v] # "claiming")
          /\ \A i \in Job \ {j} : jobs'[i] = jobs[i]
      BY <1>0, <2>1, <3>1, <3>2, <3>3, RowWritten
    <3> HIDE DEF j
    <3>6. OpenPictures' /\ PicturesAreTrue'
      BY <1>0, <3>1, <3>5, StampedWrite
    <3> QED BY <1>0, <3>4, <3>6
  <2>3. CASE ~(jobs[j].owner = w /\ jobs[j].status = "running")
    <3>1. UNCHANGED <<jobs, seen>>
      BY <1>7, <2>3 DEF Heartbeat
    <3> QED BY <1>0, <1>a, <1>b, <2>1, <3>1
  <2> QED BY <2>2, <2>3
<1>8. ASSUME NEW w \in Worker, HeartbeatError(w) PROVE ClaimInv'
  <2>1. UNCHANGED <<jobs, pc, seen, starts>>
    BY <1>8 DEF HeartbeatError, historyVars
  <2> QED BY <1>0, <1>a, <1>b, <2>1
<1>9. ASSUME NEW w \in Worker, Crash(w) PROVE ClaimInv'
  <2>1. /\ UNCHANGED <<jobs, starts>> /\ seen' = [seen EXCEPT ![w] = Nothing]
        /\ pc' = [pc EXCEPT ![w] = "down"]
    BY <1>9 DEF Crash
  <2>2. OpenPictures' /\ PicturesAreTrue'
    BY <1>0, <2>1, PicturesKept DEF Nothing, OpenPictures
  <2> QED BY <1>0, <1>a, <2>1, <2>2
<1>10. ASSUME NEW w \in Worker, Restart(w) PROVE ClaimInv'
  <2>1. /\ UNCHANGED <<jobs, seen, starts>> /\ pc[w] = "down"
        /\ pc' = [pc EXCEPT ![w] = "idle"]
    BY <1>10 DEF Restart, historyVars
  <2> QED BY <1>0, <1>a, <1>b, <2>1
<1>11. ASSUME NEW c \in Client, Ask(c) PROVE ClaimInv'
  <2>1. UNCHANGED <<pc, seen, starts>>
    BY <1>11 DEF Ask, workerVars, historyVars
  <2>2. CASE UNCHANGED jobs
    <3>1. OpenPictures' /\ PicturesAreTrue'
      BY <2>1, <2>2 DEF OpenPictures, PicturesAreTrue
    <3> QED BY <1>0, <1>a, <2>1, <2>2, <3>1
  <2>3. ASSUME NEW j \in Job, NEW kind \in Kind,
               jobs[j].status = "absent", WriteRow(j, QueuedRow(kind))
        PROVE  ClaimInv'
    <3>1. /\ QueuedRow(kind) \in Row
          /\ QueuedRow(kind).attempt = 0 /\ QueuedRow(kind).status = "queued"
      BY NewRows DEF QueuedRow, NewRow
    <3>2. jobs[j].attempt = 0
      BY <2>3 DEF AttemptsCounted
    <3>3. AttemptsCounted'
      BY <2>1, <2>3, <3>1, <3>2, CountedRunnerWrite
    <3>4. \A i \in Job \ {j} : jobs'[i] = jobs[i]
      BY <1>0, <2>3, <3>1, RowWritten
    <3>5. ASSUME NEW w \in Worker, seen[w].current PROVE seen[w].job \in Job \ {j}
      BY <1>0, <2>3, <3>5 DEF OpenPictures, PicturesAreTrue, Claimable, Active, TypeOK
    <3>6. OpenPictures' /\ PicturesAreTrue'
      BY <2>1, <3>4, <3>5, PicturesKept
    <3> QED BY <1>0, <3>3, <3>6
  <2> QED BY <1>0, <1>11, <2>2, <2>3, RequestWriteFacts
<1>12. ASSUME NEW c \in Client, Override(c) PROVE ClaimInv'
  <2> DEFINE j == client[c].job
  <2>1. UNCHANGED <<pc, starts>> /\ seen' = Stamped(j, seen)
    BY <1>12 DEF Override
  <2>2. PICK row \in Row :
          /\ j \in Job /\ WriteRow(j, row)
          /\ row.status \in {"failed", "completed"}
          /\ row.attempt = jobs[j].attempt
    BY <1>0, <1>12, RequestWriteFacts
  <2>3. AttemptsCounted'
    BY <2>1, <2>2, CountedRunnerWrite
  <2>4. /\ \A v \in Worker : seen[v] = seen[v] /\ (pc'[v] = pc[v] \/ pc[v] # "claiming")
        /\ \A i \in Job \ {j} : jobs'[i] = jobs[i]
    BY <1>0, <2>1, <2>2, RowWritten
  <2> HIDE DEF j
  <2>5. OpenPictures' /\ PicturesAreTrue'
    BY <1>0, <2>1, <2>4, StampedWrite
  <2> QED BY <1>0, <2>3, <2>5
<1>13. ASSUME Tick PROVE ClaimInv'
  <2>1. /\ jobs' = [j \in Job |-> ElapsedRow(jobs[j])] /\ UNCHANGED <<pc, starts>>
        /\ seen' = [w \in Worker |-> [seen[w] EXCEPT !.lease = IF @ > 0 THEN @ - 1 ELSE @]]
    BY <1>13 DEF Tick, historyVars
  <2>2. ASSUME NEW j \in Job
        PROVE  /\ jobs'[j].status = jobs[j].status /\ jobs'[j].attempt = jobs[j].attempt
               /\ Claimable(jobs[j]) => Claimable(jobs'[j])
    <3>1. jobs[j] \in Row /\ jobs'[j] = ElapsedRow(jobs[j]) /\ jobs[j].lease \in Lease
      BY <1>0, <2>1 DEF Row
    <3> QED BY <3>1, RowFields DEF Claimable, NoLease
  <2>3. AttemptsCounted'
    BY <2>1, <2>2 DEF AttemptsCounted
  <2>4. ASSUME NEW w \in Worker
        PROVE  /\ seen'[w].job = seen[w].job /\ seen'[w].status = seen[w].status
               /\ seen'[w].attempt = seen[w].attempt /\ seen'[w].current = seen[w].current
    <3> DEFINE l == IF seen[w].lease > 0 THEN seen[w].lease - 1 ELSE seen[w].lease
    <3>1. seen'[w] = [seen[w] EXCEPT !.lease = l]
      BY <2>1
    <3> HIDE DEF l
    <3> QED BY <1>0, <3>1 DEF Picture
  <2>5. ASSUME NEW w \in Worker, seen[w].current PROVE seen[w].job \in Job
    BY <2>5 DEF OpenPictures, TypeOK
  <2>6. OpenPictures' /\ PicturesAreTrue'
    BY <2>1, <2>2, <2>4, <2>5, PicturesKept
  <2> QED BY <1>0, <2>3, <2>6
<1>14. CASE UNCHANGED vars
  BY <1>0, <1>14 DEF vars, OpenPictures, PicturesAreTrue, AttemptsCounted
<1> QED
  BY <1>1, <1>2, <1>3, <1>4, <1>5, <1>6, <1>7, <1>8, <1>9, <1>10, <1>11, <1>12, <1>13, <1>14
     DEF Next, WorkerStep

\* It holds at the start: no row exists, no claim is open.
LEMMA ClaimInit == Init => ClaimInv
<1> SUFFICES ASSUME Init PROVE ClaimInv
  OBVIOUS
<1>1. AbsentRow.status = "absent" /\ AbsentRow.attempt = 0 /\ Nothing.current = FALSE
  BY DEF AbsentRow, NewRow, Nothing
<1>2. OpenPictures /\ PicturesAreTrue /\ AttemptsCounted
  BY <1>1 DEF Init, OpenPictures, PicturesAreTrue, AttemptsCounted
<1> QED BY <1>2, TypeInit DEF ClaimInv

\* The inductive invariant of claims holds for ever.
LEMMA ClaimInvariant == Spec => []ClaimInv
BY ClaimInit, ClaimStep, PTL DEF Spec

\* What the compare-and-swap of a claim rests on: a picture whose row nobody
\* wrote shows the row's status and attempt, and the row is free to take.
THEOREM PicturesTrue == Spec => []PicturesAreTrue
<1>1. ClaimInv => PicturesAreTrue
  BY DEF ClaimInv
<1> QED BY <1>1, ClaimInvariant, PTL

\* The attempt column counts the hand-outs, and none exceeds max_attempts.
THEOREM HandOutsCounted == Spec => []AttemptsCountHandOuts
<1>1. ClaimInv => AttemptsCountHandOuts
  BY JobTableAssumption
     DEF JobTableAssumption, ClaimInv, AttemptsCounted, AttemptsCountHandOuts, TypeOK,
         JobRunnerTypeOK, Row, Attempt
<1> QED BY <1>1, ClaimInvariant, PTL

\* A dead letter was handed out max_attempts times.
THEOREM DeadLettersTried == Spec => []DeadLettersWereTried
<1>1. ClaimInv => DeadLettersWereTried
  BY DEF ClaimInv, AttemptsCounted, DeadLettersWereTried
<1> QED BY <1>1, ClaimInvariant, PTL

\* Only a claim hands a job out.
LEMMA StartsMove ==
  ASSUME [Next]_vars, ~ \E w \in Worker : Claim(w)
  PROVE  UNCHANGED starts
BY DEF Next, WorkerStep, SelectCandidate, WriteOff, LoseRace, LoadJob, ReturnJobEarly, BeginJob,
       ReportJobProgress, FinishJob, Heartbeat, HeartbeatError, Crash, Restart, Ask, Override, Tick,
       vars, historyVars

\* A claim takes a row that is free to take at that very moment, and counts it.
THEOREM ClaimsTakeFree == Spec => ClaimsTakeFreeJobs
<1> DEFINE TakesFree == \A j \in Job : starts'[j] # starts[j] =>
             Claimable(jobs[j]) /\ jobs'[j].attempt = jobs[j].attempt + 1
<1>1. ClaimInv /\ [Next]_vars => [TakesFree]_vars
  <2> SUFFICES ASSUME ClaimInv, [Next]_vars, NEW i \in Job, starts'[i] # starts[i]
               PROVE  Claimable(jobs[i]) /\ jobs'[i].attempt = jobs[i].attempt + 1
    OBVIOUS
  <2> USE DEF ClaimInv
  <2>1. PICK w \in Worker : Claim(w)
    BY StartsMove
  <2> DEFINE j == seen[w].job
             row == ClaimedRow(jobs[j], w, seen[w].attempt + 1, seen[w].lease)
  <2>2. /\ j \in Job /\ jobs[j] \in Row /\ jobs \in [Job -> Row]
        /\ seen[w] \in Picture /\ starts \in [Job -> Nat]
    BY <2>1 DEF Claim, TypeOK, JobRunnerTypeOK
  <2>3. i = j /\ WriteRow(j, row)
    BY <2>1, <2>2 DEF Claim
  <2>4. Claimable(jobs[j]) /\ jobs[j].attempt = seen[w].attempt
    BY <2>1 DEF Claim, Unmoved, PicturesAreTrue
  <2>5. seen[w].attempt + 1 \in Attempt /\ seen[w].lease \in Lease
    BY <2>1, <2>2, JobTableAssumption
       DEF JobTableAssumption, Claim, Exhausted, Picture, Attempt, Lease
  <2>6. row \in Row /\ row.attempt = seen[w].attempt + 1
    BY <2>2, <2>5, ClaimWrites, RowFields
  <2> HIDE DEF row
  <2> QED BY <2>2, <2>3, <2>4, <2>6, RowWritten
<1> QED BY <1>1, ClaimInvariant, PTL DEF Spec, ClaimsTakeFreeJobs
=============================================================================
