--------------------------- MODULE JobRequestsProofs ---------------------------
(***************************************************************************)
(* Lemmas about the job table, the runner and the requests, for the proofs *)
(* about the two processes that use them: what a statement leaves in a     *)
(* row, and that rows, threads and requests stay of their types.           *)
(***************************************************************************)
EXTENDS JobRequests, TLAPS

-----------------------------------------------------------------------------
(* The statements on one row yield rows again. *)

\* Which values the fields of a row may take.
LEMMA FieldValues ==
  /\ Active \subseteq Status /\ Terminal \subseteq Status /\ "absent" \in Status
  /\ "queued" \in Status /\ "running" \in Status /\ "dead_letter" \in Terminal
  /\ {"none", "retryable", "permanent", "stale"} \subseteq ErrorClass
  /\ 0 \in Attempt /\ 0 \in Age
  /\ NoWorker \in Owner /\ Worker \subseteq Owner
  /\ NoLease \in Lease /\ LeaseTicks \in Lease /\ Nat \subseteq Lease /\ Backoffs \subseteq Lease
BY JobTableAssumption
   DEF JobTableAssumption, Status, Active, Terminal, ErrorClass, Attempt, Age, Owner, Lease

\* create_background_job inserts a row.
LEMMA NewRows ==
  ASSUME NEW kind \in Kind
  PROVE  AbsentRow \in Row /\ QueuedRow(kind) \in Row
<1>1. "scan" \in Kind BY DEF Kind
<1> QED BY <1>1, FieldValues DEF AbsentRow, QueuedRow, NewRow, Row

\* The two updates of claim_next_background_job leave a row.
LEMMA ClaimWrites ==
  ASSUME NEW r \in Row, NEW w \in Worker, NEW a \in Attempt, NEW l \in Lease
  PROVE  /\ ClaimedRow(r, w, a, l) \in Row
         /\ ExhaustedRow(r) \in Row
BY FieldValues DEF ClaimedRow, ExhaustedRow, Row

\* So do heartbeats, progress, closing, retrying, and time.
LEMMA RunnerWrites ==
  ASSUME NEW r \in Row
  PROVE  /\ BeatenRow(r) \in Row
         /\ RunningRow(r) \in Row
         /\ \A status \in Terminal, error \in ErrorClass : ClosedRow(r, status, error) \in Row
         /\ \A b \in Backoffs : RetriedRow(r, b) \in Row
         /\ ElapsedRow(r) \in Row
<1>1. BeatenRow(r) \in Row /\ RunningRow(r) \in Row
  BY FieldValues DEF BeatenRow, RunningRow, Row
<1>2. \A status \in Terminal, error \in ErrorClass : ClosedRow(r, status, error) \in Row
  BY FieldValues DEF ClosedRow, Row
<1>3. \A b \in Backoffs : RetriedRow(r, b) \in Row
  <2> SUFFICES ASSUME NEW b \in Backoffs PROVE RetriedRow(r, b) \in Row
    OBVIOUS
  <2> DEFINE l == IF b = 0 THEN NoLease ELSE b
  <2>1. l \in Lease
    BY FieldValues
  <2>2. CASE r.attempt < MaxAttempts
    <3> HIDE DEF l
    <3>1. [r EXCEPT !.status = "queued", !.error = "retryable",
                    !.owner = NoWorker, !.age = 0, !.lease = l] \in Row
      BY <2>1, FieldValues DEF Row
    <3> QED BY <2>2, <3>1 DEF RetriedRow, l
  <2>3. CASE ~(r.attempt < MaxAttempts)
    BY <1>2, <2>3, FieldValues DEF RetriedRow
  <2> QED BY <2>2, <2>3
<1>4. ElapsedRow(r) \in Row
  <2> DEFINE l == IF r.lease > 0 THEN r.lease - 1 ELSE r.lease
             a == IF r.age > StaleTicks THEN r.age ELSE r.age + 1
  <2>1. l \in Lease
    BY DEF Row, Lease, NoLease
  <2>2. a \in Age
    <3>1. r.age \in Age BY DEF Row
    <3> QED BY <3>1, JobTableAssumption DEF JobTableAssumption, Age
  <2>3. CASE r.status \in Active
    <3> HIDE DEF l, a
    <3>1. [r EXCEPT !.lease = l, !.age = a] \in Row
      BY <2>1, <2>2 DEF Row
    <3> QED BY <2>3, <3>1 DEF ElapsedRow, l, a
  <2> QED BY <2>3 DEF ElapsedRow
<1> QED BY <1>1, <1>2, <1>3, <1>4

\* What update_background_job to a terminal status leaves.
LEMMA ClosedFields ==
  ASSUME NEW r \in Row, NEW status \in Terminal, NEW error \in ErrorClass
  PROVE  LET c == ClosedRow(r, status, error) IN
           c \in Row /\ c.status = status /\ c.attempt = r.attempt
BY FieldValues DEF ClosedRow, Row

\* What each statement does to the fields the invariants speak about.
LEMMA RowFields ==
  ASSUME NEW r \in Row
  PROVE  /\ \A w \in Worker, a \in Attempt, l \in Lease :
              LET c == ClaimedRow(r, w, a, l) IN
                /\ c.status = "running" /\ c.attempt = a /\ c.owner = w
                /\ c.lease = l /\ c.age = 0
         /\ LET e == ExhaustedRow(r) IN e.status = "dead_letter" /\ e.attempt = r.attempt
         /\ LET b == BeatenRow(r) IN
              /\ b.status = r.status /\ b.attempt = r.attempt /\ b.owner = r.owner
              /\ b.lease = LeaseTicks /\ b.age = 0
         /\ LET b == RunningRow(r) IN
              /\ b.status = "running" /\ b.attempt = r.attempt /\ b.owner = r.owner
              /\ b.lease = r.lease /\ b.age = 0
         /\ \A status \in Terminal, error \in ErrorClass :
              LET c == ClosedRow(r, status, error) IN c.status = status /\ c.attempt = r.attempt
         /\ \A b \in Backoffs :
              LET f == RetriedRow(r, b) IN
                /\ f.attempt = r.attempt
                /\ \/ f.status = "queued" /\ r.attempt < MaxAttempts
                   \/ f.status = "dead_letter" /\ r.attempt = MaxAttempts
         /\ LET e == ElapsedRow(r) IN
              /\ e.status = r.status /\ e.attempt = r.attempt /\ e.owner = r.owner
              /\ r.status \notin Active => e = r
              /\ r.status \in Active =>
                   /\ e.lease = IF r.lease > 0 THEN r.lease - 1 ELSE r.lease
                   /\ e.age = IF r.age > StaleTicks THEN r.age ELSE r.age + 1
<1>1. ~(r.attempt < MaxAttempts) => r.attempt = MaxAttempts
  BY JobTableAssumption DEF JobTableAssumption, Row, Attempt
<1>2. \A status \in Terminal, error \in ErrorClass :
        LET c == ClosedRow(r, status, error) IN c.status = status /\ c.attempt = r.attempt
  BY DEF ClosedRow, Row
<1>3. ASSUME NEW b \in Backoffs
      PROVE  LET f == RetriedRow(r, b) IN
               /\ f.attempt = r.attempt
               /\ \/ f.status = "queued" /\ r.attempt < MaxAttempts
                  \/ f.status = "dead_letter" /\ r.attempt = MaxAttempts
  <2>1. CASE r.attempt < MaxAttempts
    BY <2>1 DEF RetriedRow, Row
  <2>2. CASE ~(r.attempt < MaxAttempts)
    <3>1. RetriedRow(r, b) = ClosedRow(r, "dead_letter", "permanent")
      BY <2>2 DEF RetriedRow
    <3>2. "dead_letter" \in Terminal /\ "permanent" \in ErrorClass
      BY FieldValues
    <3>3. /\ ClosedRow(r, "dead_letter", "permanent").status = "dead_letter"
          /\ ClosedRow(r, "dead_letter", "permanent").attempt = r.attempt
      BY <1>2, <3>2
    <3> QED BY <1>1, <2>2, <3>1, <3>3
  <2> QED BY <2>1, <2>2
<1>4. LET e == ElapsedRow(r) IN
        /\ e.status = r.status /\ e.attempt = r.attempt /\ e.owner = r.owner
        /\ r.status \notin Active => e = r
        /\ r.status \in Active =>
             /\ e.lease = IF r.lease > 0 THEN r.lease - 1 ELSE r.lease
             /\ e.age = IF r.age > StaleTicks THEN r.age ELSE r.age + 1
  BY DEF ElapsedRow, Row
<1>5. \A w \in Worker, a \in Attempt, l \in Lease :
        LET c == ClaimedRow(r, w, a, l) IN
          /\ c.status = "running" /\ c.attempt = a /\ c.owner = w
          /\ c.lease = l /\ c.age = 0
  BY DEF ClaimedRow, Row
<1>6. LET e == ExhaustedRow(r) IN e.status = "dead_letter" /\ e.attempt = r.attempt
  BY DEF ExhaustedRow, Row
<1>7. LET b == BeatenRow(r) IN
        /\ b.status = r.status /\ b.attempt = r.attempt /\ b.owner = r.owner
        /\ b.lease = LeaseTicks /\ b.age = 0
  BY DEF BeatenRow, Row
<1>8. LET b == RunningRow(r) IN
        /\ b.status = "running" /\ b.attempt = r.attempt /\ b.owner = r.owner
        /\ b.lease = r.lease /\ b.age = 0
  BY DEF RunningRow, Row
<1> QED BY <1>2, <1>3, <1>4, <1>5, <1>6, <1>7, <1>8

-----------------------------------------------------------------------------
(* Types. *)

\* A write changes one row and no other.
LEMMA RowWritten ==
  ASSUME jobs \in [Job -> Row], NEW j \in Job, NEW row \in Row, WriteRow(j, row)
  PROVE  /\ jobs' \in [Job -> Row]
         /\ jobs'[j] = row
         /\ \A i \in Job \ {j} : jobs'[i] = jobs[i]
BY DEF WriteRow

\* The states a request passes through.
LEMMA ClientStates ==
  /\ IdleClient \in ClientState /\ IdleClient.pc = "idle"
  /\ \A kind \in Kind :
       CreatingClient(kind) \in ClientState /\ CreatingClient(kind).pc = "creating"
  /\ \A kind \in Kind, j \in Job \cup {NoJob}, next \in {"idle", "creating"},
        p \in {"expiring", "answering"} :
       [pc |-> p, kind |-> kind, job |-> j, next |-> next] \in ClientState
BY DEF IdleClient, CreatingClient, ClientState, Kind

\* The run_* methods keep the table and the threads well typed.
LEMMA RunnerTypes ==
  ASSUME JobRunnerTypeOK, NEW t \in Thread,
         Load(t) \/ ReturnEarly(t) \/ Begin(t) \/ ReportProgress(t) \/ Finish(t)
  PROVE  JobRunnerTypeOK'
<1> DEFINE j == held[t]
<1>1. ASSUME NEW p \in ThreadPC, pc' = [pc EXCEPT ![t] = p], held' = held,
             jobs' \in [Job -> Row], p \in Busy => held[t] \in Job
      PROVE  JobRunnerTypeOK'
  BY <1>1 DEF JobRunnerTypeOK
<1>2. ASSUME Release(t), jobs' \in [Job -> Row]
      PROVE  JobRunnerTypeOK'
  BY <1>2 DEF JobRunnerTypeOK, Release, ThreadPC, Busy
<1>3. ASSUME pc[t] \in Busy
      PROVE  j \in Job /\ jobs[j] \in Row
  BY <1>3 DEF JobRunnerTypeOK
<1>4. ASSUME pc[t] \in Busy, NEW row \in Row, WriteRow(j, row)
      PROVE  jobs' \in [Job -> Row]
  BY <1>3, <1>4, RowWritten DEF JobRunnerTypeOK
<1>5. CASE Load(t)
  BY <1>1, <1>3, <1>5 DEF Load, ThreadPC, Busy, JobRunnerTypeOK
<1>6. CASE ReturnEarly(t)
  BY <1>2, <1>6 DEF ReturnEarly, JobRunnerTypeOK
<1>7. CASE Begin(t)
  <2>1. pc[t] \in Busy BY <1>7 DEF Begin, Busy
  <2>2. jobs' \in [Job -> Row] BY <2>1, <1>3, <1>4, <1>7, RunnerWrites DEF Begin
  <2> QED BY <2>1, <2>2, <1>1, <1>3, <1>7 DEF Begin, ThreadPC, Busy
<1>8. CASE ReportProgress(t)
  <2>1. pc[t] \in Busy BY <1>8 DEF ReportProgress, Busy
  <2>2. jobs' \in [Job -> Row] BY <2>1, <1>3, <1>4, <1>8, RunnerWrites DEF ReportProgress
  <2> QED BY <2>2, <1>8 DEF ReportProgress, JobRunnerTypeOK
<1>9. CASE Finish(t)
  <2>1. pc[t] \in Busy BY <1>9 DEF Finish, Complete, FailPermanently, FailRetryably, MayFail, Busy
  <2>2. jobs[j] \in Row /\ jobs[j].error \in ErrorClass BY <2>1, <1>3 DEF Row
  <2>3. {"completed", "failed"} \subseteq Terminal /\ "permanent" \in ErrorClass
    BY DEF Terminal, ErrorClass
  <2>4. jobs' \in [Job -> Row] /\ Release(t)
    <3>1. CASE Complete(t)
      BY <3>1, <2>1, <2>2, <2>3, <1>4, RunnerWrites DEF Complete
    <3>2. CASE FailPermanently(t)
      BY <3>2, <2>1, <2>2, <2>3, <1>4, RunnerWrites DEF FailPermanently
    <3>3. CASE \E b \in Backoffs : FailRetryably(t, b)
      BY <3>3, <2>1, <2>2, <1>4, RunnerWrites DEF FailRetryably
    <3> QED BY <1>9, <3>1, <3>2, <3>3 DEF Finish
  <2> QED BY <2>4, <1>2
<1> QED BY <1>5, <1>6, <1>7, <1>8, <1>9

\* So do the API requests, whatever becomes of the threads at the same time.
LEMMA RequestWrites ==
  ASSUME JobRunnerTypeOK, JobRequestsTypeOK, NEW c \in Client,
         \/ \E kind \in Kind, next \in {"idle", "creating"} : FindStale(c, kind, next)
         \/ \E kind \in Kind : FindNone(c, kind)
         \/ \E j \in Job : CreateJob(c, j) \/ CreateProfileJob(c, j) \/ CreateAnsweredJob(c, j)
         \/ ExpireStale(c)
         \/ AnswerFromStore(c)
  PROVE  jobs' \in [Job -> Row] /\ JobRequestsTypeOK'
<1>2. ASSUME NEW state \in ClientState, SetClient(c, state),
             state.pc \in {"expiring", "answering"} => state.job \in Job
      PROVE  JobRequestsTypeOK'
  BY <1>2 DEF JobRequestsTypeOK, SetClient
<1>3. ASSUME NEW kind \in Kind, NEW j \in Job, Create(kind, j)
      PROVE  jobs' \in [Job -> Row]
  BY <1>3, NewRows, RowWritten DEF Create, JobRunnerTypeOK
<1>4. client[c] \in ClientState /\ client[c].kind \in Kind /\ client[c].next \in {"idle", "creating"}
  BY DEF JobRequestsTypeOK, ClientState
<1>5. ASSUME NEW state \in {"expiring", "answering"}, client[c].pc = state,
             NEW status \in Terminal, NEW error \in ErrorClass,
             WriteRow(client[c].job, ClosedRow(jobs[client[c].job], status, error))
      PROVE  jobs' \in [Job -> Row]
  <2> DEFINE j == client[c].job
  <2>1. j \in Job /\ jobs[j] \in Row
    BY <1>5 DEF JobRequestsTypeOK, JobRunnerTypeOK
  <2>2. ClosedRow(jobs[j], status, error) \in Row
    BY <2>1, RunnerWrites
  <2> QED BY <1>5, <2>1, <2>2, RowWritten DEF JobRunnerTypeOK
<1>6. CASE \E kind \in Kind, next \in {"idle", "creating"} : FindStale(c, kind, next)
  <2> PICK kind \in Kind, next \in {"idle", "creating"} : FindStale(c, kind, next)
    BY <1>6
  <2>1. PICK j \in Job :
          SetClient(c, [pc |-> "expiring", kind |-> kind, job |-> j, next |-> next])
    BY DEF FindStale, Newest, ActiveOf
  <2>2. [pc |-> "expiring", kind |-> kind, job |-> j, next |-> next] \in ClientState
    BY ClientStates
  <2> QED BY <1>2, <2>1, <2>2 DEF FindStale, JobRunnerTypeOK
<1>7. CASE \E kind \in Kind : FindNone(c, kind)
  BY <1>2, <1>7, ClientStates DEF FindNone, JobRunnerTypeOK
<1>8. CASE \E j \in Job : CreateJob(c, j)
  <2> PICK j \in Job : CreateJob(c, j) BY <1>8
  <2>1. jobs' \in [Job -> Row] BY <1>3, <1>4 DEF CreateJob
  <2> QED BY <1>2, <2>1, ClientStates DEF CreateJob
<1>9. CASE \E j \in Job : CreateProfileJob(c, j)
  <2> PICK j \in Job : CreateProfileJob(c, j) BY <1>9
  <2>1. jobs' \in [Job -> Row] BY <1>3 DEF CreateProfileJob, Kind
  <2> QED BY <2>1 DEF CreateProfileJob, JobRequestsTypeOK
<1>10. CASE \E j \in Job : CreateAnsweredJob(c, j)
  <2> PICK j \in Job : CreateAnsweredJob(c, j) BY <1>10
  <2>1. jobs' \in [Job -> Row] BY <1>3 DEF CreateAnsweredJob, Kind
  <2>2. [pc |-> "answering", kind |-> "profile_generation", job |-> j, next |-> "idle"]
          \in ClientState
    BY ClientStates DEF Kind
  <2> QED BY <1>2, <2>1, <2>2 DEF CreateAnsweredJob
<1>11. CASE ExpireStale(c)
  <2>1. jobs' \in [Job -> Row] BY <1>5, <1>11 DEF ExpireStale, Terminal, ErrorClass
  <2> QED BY <1>2, <1>4, <1>11, <2>1, ClientStates DEF ExpireStale
<1>12. CASE AnswerFromStore(c)
  <2>1. jobs[client[c].job].error \in ErrorClass
    BY <1>12 DEF AnswerFromStore, JobRequestsTypeOK, JobRunnerTypeOK, Row
  <2>2. jobs' \in [Job -> Row] BY <1>5, <1>12, <2>1 DEF AnswerFromStore, Terminal
  <2> QED BY <1>2, <1>12, <2>2, ClientStates DEF AnswerFromStore
<1> QED BY <1>6, <1>7, <1>8, <1>9, <1>10, <1>11, <1>12

LEMMA RequestTypes ==
  ASSUME JobRunnerTypeOK, JobRequestsTypeOK, NEW c \in Client, UNCHANGED <<pc, held>>,
         \/ \E kind \in Kind, next \in {"idle", "creating"} : FindStale(c, kind, next)
         \/ \E kind \in Kind : FindNone(c, kind)
         \/ \E j \in Job : CreateJob(c, j) \/ CreateProfileJob(c, j) \/ CreateAnsweredJob(c, j)
         \/ ExpireStale(c)
         \/ AnswerFromStore(c)
  PROVE  JobRunnerTypeOK' /\ JobRequestsTypeOK'
BY RequestWrites DEF JobRunnerTypeOK

\* The clock and the recovery leave rows, and no statement but the first changes
\* what kind of job a row is.
LEMMA RowKinds ==
  ASSUME NEW r \in Row
  PROVE  /\ RunningRow(r).kind = r.kind
         /\ \A status \in Terminal, error \in ErrorClass : ClosedRow(r, status, error).kind = r.kind
         /\ \A b \in Backoffs : RetriedRow(r, b).kind = r.kind
         /\ ElapsedRow(r).kind = r.kind /\ ElapsedRow(r) \in Row
         /\ ElapsedRow(r).status = r.status
<1>1. /\ RunningRow(r).kind = r.kind
      /\ \A status \in Terminal, error \in ErrorClass : ClosedRow(r, status, error).kind = r.kind
  BY DEF RunningRow, ClosedRow, Row
<1>2. \A b \in Backoffs : RetriedRow(r, b).kind = r.kind
  BY DEF RetriedRow, ClosedRow, Row
<1>3. ElapsedRow(r).kind = r.kind
  BY DEF ElapsedRow, Row
<1> QED BY <1>1, <1>2, <1>3, RunnerWrites, RowFields

LEMMA RecoveredRows ==
  ASSUME NEW r \in Row
  PROVE  /\ RecoveredRow(r) \in Row
         /\ RecoveredRow(r).kind = r.kind
         /\ RecoveredRow(r).status # "running"
         /\ r.status # "absent" => RecoveredRow(r).status # "absent"
<1>1. CASE r.status # "running"
  BY <1>1 DEF RecoveredRow
<1>2. CASE r.status = "running" /\ r.attempt < MaxAttempts
  <2>1. RecoveredRow(r) = [r EXCEPT !.status = "queued", !.error = "retryable",
                                    !.owner = NoWorker, !.lease = NoLease]
    BY <1>2 DEF RecoveredRow
  <2>2. "queued" \in Status /\ "retryable" \in ErrorClass /\ NoWorker \in Owner
        /\ NoLease \in Lease
    BY FieldValues
  <2> QED BY <2>1, <2>2 DEF Row
<1>3. CASE r.status = "running" /\ ~(r.attempt < MaxAttempts)
  <2>1. RecoveredRow(r) = ClosedRow(r, "dead_letter", "permanent")
    BY <1>3 DEF RecoveredRow
  <2>2. "dead_letter" \in Terminal /\ "permanent" \in ErrorClass
    BY FieldValues
  <2> QED BY <2>1, <2>2, ClosedFields, RowKinds
<1> QED BY <1>1, <1>2, <1>3
=============================================================================
