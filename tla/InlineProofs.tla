------------------------------ MODULE InlineProofs ------------------------------
(***************************************************************************)
(* What holds of an API process in inline mode for any number of tasks,    *)
(* clients and jobs.                                                       *)
(*                                                                         *)
(* That no task generates an answered profile is not inductive: it needs   *)
(* that no two tasks ever share a profile job (OneTaskEach), which in turn *)
(* needs that a job exists before anybody is given it (GivenJobsExist).    *)
(***************************************************************************)
EXTENDS InlineQueue, JobRequestsProofs

-----------------------------------------------------------------------------
(* The inductive invariant *)

IsProfile(j) == jobs[j].kind = "profile_generation"

\* Tasks and requests are given jobs that exist.
GivenJobsExist ==
  /\ \A t \in Thread : pc[t] \in Busy => jobs[held[t]].status # "absent"
  /\ \A c \in Client : client[c].pc \in {"expiring", "answering"} =>
       jobs[client[c].job].status # "absent"

\* A profile job has one task, and none until its request has answered it.
OneTaskEach ==
  /\ \A t, u \in Thread :
       pc[t] \in Busy /\ pc[u] \in Busy /\ held[t] = held[u] /\ IsProfile(held[t]) => t = u
  /\ \A c \in Client : client[c].pc = "answering" =>
       /\ IsProfile(client[c].job)
       /\ \A t \in Thread : pc[t] \in Busy => held[t] # client[c].job
  /\ \A c, d \in Client :
       client[c].pc = "answering" /\ client[d].pc = "answering" /\ client[c].job = client[d].job
         => c = d

\* What a task has read of its profile job stays true while it works on it.
LoadedAreOpen ==
  \A t \in Thread : pc[t] \in {"loaded", "executing"} /\ IsProfile(held[t]) =>
    jobs[held[t]].status # "completed"

InlineInv ==
  /\ InlineTypeOK /\ RunningJobsAreExecuted
  /\ GivenJobsExist /\ OneTaskEach /\ LoadedAreOpen

-----------------------------------------------------------------------------
(* What a step may do without disturbing it *)

\* Thread t is given a job that nobody else works on, if it is a profile job.
IsGiven(t) ==
  /\ pc'[t] = "claimed" /\ held'[t] \in Job
  /\ jobs'[held'[t]].status # "absent"
  /\ IsProfile(held[t])' =>
       /\ \A u \in Thread \ {t} : pc'[u] \in Busy => held'[u] # held'[t]
       /\ \A c \in Client : client'[c].pc = "answering" => client'[c].job # held'[t]

\* Client c will answer a profile job that nobody else knows.
WillAnswer(c) ==
  LET j == client'[c].job IN
  /\ j \in Job /\ jobs'[j].status # "absent" /\ IsProfile(client[c].job)'
  /\ \A t \in Thread : pc'[t] \in Busy => held'[t] # j
  /\ \A d \in Client \ {c} : client'[d].pc = "answering" => client'[d].job # j

Undisturbing ==
  /\ \A j \in Job : jobs[j].status # "absent" =>
       jobs'[j].status # "absent" /\ jobs'[j].kind = jobs[j].kind
  /\ \A j \in Job : jobs'[j].status = "running" =>
       \/ jobs[j].status = "running" /\ (j \in aborted => j \in aborted')
       \/ \E t \in Thread : pc'[t] = "executing" /\ held'[t] = j
  /\ \A t \in Thread : pc'[t] \in Busy =>
       \/ pc[t] \in Busy /\ held'[t] = held[t]
       \/ IsGiven(t)
  /\ \A t \in Thread : pc[t] = "executing" =>
       \/ pc'[t] = "executing"
       \/ jobs'[held[t]].status # "running" \/ held[t] \in aborted'
  /\ \A t \in Thread : pc'[t] \in {"loaded", "executing"} /\ IsProfile(held[t]) =>
       jobs'[held[t]].status # "completed"
  /\ \A c \in Client : client'[c].pc = "expiring" =>
       client'[c].job \in Job /\ jobs'[client'[c].job].status # "absent"
  /\ \A c \in Client : client'[c].pc = "answering" =>
       \/ client[c].pc = "answering" /\ client'[c].job = client[c].job
       \/ WillAnswer(c)

LEMMA UndisturbingSteps ==
  ASSUME InlineInv, InlineTypeOK', Undisturbing
  PROVE  InlineInv'
<1>1. \A t \in Thread : pc[t] \in Busy => held[t] \in Job /\ jobs[held[t]].status # "absent"
  BY DEF InlineInv, InlineTypeOK, JobRunnerTypeOK, GivenJobsExist
<1>2. \A c \in Client : client[c].pc \in {"expiring", "answering"} =>
        client[c].job \in Job /\ jobs[client[c].job].status # "absent"
  BY DEF InlineInv, InlineTypeOK, JobRequestsTypeOK, GivenJobsExist
<1>3. RunningJobsAreExecuted'
  <2> SUFFICES ASSUME NEW j \in Job, jobs'[j].status = "running", j \notin aborted'
               PROVE  \E t \in Thread : pc'[t] = "executing" /\ held'[t] = j
    BY DEF RunningJobsAreExecuted, WorkingOn
  <2>1. CASE jobs[j].status = "running" /\ j \notin aborted
    <3>1. PICK t \in Thread : pc[t] = "executing" /\ held[t] = j
      BY <2>1 DEF InlineInv, RunningJobsAreExecuted, WorkingOn
    <3>2. pc'[t] = "executing"
      BY <3>1 DEF Undisturbing
    <3>3. held'[t] = held[t]
      BY <3>2 DEF Undisturbing, IsGiven, Busy
    <3> QED BY <3>1, <3>2, <3>3
  <2> QED BY <2>1 DEF Undisturbing
<1>4. GivenJobsExist'
  <2>1. ASSUME NEW t \in Thread, pc'[t] \in Busy PROVE jobs'[held'[t]].status # "absent"
    BY <1>1, <2>1 DEF Undisturbing, IsGiven
  <2>2. ASSUME NEW c \in Client, client'[c].pc \in {"expiring", "answering"}
        PROVE  jobs'[client'[c].job].status # "absent"
    BY <1>2, <2>2 DEF Undisturbing, WillAnswer
  <2> QED BY <2>1, <2>2 DEF GivenJobsExist
<1>5. LoadedAreOpen'
  <2> SUFFICES ASSUME NEW t \in Thread, pc'[t] \in {"loaded", "executing"}, IsProfile(held[t])'
               PROVE  jobs'[held'[t]].status # "completed"
    BY DEF LoadedAreOpen
  <2>1. pc[t] \in Busy /\ held'[t] = held[t]
    BY DEF Undisturbing, IsGiven, Busy
  <2>2. IsProfile(held[t])
    BY <1>1, <2>1 DEF Undisturbing, IsProfile
  <2> QED BY <2>1, <2>2 DEF Undisturbing
<1>6. \A t \in Thread : pc'[t] \in Busy /\ ~IsGiven(t) =>
        /\ pc[t] \in Busy /\ held'[t] = held[t]
        /\ IsProfile(held[t])' <=> IsProfile(held[t])
  BY <1>1 DEF Undisturbing, IsProfile
<1>7. \A c \in Client : client'[c].pc = "answering" /\ ~WillAnswer(c) =>
        /\ client[c].pc = "answering" /\ client'[c].job = client[c].job
        /\ IsProfile(client[c].job)' <=> IsProfile(client[c].job)
  BY <1>2 DEF Undisturbing, IsProfile
<1>8. ASSUME NEW t \in Thread, NEW u \in Thread, pc'[t] \in Busy, pc'[u] \in Busy,
             held'[t] = held'[u], IsProfile(held[t])'
      PROVE  t = u
  <2>1. CASE IsGiven(t) \/ IsGiven(u)
    BY <1>8, <2>1 DEF IsGiven, IsProfile
  <2>2. CASE ~IsGiven(t) /\ ~IsGiven(u)
    <3>1. /\ pc[t] \in Busy /\ pc[u] \in Busy /\ held[t] = held[u]
          /\ IsProfile(held[t])
      BY <1>6, <1>8, <2>2
    <3> QED BY <3>1 DEF InlineInv, OneTaskEach
  <2> QED BY <2>1, <2>2
<1>9. ASSUME NEW c \in Client, client'[c].pc = "answering"
      PROVE  /\ IsProfile(client[c].job)'
             /\ \A t \in Thread : pc'[t] \in Busy => held'[t] # client'[c].job
  <2>1. IsProfile(client[c].job)'
    <3>1. CASE WillAnswer(c)
      BY <3>1 DEF WillAnswer, IsProfile
    <3>2. CASE ~WillAnswer(c)
      <4>1. client[c].pc = "answering" /\ client'[c].job = client[c].job
            /\ (IsProfile(client[c].job)' <=> IsProfile(client[c].job))
        BY <1>7, <1>9, <3>2
      <4> QED BY <4>1 DEF InlineInv, OneTaskEach
    <3> QED BY <3>1, <3>2
  <2>2. ASSUME NEW t \in Thread, pc'[t] \in Busy PROVE held'[t] # client'[c].job
    <3>1. CASE WillAnswer(c)
      BY <2>2, <3>1 DEF WillAnswer
    <3>2. CASE IsGiven(t)
      BY <1>9, <2>1, <3>2 DEF IsGiven, IsProfile
    <3>3. CASE ~WillAnswer(c) /\ ~IsGiven(t)
      <4>1. client[c].pc = "answering" /\ client'[c].job = client[c].job
        BY <1>7, <1>9, <3>3
      <4>2. pc[t] \in Busy /\ held'[t] = held[t]
        BY <1>6, <2>2, <3>3
      <4> QED BY <4>1, <4>2 DEF InlineInv, OneTaskEach
    <3> QED BY <3>1, <3>2, <3>3
  <2> QED BY <2>1, <2>2
<1>10. ASSUME NEW c \in Client, NEW d \in Client, client'[c].pc = "answering",
              client'[d].pc = "answering", client'[c].job = client'[d].job
       PROVE  c = d
  <2>1. CASE WillAnswer(c) \/ WillAnswer(d)
    BY <1>10, <2>1 DEF WillAnswer
  <2>2. CASE ~WillAnswer(c) /\ ~WillAnswer(d)
    BY <1>7, <1>10, <2>2 DEF InlineInv, OneTaskEach
  <2> QED BY <2>1, <2>2
<1>11. OneTaskEach'
  BY <1>8, <1>9, <1>10 DEF OneTaskEach
<1> QED BY <1>3, <1>4, <1>5, <1>11 DEF InlineInv

-----------------------------------------------------------------------------
(* The steps of a task *)

\* What a task writes into the row of its job.
LEMMA TaskWrites ==
  ASSUME JobRunnerTypeOK, NEW t \in Thread, Begin(t) \/ ReportProgress(t) \/ Finish(t)
  PROVE  /\ held[t] \in Job /\ pc[t] \in Busy
         /\ \E row \in Row :
              /\ WriteRow(held[t], row)
              /\ row.kind = jobs[held[t]].kind
              /\ row.status # "absent"
              /\ Begin(t) \/ ReportProgress(t) => row.status = "running"
              /\ Finish(t) => row.status # "running"
<1> DEFINE j == held[t]
<1>1. pc[t] \in Busy /\ j \in Job /\ jobs[j] \in Row
  BY DEF JobRunnerTypeOK, Begin, ReportProgress, Finish, Complete, FailPermanently,
         FailRetryably, MayFail, Busy
<1>2. CASE Begin(t) \/ ReportProgress(t)
  <2> DEFINE row == RunningRow(jobs[j])
  <2>1. row \in Row /\ row.kind = jobs[j].kind /\ row.status = "running"
    BY <1>1, RunnerWrites, RowKinds, RowFields
  <2>2. WriteRow(j, row)
    BY <1>2 DEF Begin, ReportProgress
  <2>3. ~Finish(t)
    <3>1. ASSUME Finish(t) PROVE pc'[t] = "idle"
      BY <1>1, <3>1 DEF Finish, Complete, FailPermanently, FailRetryably, Release, JobRunnerTypeOK
    <3>2. pc'[t] = "executing"
      BY <1>2 DEF Begin, ReportProgress, JobRunnerTypeOK
    <3> QED BY <3>1, <3>2
  <2> HIDE DEF row
  <2> QED BY <1>1, <2>1, <2>2, <2>3
<1>3. ASSUME NEW row \in Row, WriteRow(j, row), row.kind = jobs[j].kind,
             row.status \in {"completed", "failed", "queued", "dead_letter"}, Finish(t)
      PROVE  \E r \in Row :
              /\ WriteRow(held[t], r)
              /\ r.kind = jobs[held[t]].kind
              /\ r.status # "absent"
              /\ Begin(t) \/ ReportProgress(t) => r.status = "running"
              /\ Finish(t) => r.status # "running"
  <2>1. pc'[t] = "idle"
    BY <1>3 DEF Finish, Complete, FailPermanently, FailRetryably, Release, JobRunnerTypeOK
  <2>2. ~(Begin(t) \/ ReportProgress(t))
    BY <2>1 DEF Begin, ReportProgress, JobRunnerTypeOK
  <2> QED BY <1>3, <2>2
<1>4. CASE Finish(t)
  <2>1. CASE Complete(t)
    <3> DEFINE row == ClosedRow(jobs[j], "completed", jobs[j].error)
    <3>1. "completed" \in Terminal /\ jobs[j].error \in ErrorClass
      BY <1>1 DEF Terminal, Row
    <3>2. row \in Row /\ row.kind = jobs[j].kind /\ row.status = "completed"
      BY <1>1, <3>1, ClosedFields, RowKinds
    <3>3. WriteRow(j, row)
      BY <2>1 DEF Complete
    <3> HIDE DEF row
    <3> QED BY <1>1, <1>3, <1>4, <3>2, <3>3
  <2>2. CASE FailPermanently(t)
    <3> DEFINE row == ClosedRow(jobs[j], "failed", "permanent")
    <3>1. "failed" \in Terminal /\ "permanent" \in ErrorClass
      BY DEF Terminal, ErrorClass
    <3>2. row \in Row /\ row.kind = jobs[j].kind /\ row.status = "failed"
      BY <1>1, <3>1, ClosedFields, RowKinds
    <3>3. WriteRow(j, row)
      BY <2>2 DEF FailPermanently
    <3> HIDE DEF row
    <3> QED BY <1>1, <1>3, <1>4, <3>2, <3>3
  <2>3. CASE \E b \in Backoffs : FailRetryably(t, b)
    <3> PICK b \in Backoffs : FailRetryably(t, b)
      BY <2>3
    <3> DEFINE row == RetriedRow(jobs[j], b)
    <3>1. row \in Row /\ row.kind = jobs[j].kind /\ row.status \in {"queued", "dead_letter"}
      <4>1. row \in Row /\ row.kind = jobs[j].kind
        BY <1>1, RowKinds, RunnerWrites
      <4>2. row.status \in {"queued", "dead_letter"}
        BY <1>1, RowFields
      <4> QED BY <4>1, <4>2
    <3>2. WriteRow(j, row)
      BY DEF FailRetryably
    <3> HIDE DEF row
    <3> QED BY <1>1, <1>3, <1>4, <3>1, <3>2
  <2> QED BY <1>4, <2>1, <2>2, <2>3 DEF Finish
<1> QED BY <1>1, <1>2, <1>4

\* Facts about the state that every step starts from.
LEMMA BusyThreads ==
  ASSUME InlineInv
  PROVE  /\ jobs \in [Job -> Row] /\ pc \in [Thread -> ThreadPC]
         /\ held \in [Thread -> Job \cup {NoJob}]
         /\ \A t \in Thread : pc[t] \in Busy =>
              held[t] \in Job /\ jobs[held[t]].status # "absent"
         /\ \A c \in Client : client[c].pc \in {"expiring", "answering"} =>
              client[c].job \in Job /\ jobs[client[c].job].status # "absent"
BY DEF InlineInv, InlineTypeOK, JobRunnerTypeOK, JobRequestsTypeOK, GivenJobsExist

\* A task reads its job or returns at once: it writes nothing.
LEMMA ReadTaskKeeps ==
  ASSUME InlineInv, NEW t \in Thread, Load(t) \/ ReturnEarly(t),
         UNCHANGED <<client, aborted>>, InlineTypeOK'
  PROVE  InlineInv'
<1>1. /\ UNCHANGED jobs /\ \A u \in Thread \ {t} : pc'[u] = pc[u] /\ held'[u] = held[u]
      /\ pc[t] = "claimed"
      /\ \/ pc'[t] = "idle"
         \/ /\ pc'[t] = "loaded" /\ held'[t] = held[t]
            /\ IsProfile(held[t]) => jobs[held[t]].status # "completed"
  BY BusyThreads DEF Load, ReturnEarly, Release, IsProfile
<1>2. \A u \in Thread : pc'[u] = "executing" <=> pc[u] = "executing"
  BY <1>1
<1>3. Undisturbing
  BY <1>1, <1>2, BusyThreads DEF Undisturbing, Busy, InlineInv, LoadedAreOpen, RunningJobsAreExecuted
<1> QED BY <1>3, UndisturbingSteps

LEMMA RunTaskKeeps ==
  ASSUME InlineInv, NEW t \in Thread, Begin(t) \/ ReportProgress(t) \/ Finish(t),
         UNCHANGED <<client, aborted>>, InlineTypeOK'
  PROVE  InlineInv'
<1> DEFINE j == held[t]
<1>1. JobRunnerTypeOK
  BY DEF InlineInv, InlineTypeOK
<1>2. PICK row \in Row :
        /\ WriteRow(j, row) /\ row.kind = jobs[j].kind /\ row.status # "absent"
        /\ Begin(t) \/ ReportProgress(t) => row.status = "running"
        /\ Finish(t) => row.status # "running"
  BY <1>1, TaskWrites
<1>3. j \in Job /\ pc[t] \in Busy /\ jobs'[j] = row /\ \A i \in Job \ {j} : jobs'[i] = jobs[i]
  BY <1>1, <1>2, TaskWrites, RowWritten DEF JobRunnerTypeOK
<1>4. /\ \A u \in Thread \ {t} : pc'[u] = pc[u] /\ held'[u] = held[u]
      /\ \/ pc'[t] = "idle" /\ row.status # "running"
         \/ pc'[t] = "executing" /\ held'[t] = held[t] /\ row.status = "running"
  <2>1. CASE Begin(t) \/ ReportProgress(t)
    BY <1>2, <2>1, BusyThreads DEF Begin, ReportProgress
  <2>2. CASE Finish(t)
    BY <1>2, <2>2, BusyThreads DEF Finish, Complete, FailPermanently, FailRetryably, Release
  <2> QED BY <2>1, <2>2
<1>5. \A i \in Job : jobs[i].status # "absent" =>
        jobs'[i].status # "absent" /\ jobs'[i].kind = jobs[i].kind
  BY <1>2, <1>3
<1>6. ASSUME NEW u \in Thread, pc'[u] \in {"loaded", "executing"}, IsProfile(held[u])
      PROVE  jobs'[held[u]].status # "completed"
  <2>1. CASE u = t
    BY <1>3, <1>4, <1>6, <2>1
  <2>2. CASE u # t /\ held[u] = j
    BY <1>3, <1>4, <1>6, <2>2 DEF InlineInv, OneTaskEach, Busy
  <2>3. CASE u # t /\ held[u] # j
    <3>1. pc[u] \in {"loaded", "executing"} /\ held[u] \in Job
      BY <1>4, <1>6, <2>3, BusyThreads DEF Busy
    <3> QED BY <1>3, <1>6, <2>3, <3>1 DEF InlineInv, LoadedAreOpen
  <2> QED BY <2>1, <2>2, <2>3
<1>7. \A i \in Job : jobs'[i].status = "running" =>
        \/ jobs[i].status = "running" /\ (i \in aborted => i \in aborted')
        \/ \E u \in Thread : pc'[u] = "executing" /\ held'[u] = i
  BY <1>3, <1>4
<1>8. \A u \in Thread : pc'[u] \in Busy => pc[u] \in Busy /\ held'[u] = held[u]
  BY <1>3, <1>4 DEF Busy
<1>9. \A u \in Thread : pc[u] = "executing" =>
        pc'[u] = "executing" \/ jobs'[held[u]].status # "running"
  BY <1>3, <1>4
<1>10. Undisturbing
  BY <1>5, <1>6, <1>7, <1>8, <1>9, BusyThreads DEF Undisturbing
<1> QED BY <1>10, UndisturbingSteps

\* A task ends without a word: its job is one of those nobody answers for.
LEMMA AbortTaskKeeps ==
  ASSUME InlineInv, NEW t \in Thread, AbortTask(t), InlineTypeOK'
  PROVE  InlineInv'
<1>1. /\ UNCHANGED <<jobs, client>> /\ aborted' = aborted \cup {held[t]}
      /\ pc'[t] = "idle" /\ \A u \in Thread \ {t} : pc'[u] = pc[u] /\ held'[u] = held[u]
  BY BusyThreads DEF AbortTask, Release
<1>2. \A u \in Thread : pc[u] = "executing" => pc'[u] = "executing" \/ held[u] \in aborted'
  BY <1>1
<1>3. \A u \in Thread : pc'[u] \in {"loaded", "executing"} => pc[u] = pc'[u]
  BY <1>1
<1>4. Undisturbing
  BY <1>1, <1>2, <1>3, BusyThreads DEF Undisturbing, Busy, InlineInv, LoadedAreOpen
<1> QED BY <1>4, UndisturbingSteps

-----------------------------------------------------------------------------
(* The steps of a request *)

\* A row that is created is nobody's yet.
LEMMA CreatedRow ==
  ASSUME InlineInv, NEW kind \in Kind, NEW j \in Job, Create(kind, j)
  PROVE  /\ jobs[j].status = "absent"
         /\ jobs'[j].status = "queued" /\ jobs'[j].kind = kind
         /\ \A i \in Job \ {j} : jobs'[i] = jobs[i]
         /\ \A t \in Thread : pc[t] \in Busy => held[t] # j
         /\ \A c \in Client : client[c].pc \in {"expiring", "answering"} => client[c].job # j
<1>1. QueuedRow(kind) \in Row /\ QueuedRow(kind).status = "queued" /\ QueuedRow(kind).kind = kind
  BY NewRows DEF QueuedRow, NewRow
<1>2. jobs[j].status = "absent" /\ WriteRow(j, QueuedRow(kind))
  BY DEF Create
<1> QED BY <1>1, <1>2, BusyThreads, RowWritten

\* A request closes the row of a job that is there.
LEMMA ClosedByRequest ==
  ASSUME InlineInv, NEW c \in Client, ExpireStale(c) \/ AnswerFromStore(c)
  PROVE  LET j == client[c].job IN
         /\ j \in Job /\ jobs[j].status # "absent"
         /\ jobs'[j].kind = jobs[j].kind
         /\ jobs'[j].status \in {"failed", "completed"}
         /\ ExpireStale(c) => jobs'[j].status = "failed"
         /\ \A i \in Job \ {j} : jobs'[i] = jobs[i]
<1> DEFINE j == client[c].job
<1>1. client[c].pc \in {"expiring", "answering"}
  BY DEF ExpireStale, AnswerFromStore
<1>2. j \in Job /\ jobs[j].status # "absent" /\ jobs[j] \in Row
  BY <1>1, BusyThreads
<1>3. CASE ExpireStale(c)
  <2> DEFINE row == ClosedRow(jobs[j], "failed", "stale")
  <2>1. "failed" \in Terminal /\ "stale" \in ErrorClass
    BY DEF Terminal, ErrorClass
  <2>2. row \in Row /\ row.kind = jobs[j].kind /\ row.status = "failed"
    <3>1. row \in Row /\ row.status = "failed"
      BY <1>2, <2>1, ClosedFields
    <3>2. row.kind = jobs[j].kind
      BY <1>2, <2>1, RowKinds
    <3> QED BY <3>1, <3>2
  <2>3. WriteRow(j, row)
    BY <1>3 DEF ExpireStale
  <2> HIDE DEF row
  <2> QED BY <1>2, <2>2, <2>3, RowWritten, BusyThreads
<1>4. CASE AnswerFromStore(c)
  <2> DEFINE row == ClosedRow(jobs[j], "completed", jobs[j].error)
  <2>1. "completed" \in Terminal /\ jobs[j].error \in ErrorClass
    BY <1>2 DEF Terminal, Row
  <2>2. row \in Row /\ row.kind = jobs[j].kind /\ row.status = "completed"
    <3>1. row \in Row /\ row.status = "completed"
      BY <1>2, <2>1, ClosedFields
    <3>2. row.kind = jobs[j].kind
      BY <1>2, <2>1, RowKinds
    <3> QED BY <3>1, <3>2
  <2>3. WriteRow(j, row)
    BY <1>4 DEF AnswerFromStore
  <2>4. ~ExpireStale(c)
    BY <1>4 DEF AnswerFromStore, ExpireStale
  <2> HIDE DEF row
  <2> QED BY <1>2, <2>2, <2>3, <2>4, RowWritten, BusyThreads
<1> QED BY <1>3, <1>4

\* How a request goes on.
LEMMA OneClientMoves ==
  ASSUME client \in [Client -> ClientState], NEW c \in Client, NEW state, SetClient(c, state)
  PROVE  client'[c] = state /\ \A d \in Client \ {c} : client'[d] = client[d]
BY DEF SetClient

LEMMA LookKeeps ==
  ASSUME InlineInv, NEW c \in Client, Look(c), InlineTypeOK'
  PROVE  InlineInv'
<1>0. UNCHANGED <<pc, held, aborted>> /\ client \in [Client -> ClientState]
  BY DEF Look, processVars, InlineInv, InlineTypeOK, JobRequestsTypeOK
<1>1. ASSUME NEW kind \in Kind, NEW next \in {"idle", "creating"}, FindStale(c, kind, next)
      PROVE  InlineInv'
  <2>1. PICK j \in Newest(kind) :
          SetClient(c, [pc |-> "expiring", kind |-> kind, job |-> j, next |-> next])
    BY <1>1 DEF FindStale
  <2>2. j \in Job /\ jobs[j].status # "absent"
    BY DEF Newest, ActiveOf, Active
  <2>3. /\ client'[c].pc = "expiring" /\ client'[c].job = j
        /\ \A d \in Client \ {c} : client'[d] = client[d]
    BY <1>0, <2>1, OneClientMoves
  <2>4. jobs' = jobs
    BY <1>1 DEF FindStale
  <2>5. Undisturbing
    BY <1>0, <2>2, <2>3, <2>4, BusyThreads DEF Undisturbing, InlineInv, LoadedAreOpen
  <2> QED BY <2>5, UndisturbingSteps
<1>2. ASSUME NEW kind \in Kind, FindNone(c, kind)
      PROVE  InlineInv'
  <2>1. client'[c].pc = "creating" /\ \A d \in Client \ {c} : client'[d] = client[d]
    <3>1. SetClient(c, CreatingClient(kind)) /\ CreatingClient(kind).pc = "creating"
      BY <1>2, ClientStates DEF FindNone
    <3> QED BY <1>0, <3>1, OneClientMoves
  <2>2. jobs' = jobs
    BY <1>2 DEF FindNone
  <2>3. Undisturbing
    BY <1>0, <2>1, <2>2, BusyThreads DEF Undisturbing, InlineInv, LoadedAreOpen
  <2> QED BY <2>3, UndisturbingSteps
<1>3. ASSUME NEW j \in Job, CreateAnsweredJob(c, j)
      PROVE  InlineInv'
  <2> DEFINE profile == "profile_generation"
  <2>1. profile \in Kind /\ Create(profile, j)
    BY <1>3 DEF CreateAnsweredJob, Kind
  <2>2. /\ client'[c].pc = "answering" /\ client'[c].job = j
        /\ \A d \in Client \ {c} : client'[d] = client[d]
    BY <1>0, <1>3, OneClientMoves DEF CreateAnsweredJob
  <2>3. /\ jobs[j].status = "absent"
        /\ jobs'[j].status = "queued" /\ jobs'[j].kind = profile
        /\ \A i \in Job \ {j} : jobs'[i] = jobs[i]
        /\ \A t \in Thread : pc[t] \in Busy => held[t] # j
        /\ \A d \in Client : client[d].pc \in {"expiring", "answering"} => client[d].job # j
    BY <2>1, CreatedRow
  <2>4. WillAnswer(c)
    BY <1>0, <2>2, <2>3 DEF WillAnswer, IsProfile
  <2>5. Undisturbing
    BY <1>0, <2>2, <2>3, <2>4, BusyThreads DEF Undisturbing, InlineInv, LoadedAreOpen, Busy
  <2> QED BY <2>5, UndisturbingSteps
<1> QED BY <1>1, <1>2, <1>3 DEF Look

LEMMA ExpireKeeps ==
  ASSUME InlineInv, NEW c \in Client, Expire(c), InlineTypeOK'
  PROVE  InlineInv'
<1> DEFINE j == client[c].job
<1>1. UNCHANGED <<pc, held, aborted>> /\ client \in [Client -> ClientState]
  BY DEF Expire, processVars, InlineInv, InlineTypeOK, JobRequestsTypeOK
<1>2. /\ j \in Job /\ jobs[j].status # "absent" /\ jobs'[j].kind = jobs[j].kind
      /\ jobs'[j].status = "failed" /\ \A i \in Job \ {j} : jobs'[i] = jobs[i]
  BY ClosedByRequest DEF Expire
<1>3. client[c].kind \in Kind
  BY <1>1 DEF ClientState
<1>4. client'[c].pc \in {"idle", "creating"} /\ \A d \in Client \ {c} : client'[d] = client[d]
  BY <1>1, <1>3, OneClientMoves, ClientStates DEF Expire, ExpireStale
<1>5. Undisturbing
  BY <1>1, <1>2, <1>4, BusyThreads DEF Undisturbing, InlineInv, LoadedAreOpen, Busy
<1> QED BY <1>5, UndisturbingSteps

-----------------------------------------------------------------------------
(* Requests that spawn a task *)

\* Whoever is given the job, nobody else moves.
LEMMA SpawnedThread ==
  ASSUME InlineInv, NEW t \in Thread, NEW j \in Job, Spawn(t, j)
  PROVE  /\ pc[t] = "idle" /\ pc'[t] = "claimed" /\ held'[t] = j
         /\ \A u \in Thread \ {t} : pc'[u] = pc[u] /\ held'[u] = held[u]
         /\ \A u \in Thread : pc'[u] \in {"loaded", "executing"} <=> pc[u] \in {"loaded", "executing"}
         /\ \A u \in Thread : pc'[u] = "executing" <=> pc[u] = "executing"
BY BusyThreads DEF Spawn

\* A task for a job that may have one already: it is a scan or a matching job.
LEMMA ReuseKeeps ==
  ASSUME InlineInv, NEW c \in Client, Reuse(c), InlineTypeOK'
  PROVE  InlineInv'
<1>1. PICK kind \in Kind, t \in Thread : \E j \in Newest(kind) :
        kind # "profile_generation" /\ Spawn(t, j)
  BY DEF Reuse
<1>2. PICK j \in Newest(kind) : kind # "profile_generation" /\ Spawn(t, j)
  BY <1>1
<1>3. j \in Job /\ jobs[j].status # "absent" /\ ~IsProfile(j)
  BY <1>2 DEF Newest, ActiveOf, Active, IsProfile
<1>4. UNCHANGED <<jobs, client, aborted>>
  BY DEF Reuse, processVars
<1>5. IsGiven(t)
  BY <1>2, <1>3, <1>4, SpawnedThread DEF IsGiven, IsProfile
<1>6. Undisturbing
  BY <1>2, <1>3, <1>4, <1>5, SpawnedThread, BusyThreads
     DEF Undisturbing, Busy, InlineInv, LoadedAreOpen
<1> QED BY <1>6, UndisturbingSteps

\* The first task of a new job.
LEMMA SubmitKeeps ==
  ASSUME InlineInv, NEW c \in Client, Submit(c), InlineTypeOK'
  PROVE  InlineInv'
<1>1. PICK j \in Job, t \in Thread : (CreateJob(c, j) \/ CreateProfileJob(c, j)) /\ Spawn(t, j)
  BY DEF Submit
<1>2. client \in [Client -> ClientState] /\ UNCHANGED aborted
  BY DEF Submit, processVars, InlineInv, InlineTypeOK, JobRequestsTypeOK
<1>3. PICK kind \in Kind : Create(kind, j)
  BY <1>1, <1>2 DEF CreateJob, CreateProfileJob, ClientState, Kind
<1>4. /\ jobs[j].status = "absent" /\ jobs'[j].status = "queued"
      /\ \A i \in Job \ {j} : jobs'[i] = jobs[i]
      /\ \A u \in Thread : pc[u] \in Busy => held[u] # j
      /\ \A d \in Client : client[d].pc \in {"expiring", "answering"} => client[d].job # j
  BY <1>3, CreatedRow
<1>5. \A d \in Client : client'[d] = client[d] \/ client'[d].pc = "idle"
  <2>1. CASE CreateJob(c, j)
    <3>1. SetClient(c, IdleClient) /\ IdleClient.pc = "idle"
      BY <2>1 DEF CreateJob, IdleClient
    <3> QED BY <1>2, <3>1, OneClientMoves
  <2>2. CASE CreateProfileJob(c, j)
    BY <2>2 DEF CreateProfileJob
  <2> QED BY <1>1, <2>1, <2>2
<1>6. IsGiven(t)
  BY <1>1, <1>4, <1>5, SpawnedThread DEF IsGiven
<1>7. Undisturbing
  BY <1>1, <1>2, <1>4, <1>5, <1>6, SpawnedThread, BusyThreads
     DEF Undisturbing, Busy, InlineInv, LoadedAreOpen
<1> QED BY <1>7, UndisturbingSteps

\* The task of an answered job, which had none before.
LEMMA AnswerKeeps ==
  ASSUME InlineInv, NEW c \in Client, Answer(c), InlineTypeOK'
  PROVE  InlineInv'
<1> DEFINE j == client[c].job
<1>1. /\ client[c].pc = "answering" /\ j \in Job /\ jobs[j].status # "absent"
      /\ jobs'[j].kind = jobs[j].kind /\ jobs'[j].status \in {"failed", "completed"}
      /\ \A i \in Job \ {j} : jobs'[i] = jobs[i]
  <2>1. AnswerFromStore(c) /\ client[c].pc = "answering"
    BY DEF Answer, AnswerFromStore
  <2> QED BY <2>1, ClosedByRequest
<1>2. PICK t \in Thread : Spawn(t, j)
  BY DEF Answer
<1>3. client \in [Client -> ClientState] /\ UNCHANGED aborted
  BY DEF Answer, processVars, InlineInv, InlineTypeOK, JobRequestsTypeOK
<1>4. client'[c].pc = "idle" /\ \A d \in Client \ {c} : client'[d] = client[d]
  <2>1. SetClient(c, IdleClient) /\ IdleClient.pc = "idle"
    BY DEF Answer, AnswerFromStore, IdleClient
  <2> QED BY <1>3, <2>1, OneClientMoves
<1>5. \A u \in Thread : pc[u] \in Busy => held[u] # j
  BY <1>1 DEF InlineInv, OneTaskEach
<1>6. \A d \in Client \ {c} : client[d].pc = "answering" => client[d].job # j
  BY <1>1 DEF InlineInv, OneTaskEach
<1>7. IsGiven(t)
  BY <1>1, <1>2, <1>4, <1>5, <1>6, SpawnedThread DEF IsGiven
<1>8. Undisturbing
  BY <1>1, <1>2, <1>3, <1>4, <1>5, <1>7, SpawnedThread, BusyThreads
     DEF Undisturbing, Busy, InlineInv, LoadedAreOpen
<1> QED BY <1>8, UndisturbingSteps

-----------------------------------------------------------------------------
(* Restarts and time *)

LEMMA RebootKeeps ==
  ASSUME InlineInv, Reboot, InlineTypeOK'
  PROVE  InlineInv'
<1>1. \A j \in Job : /\ jobs'[j].status # "running" /\ jobs'[j].kind = jobs[j].kind
                     /\ jobs[j].status # "absent" => jobs'[j].status # "absent"
  BY BusyThreads, RecoveredRows DEF Reboot
<1>2. /\ \A t \in Thread : pc'[t] = "idle" /\ pc'[t] \notin Busy
      /\ \A c \in Client : client'[c].pc = "idle"
  BY DEF Reboot, IdleClient, Busy
<1>3. \A t \in Thread : pc[t] = "executing" => held[t] \in Job
  BY BusyThreads DEF Busy
<1>4. Undisturbing
  BY <1>1, <1>2, <1>3 DEF Undisturbing
<1> QED BY <1>4, UndisturbingSteps

LEMMA TickKeeps ==
  ASSUME InlineInv, Tick, InlineTypeOK'
  PROVE  InlineInv'
<1>1. \A j \in Job : jobs'[j].status = jobs[j].status /\ jobs'[j].kind = jobs[j].kind
  BY BusyThreads, RowKinds DEF Tick
<1>2. UNCHANGED <<pc, held, client, aborted>>
  BY DEF Tick, processVars
<1>3. Undisturbing
  BY <1>1, <1>2, BusyThreads DEF Undisturbing, Busy, InlineInv, LoadedAreOpen
<1> QED BY <1>3, UndisturbingSteps

LEMMA InlineStutter ==
  ASSUME InlineInv, UNCHANGED vars
  PROVE  InlineInv'
BY DEF vars, InlineInv, InlineTypeOK, JobRunnerTypeOK, JobRequestsTypeOK, RunningJobsAreExecuted,
       WorkingOn, GivenJobsExist, OneTaskEach, IsProfile, LoadedAreOpen

-----------------------------------------------------------------------------
(* Types *)

\* A thread that is given a job, or lets go of one.
LEMMA ThreadMoves ==
  ASSUME InlineTypeOK, NEW t \in Thread, jobs' \in [Job -> Row], JobRequestsTypeOK',
         reboots' = reboots, aborted' \in SUBSET Job,
         Release(t) \/ \E j \in Job : Spawn(t, j)
  PROVE  InlineTypeOK'
BY DEF InlineTypeOK, JobRunnerTypeOK, Release, Spawn, ThreadPC, Busy

LEMMA TaskTypes ==
  ASSUME InlineTypeOK, NEW t \in Thread,
         Load(t) \/ ReturnEarly(t) \/ Begin(t) \/ ReportProgress(t) \/ Finish(t),
         UNCHANGED <<client, processVars>>
  PROVE  InlineTypeOK'
<1>1. JobRunnerTypeOK'
  BY RunnerTypes DEF InlineTypeOK
<1>2. \A u \in Thread : pc'[u] \in {"idle"} \cup Busy
  <2>1. \E p \in {"idle", "loaded", "executing"} : pc' = [pc EXCEPT ![t] = p] \/ pc' = pc
    BY DEF Load, ReturnEarly, Begin, ReportProgress, Finish, Complete, FailPermanently,
           FailRetryably, Release
  <2> QED BY <2>1 DEF InlineTypeOK, JobRunnerTypeOK, Busy
<1> QED BY <1>1, <1>2 DEF InlineTypeOK, JobRequestsTypeOK, processVars

LEMMA InlineTypeStep == InlineTypeOK /\ [Next]_vars => InlineTypeOK'
<1> SUFFICES ASSUME InlineTypeOK, [Next]_vars PROVE InlineTypeOK'
  OBVIOUS
<1>0. /\ jobs \in [Job -> Row] /\ aborted \in SUBSET Job
      /\ JobRunnerTypeOK /\ JobRequestsTypeOK
  BY DEF InlineTypeOK, JobRunnerTypeOK
<1>1. ASSUME NEW c \in Client, Look(c) \/ Expire(c) PROVE InlineTypeOK'
  <2>1. UNCHANGED <<pc, held, processVars>>
    BY <1>1 DEF Look, Expire
  <2>2. JobRunnerTypeOK' /\ JobRequestsTypeOK'
    BY <1>0, <1>1, <2>1, RequestTypes DEF Look, Expire
  <2> QED BY <2>1, <2>2 DEF InlineTypeOK, processVars
<1>2. ASSUME NEW c \in Client, Reuse(c) PROVE InlineTypeOK'
  <2>1. PICK t \in Thread : \E j \in Job : Spawn(t, j)
    BY <1>2 DEF Reuse, Newest, ActiveOf
  <2>2. UNCHANGED <<jobs, client, reboots, aborted>>
    BY <1>2 DEF Reuse, processVars
  <2> QED BY <1>0, <2>1, <2>2, ThreadMoves DEF JobRequestsTypeOK
<1>3. ASSUME NEW c \in Client, Submit(c) PROVE InlineTypeOK'
  <2>1. PICK j \in Job, t \in Thread : (CreateJob(c, j) \/ CreateProfileJob(c, j)) /\ Spawn(t, j)
    BY <1>3 DEF Submit
  <2>2. jobs' \in [Job -> Row] /\ JobRequestsTypeOK'
    BY <1>0, <2>1, RequestWrites
  <2>3. UNCHANGED <<reboots, aborted>>
    BY <1>3 DEF Submit, processVars
  <2> QED BY <1>0, <2>1, <2>2, <2>3, ThreadMoves
<1>4. ASSUME NEW c \in Client, Answer(c) PROVE InlineTypeOK'
  <2>1. AnswerFromStore(c) /\ client[c].pc = "answering"
    BY <1>4 DEF Answer, AnswerFromStore
  <2>2. PICK t \in Thread : Spawn(t, client[c].job)
    BY <1>4 DEF Answer
  <2>3. client[c].job \in Job
    BY <1>0, <2>1 DEF JobRequestsTypeOK
  <2>4. jobs' \in [Job -> Row] /\ JobRequestsTypeOK'
    BY <1>0, <2>1, RequestWrites
  <2>5. UNCHANGED <<reboots, aborted>>
    BY <1>4 DEF Answer, processVars
  <2> QED BY <1>0, <2>2, <2>3, <2>4, <2>5, ThreadMoves
<1>5. ASSUME NEW t \in Thread, ReadTask(t) \/ BeginTask(t) \/ ReportTask(t) \/ FinishTask(t)
      PROVE  InlineTypeOK'
  BY <1>5, TaskTypes DEF ReadTask, BeginTask, ReportTask, FinishTask
<1>6. ASSUME NEW t \in Thread, AbortTask(t) PROVE InlineTypeOK'
  <2>1. held[t] \in Job
    BY <1>0, <1>6 DEF AbortTask, JobRunnerTypeOK
  <2>2. /\ aborted' \in SUBSET Job /\ UNCHANGED <<jobs, client, reboots>> /\ Release(t)
    BY <1>0, <1>6, <2>1 DEF AbortTask
  <2>3. JobRequestsTypeOK'
    BY <1>0, <2>2 DEF JobRequestsTypeOK
  <2> QED BY <1>0, <2>2, <2>3, ThreadMoves
<1>7. CASE Reboot
  <2>1. jobs' \in [Job -> Row]
    BY <1>0, <1>7, RecoveredRows DEF Reboot
  <2>2. pc' = [t \in Thread |-> "idle"] /\ held' = [t \in Thread |-> NoJob]
    BY <1>7 DEF Reboot
  <2>3. JobRunnerTypeOK' /\ \A t \in Thread : pc'[t] \in {"idle"} \cup Busy
    BY <2>1, <2>2 DEF JobRunnerTypeOK, ThreadPC, Busy
  <2>4. JobRequestsTypeOK'
    BY <1>7, ClientStates DEF Reboot, JobRequestsTypeOK
  <2>5. reboots' \in 0..MaxReboots /\ aborted' \in SUBSET Job
    BY <1>7, InlineQueueAssumption DEF Reboot, InlineTypeOK
  <2> QED BY <2>3, <2>4, <2>5 DEF InlineTypeOK
<1>8. CASE Tick
  <2>1. jobs' \in [Job -> Row]
    BY <1>0, <1>8, RowKinds DEF Tick
  <2> QED BY <1>8, <2>1 DEF Tick, processVars, InlineTypeOK, JobRunnerTypeOK, JobRequestsTypeOK
<1>9. CASE UNCHANGED vars
  BY <1>9 DEF vars, InlineTypeOK, JobRunnerTypeOK, JobRequestsTypeOK
<1> QED BY <1>1, <1>2, <1>3, <1>4, <1>5, <1>6, <1>7, <1>8, <1>9 DEF Next

LEMMA InlineInit == Init => InlineInv
<1> SUFFICES ASSUME Init PROVE InlineInv
  OBVIOUS
<1>1. AbsentRow \in Row /\ AbsentRow.status = "absent"
  <2>1. "scan" \in Kind
    BY DEF Kind
  <2> QED BY <2>1, NewRows DEF AbsentRow, NewRow
<1>2. jobs \in [Job -> Row] /\ \A j \in Job : jobs[j].status = "absent"
  BY <1>1 DEF Init
<1>3. /\ \A t \in Thread : pc[t] = "idle" /\ pc[t] \notin Busy
      /\ \A c \in Client : client[c] = IdleClient /\ client[c].pc = "idle"
  BY DEF Init, IdleClient, Busy
<1>4. JobRunnerTypeOK /\ JobRequestsTypeOK
  BY <1>2, <1>3, ClientStates DEF Init, JobRunnerTypeOK, JobRequestsTypeOK, ThreadPC
<1>5. InlineTypeOK
  BY <1>3, <1>4, InlineQueueAssumption DEF Init, InlineTypeOK
<1>6. RunningJobsAreExecuted /\ GivenJobsExist /\ OneTaskEach /\ LoadedAreOpen
  BY <1>2, <1>3 DEF RunningJobsAreExecuted, GivenJobsExist, OneTaskEach, LoadedAreOpen
<1> QED BY <1>5, <1>6 DEF InlineInv

LEMMA InlineStep == InlineInv /\ [Next]_vars => InlineInv'
<1> SUFFICES ASSUME InlineInv, [Next]_vars PROVE InlineInv'
  OBVIOUS
<1>0. InlineTypeOK'
  BY InlineTypeStep DEF InlineInv
<1>1. ASSUME NEW c \in Client, Look(c) \/ Reuse(c) \/ Submit(c) \/ Answer(c) \/ Expire(c)
      PROVE  InlineInv'
  BY <1>0, <1>1, LookKeeps, ReuseKeeps, SubmitKeeps, AnswerKeeps, ExpireKeeps
<1>2. ASSUME NEW t \in Thread, ReadTask(t) PROVE InlineInv'
  BY <1>0, <1>2, ReadTaskKeeps DEF ReadTask, processVars
<1>3. ASSUME NEW t \in Thread, BeginTask(t) \/ ReportTask(t) \/ FinishTask(t) PROVE InlineInv'
  BY <1>0, <1>3, RunTaskKeeps DEF BeginTask, ReportTask, FinishTask, processVars
<1>4. ASSUME NEW t \in Thread, AbortTask(t) PROVE InlineInv'
  BY <1>0, <1>4, AbortTaskKeeps
<1>5. CASE Reboot \/ Tick \/ UNCHANGED vars
  BY <1>0, <1>5, RebootKeeps, TickKeeps, InlineStutter
<1> QED BY <1>1, <1>2, <1>3, <1>4, <1>5 DEF Next

-----------------------------------------------------------------------------
(* Theorems *)

\* InlineInv is an invariant of the process, whatever its tasks and clients.
LEMMA InlineInvariant == Spec => []InlineInv
BY InlineInit, InlineStep, PTL DEF Spec

\* The table, the tasks and the requests stay of their types.
THEOREM InlineTypesAreKept == Spec => []InlineTypeOK
<1>1. InlineInv => InlineTypeOK
  BY DEF InlineInv
<1> QED BY <1>1, InlineInvariant, PTL

\* No row says running for nobody: tasks that share a job, requests that write it
\* off and restarts (recover_interrupted_background_jobs) leave none behind.
THEOREM RunningIsExecuted == Spec => []RunningJobsAreExecuted
<1>1. InlineInv => RunningJobsAreExecuted
  BY DEF InlineInv
<1> QED BY <1>1, InlineInvariant, PTL

\* The task of a profile job never calls the model once the job is completed,
\* however late it runs after the request or another one has answered it.
THEOREM AnsweredIsNotGenerated == Spec => AnsweredProfilesAreNotGenerated
<1>1. ASSUME InlineInv, InlineTypeOK', [Next]_vars, NEW t \in Thread,
             pc[t] # "executing", pc'[t] = "executing"
      PROVE  ~ /\ jobs[held[t]].kind = "profile_generation"
               /\ jobs[held[t]].status = "completed"
  <2>1. pc[t] = "loaded"
    <3>1. ASSUME NEW u \in Thread, ReadTask(u) \/ BeginTask(u) \/ ReportTask(u) \/ FinishTask(u)
                                   \/ AbortTask(u)
          PROVE  pc[t] = "loaded"
      BY <1>1, <3>1, BusyThreads
         DEF ReadTask, BeginTask, ReportTask, FinishTask, AbortTask, Load, ReturnEarly, Begin,
             ReportProgress, Finish, Complete, FailPermanently, FailRetryably, Release
    <3>2. ASSUME NEW c \in Client, Look(c) \/ Reuse(c) \/ Submit(c) \/ Answer(c) \/ Expire(c)
          PROVE  FALSE
      <4>1. pc' = pc \/ \E u \in Thread : pc' = [pc EXCEPT ![u] = "claimed"]
        BY <3>2 DEF Look, Reuse, Submit, Answer, Expire, Spawn
      <4> QED BY <1>1, <4>1, BusyThreads
    <3>3. ~Reboot /\ ~Tick /\ ~UNCHANGED vars
      BY <1>1 DEF Reboot, Tick, vars
    <3> QED BY <1>1, <3>1, <3>2, <3>3 DEF Next
  <2> QED BY <1>1, <2>1 DEF InlineInv, LoadedAreOpen, IsProfile
<1>2. InlineInv /\ InlineInv' /\ [Next]_vars =>
        [\A t \in Thread :
           pc[t] # "executing" /\ pc'[t] = "executing"
             => ~ /\ jobs[held[t]].kind = "profile_generation"
                  /\ jobs[held[t]].status = "completed"]_vars
  BY <1>1 DEF InlineInv
<1> QED BY <1>2, InlineInvariant, PTL DEF Spec, AnsweredProfilesAreNotGenerated

=============================================================================
