------------------------------ MODULE JobRequests ------------------------------
(***************************************************************************)
(* What API requests do to the job table: create jobs                      *)
(* (CareerService.queue_profile_generation, queue_scan, queue_matching)    *)
(* and write off a stale one they come across (get_active_background_job,  *)
(* which the page's polling calls too).  Reading the active job, writing   *)
(* it off and creating another are three transactions.                     *)
(***************************************************************************)
EXTENDS JobRunner

CONSTANTS
  Client,   \* requests in progress at one time
  Requests  \* what they ask for, a subset of Request

Request == {"poll", "scan", "matching", "profile", "cached_profile"}

ASSUME JobRequestsAssumption == Requests \in SUBSET Request

VARIABLE client  \* per client, the request it is serving

ClientState == [pc : {"idle", "expiring", "creating", "answering"},
                kind : Kind, job : Job \cup {NoJob}, next : {"idle", "creating"}]
IdleClient == [pc |-> "idle", kind |-> "scan", job |-> NoJob, next |-> "idle"]
CreatingClient(kind) == [IdleClient EXCEPT !.pc = "creating", !.kind = kind]

JobRequestsTypeOK ==
  /\ client \in [Client -> ClientState]
  /\ \A c \in Client : client[c].pc \in {"expiring", "answering"} => client[c].job \in Job

SetClient(c, state) == client' = [client EXCEPT ![c] = state]

-----------------------------------------------------------------------------
\* get_active_background_job's row: the newest updated_at among the active.
ActiveOf(kind) == {j \in Job : jobs[j].kind = kind /\ jobs[j].status \in Active}
Newest(kind) ==
  {j \in ActiveOf(kind) : \A i \in ActiveOf(kind) : jobs[j].age <= jobs[i].age}

\* A scan or a matching request goes on to create a job once the one it found
\* is out of the way; a poll, which may be for any kind, does not.
Asks(kind, next) ==
  \/ "poll" \in Requests /\ next = "idle"
  \/ kind \in Requests /\ next = "creating"

\* The newest active job of the kind is stale: the request will write it off.
FindStale(c, kind, next) ==
  /\ client[c].pc = "idle"
  /\ Asks(kind, next)
  /\ \E j \in Newest(kind) :
       /\ Stale(jobs[j])
       /\ SetClient(c, [pc |-> "expiring", kind |-> kind, job |-> j, next |-> next])
  /\ UNCHANGED jobs

\* No job of the kind is active: the request will create one.
FindNone(c, kind) ==
  /\ client[c].pc = "idle"
  /\ Asks(kind, "creating")
  /\ ActiveOf(kind) = {}
  /\ SetClient(c, CreatingClient(kind))
  /\ UNCHANGED jobs

\* update_background_job(job_id, "failed", error_class="stale"), whatever the
\* row has become since it was read.
ExpireStale(c) ==
  /\ client[c].pc = "expiring"
  /\ LET j == client[c].job IN WriteRow(j, ClosedRow(jobs[j], "failed", "stale"))
  /\ SetClient(c, IF client[c].next = "idle" THEN IdleClient
                  ELSE CreatingClient(client[c].kind))

-----------------------------------------------------------------------------
\* create_background_job: the new row is the youngest.
Create(kind, j) ==
  /\ jobs[j].status = "absent"
  /\ \A i \in Job : jobs[i].status = "absent" => j <= i
  /\ WriteRow(j, QueuedRow(kind))

CreateJob(c, j) ==
  /\ client[c].pc = "creating"
  /\ Create(client[c].kind, j)
  /\ SetClient(c, IdleClient)

\* queue_profile_generation looks at no other job.
CreateProfileJob(c, j) ==
  /\ client[c].pc = "idle"
  /\ "profile" \in Requests
  /\ Create("profile_generation", j)
  /\ UNCHANGED client

\* ... and when the resume is the one it already has a profile for, it creates
\* the job and completes it in a second transaction.
CreateAnsweredJob(c, j) ==
  /\ client[c].pc = "idle"
  /\ "cached_profile" \in Requests
  /\ Create("profile_generation", j)
  /\ SetClient(c, [pc |-> "answering", kind |-> "profile_generation",
                   job |-> j, next |-> "idle"])

AnswerFromStore(c) ==
  /\ client[c].pc = "answering"
  /\ LET j == client[c].job IN WriteRow(j, ClosedRow(jobs[j], "completed", jobs[j].error))
  /\ SetClient(c, IdleClient)
=============================================================================
