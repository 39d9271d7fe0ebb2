------------------------------- MODULE JobTable -------------------------------
(***************************************************************************)
(* One row of the background_jobs table, and what each statement that      *)
(* JobStore (storage/database.py) issues on that table does to a row.      *)
(* Operators only: JobQueue and InlineQueue say who issues which statement *)
(* and when.                                                               *)
(*                                                                         *)
(* Time is counted in ticks of one heartbeat interval (worker.py, 30 s).   *)
(* lease_expires_at is kept as the number of ticks still to go, 0 once it  *)
(* is past; updated_at is kept as the row's age, saturated just beyond the *)
(* staleness limit.  Left out: user and workspace of the job (one of each  *)
(* is modelled), its payload, error text, progress and started_at.         *)
(*                                                                         *)
(* Definitions marked Fault are deliberate bugs.  Each takes the place of  *)
(* the definition below it to see that a property notices.                 *)
(***************************************************************************)
EXTENDS Integers

CONSTANTS
  Worker,       \* identities that may own a lease
  NoWorker,     \* lease_owner is NULL
  MaxAttempts,  \* max_attempts, 3 for every job the services create
  LeaseTicks,   \* LEASE_DURATION_MINUTES in ticks
  StaleTicks,   \* max_stale_seconds in ticks
  Backoffs      \* backoffs a retryable failure may ask for, in ticks; 0 is none

ASSUME JobTableAssumption ==
  /\ NoWorker \notin Worker
  /\ MaxAttempts \in Nat \ {0}
  /\ LeaseTicks \in Nat \ {0}
  /\ StaleTicks \in Nat
  /\ Backoffs \in SUBSET Nat

Kind == {"profile_generation", "scan", "matching"}

Active   == {"queued", "running"}
Terminal == {"completed", "failed", "dead_letter"}
Status   == {"absent"} \cup Active \cup Terminal

ErrorClass == {"none", "retryable", "permanent", "stale"}

NoLease == -1   \* lease_expires_at is NULL
Lease   == Nat \cup {NoLease}

Attempt == 0..MaxAttempts
Owner   == Worker \cup {NoWorker}
Age     == 0..(StaleTicks + 1)

Row == [kind : Kind, status : Status, attempt : Attempt, owner : Owner,
        lease : Lease, age : Age, error : ErrorClass]

-----------------------------------------------------------------------------
\* A row that does not exist yet, and the row create_background_job inserts.
NewRow(kind, status) ==
  [kind |-> kind, status |-> status, attempt |-> 0, owner |-> NoWorker,
   lease |-> NoLease, age |-> 0, error |-> "none"]

AbsentRow == NewRow("scan", "absent")
QueuedRow(kind) == NewRow(kind, "queued")

\* Fault: the worker of a running row is taken for dead whatever its lease says.
ClaimableWhileLeased(r) ==
  r.status \in Active /\ (r.status = "running" \/ r.lease \in {NoLease, 0})

\* Fault: only queued rows are claimed, an expired lease frees nothing.
ClaimableIfQueued(r) == r.status = "queued" /\ r.lease \in {NoLease, 0}

\* The WHERE clause of claim_next_background_job.  The queued and the running
\* branch differ only in <= against <, which whole ticks do not tell apart.
Claimable(r) == r.status \in Active /\ r.lease \in {NoLease, 0}

\* get_active_background_job's test on the newest active row.
Stale(r) == r.age > StaleTicks

\* The two updates of claim_next_background_job, with the attempt number and
\* the lease its transaction computed beforehand.
ClaimedRow(r, w, attempt, lease) ==
  [r EXCEPT !.status = "running", !.attempt = attempt, !.owner = w,
            !.lease = lease, !.age = 0]

ExhaustedRow(r) ==
  [r EXCEPT !.status = "dead_letter", !.error = "permanent", !.age = 0]

\* Faults: a heartbeat that does not renew the lease, or leaves updated_at alone.
BeatenWithoutLease(r) == [r EXCEPT !.age = 0]
BeatenWithoutStamp(r) == [r EXCEPT !.lease = LeaseTicks]

\* heartbeat_background_job
BeatenRow(r) == [r EXCEPT !.lease = LeaseTicks, !.age = 0]

\* update_background_job to "running": neither the lease nor the attempt moves.
RunningRow(r) == [r EXCEPT !.status = "running", !.age = 0]

\* update_background_job to a terminal status, with the error class it is given.
ClosedRow(r, status, error) ==
  [r EXCEPT !.status = status, !.error = error, !.owner = NoWorker,
            !.lease = NoLease, !.age = 0]

\* Faults: the retry forgets the attempts made, stops one short of the budget,
\* or counts the attempt once more and looks at no budget.
RetriedAfresh(r, backoff) ==
  [r EXCEPT !.status = "queued", !.attempt = 0, !.owner = NoWorker,
            !.lease = NoLease, !.age = 0]
RetriedOneShort(r, backoff) ==
  IF r.attempt + 1 < MaxAttempts THEN [RetriedAfresh(r, backoff) EXCEPT !.attempt = r.attempt]
                                 ELSE ClosedRow(r, "dead_letter", "permanent")
RetriedForEver(r, backoff) == [RetriedAfresh(r, backoff) EXCEPT !.attempt = r.attempt + 1]

\* fail_background_job_retryable
RetriedRow(r, backoff) ==
  IF r.attempt < MaxAttempts
    THEN [r EXCEPT !.status = "queued", !.error = "retryable",
                   !.owner = NoWorker, !.age = 0,
                   !.lease = IF backoff = 0 THEN NoLease ELSE backoff]
    ELSE ClosedRow(r, "dead_letter", "permanent")

\* Fault: nothing is recovered.
NotRecovered(r) == r

\* recover_interrupted_background_jobs: only a requeued row keeps its updated_at.
RecoveredRow(r) ==
  IF r.status # "running" THEN r
  ELSE IF r.attempt < MaxAttempts
    THEN [r EXCEPT !.status = "queued", !.error = "retryable",
                   !.owner = NoWorker, !.lease = NoLease]
    ELSE ClosedRow(r, "dead_letter", "permanent")

\* One tick of the clock, as a row whose status may still change sees it.
ElapsedRow(r) ==
  IF r.status \in Active
    THEN [r EXCEPT !.lease = IF @ > 0 THEN @ - 1 ELSE @,
                   !.age = IF @ > StaleTicks THEN @ ELSE @ + 1]
    ELSE r
=============================================================================
