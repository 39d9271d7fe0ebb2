-------------------------- MODULE JobQueueRefinement --------------------------
(***************************************************************************)
(* The lifecycle that the table and the workers of JobQueue add up to, and *)
(* the claim that the queue implements JobLifecycle.                       *)
(***************************************************************************)
EXTENDS JobQueue

PhaseOf(j) ==
  IF j \in overridden THEN "taken_over"
  ELSE IF jobs[j].status \in Active THEN "open"
  ELSE IF jobs[j].status \in Terminal THEN "settled" ELSE "absent"

TriesOf(j) == IF j \in overridden THEN 0 ELSE jobs[j].attempt

WorkOf(w) == IF pc[w] \in Busy /\ held[w] \notin overridden THEN held[w] ELSE NoJob

Lifecycle == INSTANCE JobLifecycle WITH
  Budget <- MaxAttempts, None <- NoJob,
  phase <- [j \in Job |-> PhaseOf(j)],
  tries <- [j \in Job |-> TriesOf(j)],
  work  <- [w \in Worker |-> WorkOf(w)]

\* With timely workers, claims by compare-and-swap, leases, heartbeats and the
\* attempt column (claim_next_background_job, heartbeat_background_job,
\* fail_background_job_retryable, run_*) amount to JobLifecycle: every step of
\* the queue is one of its steps or changes nothing it can see.
ImplementsLifecycle == Lifecycle!Spec
=============================================================================
