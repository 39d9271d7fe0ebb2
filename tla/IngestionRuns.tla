----------------------------- MODULE IngestionRuns -----------------------------
(***************************************************************************)
(* Shared ingestion: requests and scan jobs ask for a run, reusing an      *)
(* active one (queue_run); idle workers look for a queued run, and scan    *)
(* jobs execute theirs themselves (run_ingestion).  A run has no lease, and*)
(* nobody claims it: looking at a row and writing it are two transactions. *)
(*                                                                         *)
(* Every process takes one step per transaction.  A run's number is free   *)
(* for the next run once it is closed and no process holds it.             *)
(***************************************************************************)
EXTENDS Naturals, FiniteSets

CONSTANTS
  Worker,     \* processes that look for queued runs and execute scan jobs
  Client,     \* API requests; with Inline they execute what they ask for
  Inline,     \* is the API in inline mode?
  NumRuns,    \* bound: runs that are active or held at a time
  MaxCrashes  \* bound: crashes in a behaviour

Process == Worker \cup Client
Run == 1..NumRuns
NoRun == 0

ASSUME IngestionAssumption ==
  /\ IsFiniteSet(Worker) /\ IsFiniteSet(Client)
  /\ Inline \in BOOLEAN
  /\ NumRuns \in Nat
  /\ MaxCrashes \in Nat

Active == {"queued", "running"}
Closed == {"completed", "failed"}
RunRow == [status : {"absent"} \cup Active \cup Closed, result : BOOLEAN]

\* What a process wants a run for: to have it queued, to execute it, or to
\* execute it and report the outcome in a scan job.
Errand == {"queue", "ingest", "scan"}

PC == {"idle", "creating", "reading", "starting", "fetching", "reporting"}

VARIABLES
  runs,       \* ingestion_runs: status, and whether result_json is there
  later,      \* later[r]: the active runs with a later updated_at than r
  pc,
  errand,
  held,       \* the run a process works on
  crashes,
  orphans     \* history: running runs whose executor died since they were last written

vars == <<runs, later, pc, errand, held, crashes, orphans>>
tableVars == <<runs, later, orphans>>
processVars == <<pc, errand, held>>

IngestionTypeOK ==
  /\ runs \in [Run -> RunRow]
  /\ later \in [Run -> SUBSET Run]
  /\ pc \in [Process -> PC]
  /\ errand \in [Process -> Errand]
  /\ held \in [Process -> Run \cup {NoRun}]
  /\ crashes \in 0..MaxCrashes
  /\ orphans \in SUBSET Run
  /\ \A p \in Process : pc[p] \in {"idle", "creating"} <=> held[p] = NoRun

Init ==
  /\ runs = [r \in Run |-> [status |-> "absent", result |-> FALSE]]
  /\ later = [r \in Run |-> {}]
  /\ pc = [p \in Process |-> "idle"]
  /\ errand = [p \in Process |-> "queue"]
  /\ held = [p \in Process |-> NoRun]
  /\ crashes = 0
  /\ orphans = {}

-----------------------------------------------------------------------------
(* The table *)

IsActive(r) == runs[r].status \in Active

\* get_active_ingestion_run: the active run with the latest updated_at.
IsNewest(r) == IsActive(r) /\ later[r] = {}

\* Row r is written, which makes it the latest if it is active.
WriteRun(r, row) ==
  /\ runs' = [runs EXCEPT ![r] = row]
  /\ later' = [s \in Run |->
                 IF s = r \/ ~IsActive(s) THEN {}
                 ELSE IF row.status \in Active THEN later[s] \cup {r}
                 ELSE later[s] \ {r}]
  /\ orphans' = orphans \ {r}

\* update_ingestion_run without a result keeps the one that is there.
SetStatus(r, status) == WriteRun(r, [runs[r] EXCEPT !.status = status])

FreeRuns == {r \in Run : ~IsActive(r) /\ \A p \in Process : held[p] # r}

\* Where process p is, and what it does it for.
Proceed(p, step, e, r) ==
  /\ pc' = [pc EXCEPT ![p] = step]
  /\ errand' = [errand EXCEPT ![p] = e]
  /\ held' = [held EXCEPT ![p] = r]

\* Fault: a process that is done still holds its run.
RestHolding(p) == Proceed(p, "idle", "queue", held[p])

Rest(p) == Proceed(p, "idle", "queue", NoRun)

\* run_ingestion returns: a scan job goes on to report.
Return(p) ==
  IF errand[p] = "scan" THEN Proceed(p, "reporting", "scan", held[p]) ELSE Rest(p)

\* queue_run has found or created r: the process executes it, unless it only
\* wanted it queued.
Obtain(p, e, r) ==
  IF e = "queue" THEN Rest(p) ELSE Proceed(p, "reading", e, r)

-----------------------------------------------------------------------------
(* Asking for a run *)

\* What may be asked of whom: inline, API requests spawn a task that executes
\* the run or the scan job; otherwise scan jobs are the workers'.
Asks(p, e) ==
  \/ p \in Client /\ e = IF Inline THEN "ingest" ELSE "queue"
  \/ e = "scan" /\ p \in IF Inline THEN Client ELSE Worker

\* queue_run finds an active run.
Join(p) ==
  /\ pc[p] = "idle"
  /\ \E r \in Run, e \in Errand : Asks(p, e) /\ IsNewest(r) /\ Obtain(p, e, r)
  /\ UNCHANGED <<tableVars, crashes>>

\* Fault: queue_run does not look whether a run is active.
FindNoneAnyway(p) ==
  /\ pc[p] = "idle"
  /\ \E e \in Errand : Asks(p, e) /\ Proceed(p, "creating", e, NoRun)
  /\ UNCHANGED <<tableVars, crashes>>

\* queue_run finds none and will create one.
FindNone(p) ==
  /\ pc[p] = "idle"
  /\ \A r \in Run : ~IsActive(r)
  /\ \E e \in Errand : Asks(p, e) /\ Proceed(p, "creating", e, NoRun)
  /\ UNCHANGED <<tableVars, crashes>>

\* create_ingestion_run, whatever others have created since.
CreateRun(p) ==
  /\ pc[p] = "creating"
  /\ \E r \in FreeRuns :
       /\ \A s \in FreeRuns : r <= s
       /\ WriteRun(r, [status |-> "queued", result |-> FALSE])
       /\ Obtain(p, errand[p], r)
  /\ UNCHANGED crashes

\* _process_ingestion_run: the run that is active is looked at, not claimed; if
\* it is running the worker does nothing.
Poll(w) ==
  /\ pc[w] = "idle"
  /\ \E r \in Run : /\ IsNewest(r)
                    /\ runs[r].status = "queued"
                    /\ Obtain(w, "ingest", r)
  /\ UNCHANGED <<tableVars, crashes>>

-----------------------------------------------------------------------------
(* run_ingestion *)

\* Fault: only queued runs are executed.
ReadQueuedRun(p) ==
  /\ pc[p] = "reading"
  /\ IF runs[held[p]].status = "queued"
       THEN Proceed(p, "starting", errand[p], held[p])
       ELSE Return(p)
  /\ UNCHANGED <<tableVars, crashes>>

\* Its first transaction reads the run; another one's running run will do.
ReadRun(p) ==
  /\ pc[p] = "reading"
  /\ IF IsActive(held[p])
       THEN Proceed(p, "starting", errand[p], held[p])
       ELSE Return(p)
  /\ UNCHANGED <<tableVars, crashes>>

StartRun(p) ==
  /\ pc[p] = "starting"
  /\ SetStatus(held[p], "running")
  /\ Proceed(p, "fetching", errand[p], held[p])
  /\ UNCHANGED crashes

CompleteRun(p) ==
  /\ pc[p] = "fetching"
  /\ WriteRun(held[p], [status |-> "completed", result |-> TRUE])
  /\ Return(p)
  /\ UNCHANGED crashes

\* Fault: a failure is not recorded.
FailSilently(p) ==
  /\ pc[p] \in {"reading", "starting", "fetching"}
  /\ Return(p)
  /\ UNCHANGED <<tableVars, crashes>>

\* Fault: a failed run is queued again, without a limit.
FailAndQueue(p) ==
  /\ pc[p] \in {"reading", "starting", "fetching"}
  /\ SetStatus(held[p], "queued")
  /\ Return(p)
  /\ UNCHANGED crashes

\* Any of its transactions or the fetch fails: the except clause covers them all.
FailRun(p) ==
  /\ pc[p] \in {"reading", "starting", "fetching"}
  /\ SetStatus(held[p], "failed")
  /\ Return(p)
  /\ UNCHANGED crashes

\* run_scan_job looks at the run again and reports.
Report(p) ==
  /\ pc[p] = "reporting"
  /\ Rest(p)
  /\ UNCHANGED <<tableVars, crashes>>

-----------------------------------------------------------------------------
\* The process dies or cannot reach the database for its except clause; the run
\* it was fetching stays running.
Crash(p) ==
  /\ pc[p] # "idle"
  /\ crashes < MaxCrashes
  /\ crashes' = crashes + 1
  /\ orphans' = orphans \cup {r \in Run : pc[p] = "fetching" /\ held[p] = r
                                           /\ runs[r].status = "running"}
  /\ Rest(p)
  /\ UNCHANGED <<runs, later>>

Execute(p) == ReadRun(p) \/ StartRun(p) \/ CompleteRun(p) \/ FailRun(p) \/ Report(p)

Next ==
  \/ \E p \in Process : Join(p) \/ FindNone(p) \/ CreateRun(p) \/ Execute(p) \/ Crash(p)
  \/ \E w \in Worker : Poll(w)

Spec == Init /\ [][Next]_vars

\* Workers poll when they are idle, and what was begun goes on; nobody has to
\* ask for anything, and nobody has to fail.
Fairness ==
  /\ \A w \in Worker : WF_vars(Poll(w))
  /\ \A p \in Process : WF_vars(CreateRun(p)) /\ WF_vars(Execute(p))

FairSpec == Spec /\ Fairness

-----------------------------------------------------------------------------
(* What ingestion promises *)

\* A run shown as running is being fetched by somebody, or its executor died:
\* with any number of processes on one run, none of whom knows of the others, no
\* late start or failure leaves it running for nobody.
RunningRunsAreFetched ==
  \A r \in Run : runs[r].status = "running" =>
    r \in orphans \/ \E p \in Process : pc[p] = "fetching" /\ held[p] = r

\* queue_run's look before it creates is not atomic with the creation, yet it
\* keeps the backlog down: never more active runs than there are processes that
\* ask, even though a process that is late reopens runs others have closed.
BacklogIsBounded == Cardinality({r \in Run : IsActive(r)}) <= Cardinality(Process)

\* Once nobody scans any more, every run is closed by the workers, the newest
\* first: a run that hides others does not do so for ever, unless its executor
\* died.
RunsEnd ==
  <>[](\A p \in Process : errand[p] # "scan") =>
    \A r \in Run : IsActive(r) ~> ~IsActive(r) \/ orphans # {}

\* What a crash leaves running no worker takes up, but a scan does: queue_run
\* hands it out and run_ingestion accepts it.  A worker that goes on scanning
\* while the others are idle clears the orphans.
ScansTakeOver ==
  \A w \in Worker :
    /\ []<>(errand[w] = "scan")
    /\ <>[](\A p \in Process \ {w} : pc[p] = "idle")
    => <>[](orphans = {})

\* "Propagate ingestion failure to the scan background job": a scan that is about
\* to report finds that the run failed, or a result.  Otherwise run_scan_job
\* completes with no new jobs.
ScansFindAnOutcome ==
  \A p \in Process : pc[p] = "reporting" =>
    runs[held[p]].status = "failed" \/ runs[held[p]].result
=============================================================================
