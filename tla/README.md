# FoxPilot, verified

TLA+ models of FoxPilot's core: the modules, the TLC configurations that check
them on small instances, and the theorems the TLA+ proof system proves about
them. Everything is translated from the Python source (`src/career_agent`,
`services/api`); where a docstring or document disagrees with the code, the
model follows the code and a run shows the disagreement.

## 1. The system

FoxPilot is a FastAPI service over one SQL database, with a React client and,
in its external mode, a number of worker processes. A user uploads a resume, an
LLM turns it into a profile, public job sources are fetched into a shared
corpus, and an LLM matches corpus jobs against the profile.

| Component | State it keeps | Operations | Talks to |
|---|---|---|---|
| Durable job queue (`storage/database.py`, `worker.py`) | `background_jobs`: status, attempt, lease owner and expiry, `updated_at` | create, claim, heartbeat, update, retry, recover, find active | API (creates, polls, writes off), workers (claim, execute), career service (run) |
| Inline execution (`services/api/app.py`) | the same table, the process's background tasks | spawn a task per request, recover at start | career service |
| Ingestion runs (`services/ingestion.py`) | `ingestion_runs`: status, `updated_at` | queue, run | workers' loop, scan jobs, API, sources |
| Workspaces and profiles (`storage/database.py`, `services/career.py`) | `workspaces` (one active per user), preferences, profile, resume | create, switch, rename, delete, save, delete profile or resume | profile jobs, matching, API |
| Matching (`services/career.py`, `matching.py`) | `matches`, keyed by job, workspace and preference hash | match what is not cached | LLM, corpus, queue |
| Job corpus | `jobs`, `job_listings`: availability, misses | bulk upsert, reconcile, mark active or inactive | ingestion, availability checks |
| Pagination | none (cursors travel with the client) | list jobs, matches, applications | API |
| Source fetching (`sources/`) | none | fetch each source, normalise | ingestion |
| Classification (`work_arrangement.py`, `filter_jobs.py`) | none | read a posting, decide whether a workspace's preferences let it through | ingestion, matching |
| LLM providers, email, CLI, auth, rate limiter | small or none | - | - |

### What is hard about it

- **Claims race.** A claim is a SELECT and an UPDATE that compares `status` and
  `updated_at`. The new attempt number is computed from what the SELECT saw.
- **Leases against time.** A lease lasts 300 s, heartbeats come every 30 s, may
  fail, and end for good when the row is no longer the worker's. The executing
  thread is not told.
- **Unguarded writes.** `update_background_job` and
  `fail_background_job_retryable` name the job by id alone: a late executor, a
  progress report or a stale write-off overwrites whatever is there.
- **Crashes.** Only the end of a lease frees the job of a dead worker. Inline
  mode has no leases; it recovers at the start of the process.
- **Check, then act.** Queueing, the profile's staleness check, the count of
  workspaces, ingestion's active run: each reads in one transaction and acts in
  the next. Deleting a workspace even reads and writes within one transaction
  what another may move in between.
- **The active workspace.** Most statements name no workspace and mean the one
  that is active when they run; between the steps of an upload or a matching job
  that may be another.
- **Several writers of one column.** Whether a job is offered follows from its
  listings, and upserts, reconciliation and availability checks each recompute it,
  in transactions that do not see what others have not committed.
- **Moving lists.** A page is a transaction, a walk is not; cursors must mean
  something in a list that has changed.

### What makes each part correct

- Queue: one executor per job; no more hand-outs than `max_attempts` and no dead
  letter before that; settled jobs stay settled; every job settles.
- Inline mode: a running row has a task; running ends; an answered profile is not
  generated again; recovered jobs are taken up.
- Ingestion: a running run has an executor; the backlog is bounded; runs end; what a
  crash left is taken over.
- Workspaces: one is active; a job touches only its own, and brings back no resume
  of another; the match cache leaves nothing out.
- Corpus: a job is offered exactly while one of its listings is active, unless
  transactions that close two of them overlap; a listing
  is closed after two answers in a row without it and only then; a role has one job.
- Lists: walking the pages shows every row once, and ends.
- Eligibility: who asks for more gets no less; what is labelled open is let through.

`PROJECT.json` lists the hazards, each at its line, and the properties that
would notice.

## 2. The modules

```
JobTable          one row of background_jobs and what each statement does to it
  JobRunner       run_profile_generation, run_scan_job, run_matching_job
    JobRequests   what API requests do to the table
      JobQueue    workers, heartbeats, crashes, time   (external mode)
        JobQueueRefinement   implements JobLifecycle (the abstract promise)
          MCJobQueue         TLC instances (symmetry)
      InlineQueue background tasks and recovery        (inline mode)
      JobRequestsProofs   lemmas about rows, threads and requests
        JobQueueProofs    of the external mode: claims and attempts
          JobRefinementProofs   leases, and that JobLifecycle is implemented
        InlineProofs      of the inline mode

IngestionRuns     runs of the shared ingestion, workers, scans and requests
  IngestionProofs proofs about them

Workspaces        a user's workspaces, profiles and matches, and the jobs on them
Corpus            jobs and listings: ingestion, reconciliation, availability
Pages             lists that change while they are read page by page
Eligibility       which postings a workspace's preferences let through
  Services        the four of them, one part in action at a time
    MCServices    TLC instances
  CorpusProofs, WorkspacesProofs   proofs about these two
    ServicesProofs   about Pages and Eligibility, and about the services together
```

**JobTable** is operators only: a row is the record of the columns that decide
anything (`kind`, `status`, `attempt`, `lease_owner`, `lease_expires_at`,
`updated_at`, `error_class`), and there is one operator per SQL statement.
Time is counted in ticks of one heartbeat interval; a lease is the number of
ticks it has left, `updated_at` is kept as an age that saturates just above the
staleness limit. `max_attempts` is a constant, as every caller leaves it at 3.

**JobRunner** is what a thread does with a job it was given, one action per
transaction: read the row (`Load`, or `ReturnEarly` if the profile is gone or the
job completed), write running (`Begin`), report progress (matching only), and
complete, fail permanently or fail retryably. `MayFail` says where the code's
`try` begins: `run_matching_job` reads and begins outside it. No step looks at
the lease, because no write of the services does.

**JobRequests** is the API's side: look for the active job of a kind (newest
`updated_at`), write it off if it is stale, create another; a profile upload
creates without looking, and one whose resume is already known creates a job and
completes it in a second transaction. `client[c]` holds what a request has read
between two transactions.

**JobQueue** puts workers on top. `seen[w]` is the row as the claim's SELECT saw
it; its flag `current` stands for "`updated_at` is still what was read", and
every action that writes a row clears the flag in all pictures of that row
(`Stamped`). `beat[w]` is the heartbeat thread: `waiting`, `due` (its interval
is over) or `off`, with the number of exceptions in a row. `starts` and
`overridden` are history: how often a job was handed out, and which jobs an API
request wrote. `Tick` is one interval passing. With `Timely` it waits for due
heartbeats and open claims, so that both take less than an interval; without it
any process may be paused for any time between two transactions.

**JobLifecycle** is what all this is for: a job is submitted, started by one
worker at a time, at most `Budget` times, settled once and then left alone.
**JobQueueRefinement** maps the table and the workers to it: a row's status is its
phase, its attempt the number of tries, a busy worker's job its work. A job an
API request wrote is `taken_over`; the promise no longer covers it.

**InlineQueue** is the other mode: whoever requests a job spawns a task on it,
also on an active job that is handed back, so two tasks may share a job. `Reboot`
is the end of the process and the recovery of the next one; `AbortTask` is an
exception nobody records.

**IngestionRuns** is a table of its own. A process (a worker, or an API request,
which inline also executes) asks for a run: `Join` the newest active one, or
`FindNone` and, in the next transaction, `CreateRun`. Idle workers `Poll`.
Executing is `ReadRun`, `StartRun`, `CompleteRun` or `FailRun`, each naming the
run by its id; a scan then looks again (`Report`). `errand[p]` is what the process
wants the run for, `later[r]` the active runs with a later `updated_at` (clocks
agree). A uuid is a number that is free again when its run is closed and nobody
holds it, so behaviours may use any number of runs. A crash may be the death of
the process or the database being away for the except clause.

**Workspaces** is a user's own data. A request (`desk[c]`) takes one transaction
per action: an upload looks at the active profile (`BeginUpload`), saves into the
workspace that is active by then (`SaveUpload`) and queues a job for the one that
is active after that (`QueueProfileJob`); asking for matches looks for a profile,
for a job and creates one in three steps. `FindSwitch` and `FindDeletion` are
separate from what they prepare because PostgreSQL's READ COMMITTED lets others
write between a SELECT and the UPDATE after it, and because SQLite's driver opens
its transaction with the first write. Threads (`task[t]`) execute profile and
matching jobs. A profile job checks the resume (`CheckResume`) and writes the profile
(`StoreProfile`) in two transactions. A matching job reads the profile of the active
workspace (`BeginMatching`), the preferences of that workspace (`ReadPreferences`) and, for
target roles that were never set, its profile again (`ReadDefaultRoles`), in a
transaction each. Postings do not change here, so that the hash of a posting
(`career.py:412`) never differs and `IsCached` leaves it out. `Abandon` is
a request that ends early: where foreign keys are enforced, a workspace that any
job names cannot be deleted at all. A resume stands for its text and for the
profile that is extracted from it. `uploaded`, `had`, `early`, `raced` and `wiped`
are history.

**Corpus** has one listing per posting and lets postings that describe one role
(`Similar`, which stands for equal canonical keys and descriptions) share a job,
named after the posting that created it. `FetchSource` is an answer of a source and
what `bulk_upsert_jobs` reads for it, `SaveJobs` what it writes. Reconciliation is
three steps, for PostgreSQL runs it as READ COMMITTED: `ReadListings` reads the rows,
`CountListings` writes them, which locks them, and counts what is left of their
jobs, and `Reconcile` commits. Closing one listing is `CountOthers` and
`MarkInactive`. Between the two steps others see the old rows and wait for the
locked ones (`OthersOf`). `FailSource` is an exception, the end of the process, or
the cap on jobs, with which reconciliation is left out; `AbandonCheck` is an error
in a check. `Answers` is what adapters make of a board, which changes from one fetch
to the next: all of it, some of it if
they ask for a limited number (`Windowed`), nothing if they turn an HTTP error
into an empty list (`Swallowing`). An adapter whose name differs from what it
writes into its postings (`Misnamed`; "hacker news" and "hackernews") is never
reconciled. An availability check finds a page gone or there (`CountOthers`,
`MarkActive`) whatever the boards and the other writers do meanwhile; it has chosen
its listings up to a hundred requests ago, so any listing there has been may be its
next. `absent`, `board`, `muddled`, `overlap` and `crossed` are history.

**Pages** walks through one of five lists: jobs by time or by name, applications by
time or by status, matches by score. A row is its place in the orders. `Before`
is what ORDER BY says, and where it leaves ties any order is possible; `After` is
the comparison with the cursor; `CursorAt` what encoding and decoding do to the
last row, which cuts a title at a separator of its own. `Save` gives a set of
rows one new `updated_at`, as a batch of ingestion does; `Withdraw` closes or
deletes them.

**Eligibility** is `parse_work_arrangement`, `is_job_location_eligible` and
`classify_job` as functions of what the patterns find in a posting, and a user who
changes the preferences one choice at a time. The countries found in a posting
(`countries`) and the places it spells out (`places`) are independent: the former are
found by names and abbreviations ("IND", "Remote - IN") in the title and the
description without what they say of headquarters, the latter are the user's own words,
looked for in the location as well. `Denotes` says which place means which country
where the code compares names (`_matches_remote_applicant_constraint`). Target roles that
were never set (NULL, `named` is false) are the profile's, an empty list leaves the decision to
`profile_matches_job`, and an update stores what it was shown. A board that lists remote jobs is
told from others only where the text has no words of its own (`PossiblePosting`).

**Services** is all four. None of these models reads what another one keeps, so it
runs one `part` at a time with the others at rest. What one takes for granted of
another is weaker than what the other does: `Pages` allows any rows to be saved or
withdrawn at any time, `Corpus` any board at any fetch, `Workspaces` any
set of postings to match.

Definitions marked *Fault* are deliberate bugs. Each takes the place of the
definition it is named after to see that a property notices; no run uses one.

## 3. The runs

| Run | Instance | Checks |
|---|---|---|
| `leased_jobs` | 2 timely workers, 2 clients, 1 job, 1 crash, 1 missed heartbeat, lease 3, stale 2, 3 attempts | types; one executor; the lease covers it; stale means abandoned; settled stays settled; implements `JobLifecycle` |
| `paused_workers` | 2 workers, 1 client, 1 job, 1 crash, 3 attempts, anyone paused for any time, fairness | claims take free jobs; pictures are true; attempts count hand-outs; dead letters were tried; every job settles |
| `backlog` | 2 timely workers, 2 jobs of one kind, polls, 1 crash, fairness | one executor; settled stays settled; every job settles |
| `inline_tasks` | 2 tasks, 1 client, 2 jobs, 1 restart, 1 abort, fairness | types; running rows are executed; answered profiles are not generated; running ends |
| `ingestion_runs` | 2 workers that poll and scan, 1 client, 4 runs at a time, 1 crash, fairness | types; running runs are fetched or orphans; the backlog is bounded; runs end once scans pause; scans take over orphans |
| `services` | each part as below | types; one workspace is active; matches and resumes stay home; matching leaves no gaps; jobs are offered while listed, unless transactions overlap; roles have one job; closed after two misses in a row; walks are exact and end; wider wishes keep jobs; what is shown as open is |
| `dead_letters` | as `leased_jobs`, 1 client | **violated**: permanent failures are dead letters |
| `one_worker` | as `leased_jobs`, 1 client | **violated**: one worker per job, whatever requests do |
| `inline_retries` | 1 job, 1 restart, no failure that asks for a retry, fairness | **violated**: requeued jobs are retried |
| `ingestion_scans` | inline, 2 requests, no crash | **violated**: a scan that reports finds a failure or a result |
| `retired_listings` | 1 posting, 1 executor | **violated**: what reconciliation closes was not on the board |
| `pages_overlap` | walks as in `services` | **violated**: two pages of jobs do not overlap |

### Bounds

Two workers are enough for every race the code has: a claim, a lease and a
row know of one other owner at most, and a third worker only repeats the second.
One job with every request kind shows the life of a row; `backlog` adds the
second job for what relates two rows (claim order, newest active row, a
client's or worker's picture of the wrong row). `MaxAttempts = 3` is the code's
value. Lease and staleness are 3 and 2 ticks instead of 10 and 20: what the
properties depend on is that the lease is longer than the heartbeats that may be
missed plus the two intervals around them (`LeaseOutlastsMisses`, true of the
code up to eight exceptions in a row) and that staleness exceeds them too; the
proofs hold for every value with that relation. `MaxCrashes`, `MaxMissed`,
`NumJobs`, `NumRuns`, `MaxReboots` and `MaxAborts` are the only counters that are
capped. `NumRuns` never holds up a creation: at most as many runs are active or
held as there are processes.
`leased_jobs`, `dead_letters` and `one_worker` use symmetry in workers and clients,
`services` in executors; the runs with liveness do not. `paused_workers` lets no
heartbeat fail (`leased_jobs` does): a worker that is paused is one without
heartbeats anyway, and its safety properties are theorems for every bound.

`services`: two workspaces, two requests at a time and three in all, and one
thread are enough to switch, upload or delete between any two steps of another
request or of a job; a second thread would only overwrite the same row of
matches, which `MatchingLeavesNoGaps` does not promise to survive. Two similar
postings of two sources, two executors and a check bring every pair of writers to
one job, on one of its listings or on both; an answer with a miss and one without,
in any order, need no more. That two postings of one batch share a job is in the model
(`IsAssignment`) but not in this instance: with a third posting, or with two of one source,
the same properties hold (815,696 states for three postings and one executor,
1,446,790 for two postings of one source), which takes too long together with the rest. Three rows with up to four time
stamps, two keys of which one contains the separator, and pages of one or two make ties within a page and
across its end. One region, two countries besides India, which postings name alone or
together, and two roles, one of which admits the
other, take every branch of the decision. A user chooses from India, Asia and "Delhi,
India", and a posting spells out none of them, India, or both; which countries are
found in it is chosen apart. One set of places and of roles in the profile is
enough, for they are fixed. `MaxRequests`, `Slot`, `FirstStamp`,
`LastStamp`, `Mentions`, `Spellings`, `WordSets`, `Homes`, `Careers` and `Wanted` are the
bounds, and misses are counted up
to the threshold (`CappedMiss`).

### Fairness

`Fairness` of `JobQueue` says: time passes; a worker that is up keeps taking the
next step (its loop in `worker.py:145` never ends and every step is a call that
returns); its heartbeat thread wakes up; a worker that crashed is started
again (`railway.toml:8`, `restartPolicyType = "ON_FAILURE"`). Each is weak
fairness of one step of one process. Finishing has a condition of its own because
progress reports would otherwise be allowed for ever; a matching run reports once
per corpus job. Nothing is assumed of clients, of failures or of crashes. In
`InlineQueue` tasks and requests in progress take their next step and time
passes; nobody has to ask for anything. In `IngestionRuns` workers poll whenever
they are idle and there is a queued run to see, which supposes that the queue of
background jobs is empty now and then (`worker.py:142` looks there first).
`RunsEnd` says nothing of scans that go on for ever: two of them may keep
reopening the newest run in turn, and a run behind it waits. `ScansTakeOver` has
its assumption, a worker that keeps scanning, as a premise.

## 4. The disagreements

- `dead_letters`. `worker.py:11` says permanent failures move the job to
  `dead_letter`. `career.py:217`, `306` and `357` write `failed`; so do the tests
  of the worker contract. Only exhausted retries become dead letters.
- `one_worker`. A poll reads a row that has been queued for more than ten minutes;
  a worker claims it; the poll writes `failed` and thereby clears the lease; the
  worker writes `running` (no look at the row), which is now a running row
  without a lease; a second worker claims and executes it too. The compare that
  protects claims (`database.py:1692`) is missing in `get_active_background_job`.
- `inline_retries`. `database.py:1730` leaves "Job interrupted by a process
  restart. Will retry." in a row of a mode in which nobody claims queued rows. In
  this run no failure asks for a retry (`Backoffs = {}`), so the row that waits for
  ever is one that the restart put back while its task was executing.
- `ingestion_scans`. `career.py:283` propagates an ingestion failure to the scan,
  but only if the run still says `failed` when the scan looks again. A second
  executor that read the run before the failure starts it again; the scan finds
  `running`, no result, and completes with zero new jobs. `worker.py:127` speaks
  of claiming a run; `run_ingestion` claims nothing.
- `retired_listings`. `http_sources.py:379` (WeWorkRemotely) answers an HTTP error
  with an empty list, which `fetch_configured_sources` reconciles like any other;
  `database.py:2300` reconciles "after a successful fetch". Two outages in a row
  retire every listing of the source. Adapters that ask for a limited number
  (Jobicy 50, SmartRecruiters 100) do the same to what falls off their window.
- `pages_overlap`. `database.py:2581` orders by `updated_at` descending and `job_id`
  ascending, `database.py:2591` resumes with "less than" on both. In a batch, which
  has one `updated_at`, the next page starts over with what this one has shown
  and never gets to the rest. `tests/test_pagination.py:63` sees no overlap since it
  saves its jobs one by one. `list_applications` (3018) has the same comparison.

Met while modelling, without a run of their own; the properties excuse them by name:

- `docs/architecture/DECISIONS.md:53` says exactly one workspace is active at a
  time. With three workspaces, a deletion that has read `is_active` of the active
  one (`database.py:1294`), a switch to a second, and then the deletion activate the
  oldest of the rest as well: two are active (`raced` in `OneActive`). None is
  active after two requests have deleted the last two workspaces (`app.py:736`).
- `DECISIONS.md:57` says resume text is scrubbed on deletion. A profile job that has
  checked the resume (`career.py:193`) writes it back after a deletion or a new
  upload that comes between its read and its write; `ResumesStayHome` only promises that it
  is the workspace's own.
- An upload of the resume that is already extracted is answered with what is
  stored, also if that was extracted from an earlier resume whose successor
  failed (`career.py:147`); an upload that races a switch carries one workspace's
  extracted profile into the other.
- A title with the separator in it sends a walk by name back (`database.py:826`);
  the cursor of `list_applications` by status is not looked at (`Derails`).
- The label for candidates in India and the location filter read the same signals
  by different rules (`work_arrangement.py:239`, `365`; `NamesOthers`). A remote
  posting for Asia that names one other country is shown as open and filtered out:
  the label goes by the region, the filter by the country. So is one that is
  restricted to two countries, unless they are the United States and Canada: the
  label has rules for one country and for more than two, and takes two for an open
  list (`work_arrangement.py:250`). The proof of `OpenIsOpen` stopped at this case
  when an instance with one country per posting had not met it.
- A job with an office that names India by an abbreviation only, as "Engineer (hybrid)
  IND" in Bengaluru, is labelled "Hybrid · India" and filtered out for a user who
  prefers "India": the label knows the abbreviation (`work_arrangement.py:167`), the filter
  looks for the word (`350`, `431`; `AbbreviatesIndia`). The other way round, an
  on-site job whose location is "Bengaluru, India" is said not to be open to candidates
  in India, since the label does not look at the location
  (`work_arrangement.py:141`; 258 calls it a "specific non-India location"); the filter lets it
  through, so only the badge is wrong.
- Matches are kept by job, workspace and preferences (`career.py:405`). With target roles
  set, those computed from an earlier resume are hits for the next one;
  `MatchingLeavesNoGaps` compares preferences, as the code does.
- Two executors that save similar postings at the same time create a job each
  (`crossed` in `JobsAreDistinct`).
- `database.py:2306` says that jobs without active listings become inactive. Two
  transactions that each close one of the last two listings of a job, one of them a
  check or both reconciling their own source, each still count the other's, and the
  job stays offered (`database.py:2373`, `2661`). A count that began before a listing was
  made active and commits after it withdraws a job that is listed. The
  first lasts until one of its listings is saved or found again, for reconciliation
  looks at active listings only (`overlap` in `AvailableIffListed`).
- Reconciliation writes misses it has read before it waited for the row
  (`database.py:2337`), and with them an availability check that came between is
  undone (`muddled` in `MissesAreConsecutive`).

## 5. The proofs

`tlapm` proves, for every number of workers, clients, jobs, attempts, crashes and
missed heartbeats, of `Spec` of `JobQueue`:

| Theorem | States | Assumes besides the modules' ASSUMEs |
|---|---|---|
| `TypeCorrect` | `TypeOK` | nothing |
| `PicturesTrue` | `PicturesAreTrue` | nothing |
| `HandOutsCounted` | `AttemptsCountHandOuts` | nothing |
| `DeadLettersTried` | `DeadLettersWereTried` | nothing |
| `ClaimsTakeFree` | `ClaimsTakeFreeJobs` | nothing |
| `LeaseCovers` | `LeaseCoversExecution` | `Timely`, `LeaseOutlastsMisses` |
| `Exclusive` | `ExclusiveExecution` | the same |
| `StaleAbandoned` | `StaleMeansAbandoned` | the same and `StaleTicks > MaxMissed` |
| `SettledStays` | `SettledForGood` | `Timely`, `LeaseOutlastsMisses` |
| `Implements` | `ImplementsLifecycle` | `Timely`, `LeaseOutlastsMisses` |

The lemmas about single statements and requests, which both modes need, are in
`JobRequestsProofs`.

*Claims* (`JobQueueProofs`). The inductive invariant `ClaimInv` is the types,
`OpenPictures` (only a claim in progress holds a picture that is still current),
`PicturesAreTrue` and `AttemptsCounted`. Pictures alone are not inductive: that
a step elsewhere leaves a picture true needs that every write outdates the
pictures of its row (`StampedWrite`), that rows only get freer with time, and
that a row nobody has created cannot be in a picture. The count of hand-outs
then needs the pictures: the attempt a claim writes is one more than the row's
only because the picture it was computed from is true.

*Leases* (`JobRefinementProofs`, first part). `LeaseInv` adds `LeaseCoversExecution` and
`FreshClaims` (a timely claim hands out a full lease). Each tick takes one from
the lease and adds one to `Slack`, the heartbeats missed or due; a heartbeat
resets both; so the lease of an executed job is at least `LeaseTicks -
(MaxMissed + 1) > 0`, nobody can claim the job (`ExecutedIsTaken`), and its row
names one owner (`SoleExecutor`). `SettledStays` goes through every action
that writes a row and shows that the row is not a settled one.

*Refinement* (`JobRefinementProofs`, second part). `RefinementInv` adds `RequestedJobsExist`:
what a request goes back to exists, since rows are never deleted. There is one
lemma per step of `JobLifecycle` (`SubmitMaps`, `StartMaps`, ...) that says what
a step of the queue must do to look like it, and `StepMaps` goes through the
queue's actions. A claim looks like `Start` because nobody executes a row that
can be claimed (`ExecutedIsTaken`); an unguarded write of a worker looks like
`Leave` or `Settle` because its row is still running under it (`LeaseCovers`).

*Ingestion* (`IngestionProofs`), of `Spec` of `IngestionRuns`, for any number of
workers, requests, runs and crashes and in both modes: `IngestionTypes`,
`RunningFetched` and `BacklogBound`. `StepShapes` reduces every action to what it
does to one process and one row. The backlog's inductive invariant counts more
than active runs: runs that are active or that a late process is about to make
active again (`Live`), plus the processes about to create one (`Creating`). Only a
look that finds nothing adds to the sum, and at that moment every live run has a
starting process of its own, which is not among those that create.

*Inline mode* (`InlineProofs`), of `Spec` of `InlineQueue`, for any number of tasks,
clients, jobs and restarts: `InlineTypesAreKept`, `RunningIsExecuted` and
`AnsweredIsNotGenerated`. That a running row has a task is nearly inductive. That no
task generates an answered profile is not: it needs `LoadedAreOpen` (what a task has
read of its profile job stays true), hence that no second task and no request can
complete that job in between (`OneTaskEach`), hence that what is handed to a task or
kept by a request exists (`GivenJobsExist`), or a job created later could be the
same row. Scan and matching jobs do get two tasks, which is why the invariant speaks
of profile jobs. `Undisturbing` says what a step may do without disturbing any of it.

*Corpus* (`CorpusProofs`), of `CorpusSpec`, for any number of postings, sources and
executors:

| Theorem | States |
|---|---|
| `CorpusTypesAreKept` | `CorpusTypeOK` |
| `OfferedIffListed` | `AvailableIffListed` |
| `RolesAreDistinct` | `JobsAreDistinct` |
| `ClosedByConsecutiveMisses` | `MissesAreConsecutive` |
| `CompleteAnswersRetireTheGone` | no listing on the board is closed, of sources that ask for all and raise their errors |

That a job is offered exactly while one of its listings is active is
kept by transactions that write what they counted some time ago. So the invariant says
of each transaction in progress what it has counted: that still stands for every
job no other commit was about (`CountsStand`, `CheckStands`), because the listings it
has written are locked (`LocksApart`) and rows once read stay listings of the same job
(`RowsAreListings`). `JobsAreDistinct` needs what executors are about to create
(`AssignmentsHold`), `MissesAreConsecutive` the misses they are about to write
(`MissesCounted`). The last theorem is the other half of `retired_listings`: it names
the condition under which what `database.py:2300` says is true.

*Workspaces* (`WorkspacesProofs`), of `WorkspacesSpec`, for any number of workspaces,
requests, resumes, threads and slots: `WorkspacesTypesAreKept`, `OneIsActive`
(`OneActive`), `MatchesAreOwn` (`MatchesStayHome`), `ResumesAreOwn` (`ResumesStayHome`)
and `NoPostingIsSkipped` (`MatchingLeavesNoGaps`). The invariant has two halves that
do not meet. `Placed` is `OneActive` without its count: two active workspaces
are equal. `Homely` is about data that travels: two threads never have one job
(`TasksApart`), so the comparison a profile job has made with its workspace's resume is
about the resume it stores (`StoresUploaded`), and what a matching job writes comes from
a profile its workspace has had (`MatchesHad`, `ProfilesHad`).

*Services* (`ServicesProofs`). Of `PagesSpec`, for any number of rows, keys and time
stamps, every page size and all five lists: `WalksReturnAllOnce` (`WalksAreExact`) and
`WalksComeToAnEnd` (`WalksEnd`). Of the rows a walk promises, those returned are those the
cursor has passed (`WalkIsOrdered`); for matches, those of a lower rank than its
offset (`OffsetIsRank`). This is inductive because promised rows tie with no other
(`PromisedAreApart`) and a row that is saved gets a stamp above the cursor's
(`WalkBegins`). A walk ends since every page leaves fewer rows ahead (`WalkShrinks`). The
assumptions on the constants are that there is a key and a first time stamp
within the bound, and that no two keys are neighbours, so that a name cut at the separator sorts
between its neighbours. Of `EligibilitySpec`, for any countries, regions, places and
names for them, roles and compatibility, of which it assumes only that a text names
finitely many countries and that "India" means India: `OpenIsOpen` (`ShownAsOpenIsOpen`) and `WiderWishesLoseNothing`
(`WiderWishesKeepJobs`). `ServicesAreTheirParts` shows that a behaviour of the services is a
behaviour of each part, from which `ServicesTypesAreKept` and `ServicesAreSafe`
carry every property of the run `services` over to `ServicesSpec`.

With these, every safety property that a passing run checks is a theorem for
every value of the constants. What stays with TLC:

- liveness (`EveryJobSettles`, `RunningEnds`, `RunsEnd`, `ScansTakeOver`), for TLAPS
  does not reason about fairness;
- the violations, which are single behaviours;
- that the bounds are reached and the cases occur, which a proof does not show.

## 6. What is left out, and why it does not matter

- Users and workspaces of a job: the queue treats jobs of all users alike except
  for `get_active_background_job`, whose filter on user and workspace makes one of
  each the worst case.
- Payload, progress, error text, `started_at`: nothing in the queue decides on them.
- A heartbeat that is already under way when `stop` gives up after five seconds:
  it can extend a lease only of a row that is running under the same worker.
- `_execute_job`'s branch for an unknown kind: no caller creates one.
- The worker's polling for ingestion runs between two claims: it touches no job.
  `IngestionRuns` models it, with scan jobs reduced to their use of a run.
- Renaming a workspace changes a label. Private jobs are seen by their owner only and
  join no other job. `active_listing_count` is shown and decides nothing.
- What an upsert reads decides which job a listing joins, so it is a step of its own.
  What it writes is one step of `Corpus`: until it commits nobody sees any of it, and
  the listings it counts are its own, which nobody else can close before that.
  Postings that the classification rejects get no listing and are left out; a listing
  whose posting is rejected later counts as returned and stays as it is.
- Applications are rows to be listed; `save_application` is one statement.
- Accounts, sessions and tokens: each operation is a single transaction on the rows
  of one user, and what is left is cryptography.
- The patterns of the classification, the scores of `tech_classification.py`, the
  parsers of the sources and the prompts are data.
- The command line, the legacy scripts, the importers, the migrations, email and
  the web client run once, sequentially, or keep no state.
- A claim's SELECT and UPDATE run in one transaction. Under PostgreSQL's READ
  COMMITTED others may write in between, which is what the model allows; SQLite
  allows less.

## 7. The plan

1. *(done)* The job queue in both modes, its abstract life cycle, the proofs of
   the claim and lease invariants and of the refinement.
2. *(done)* **IngestionRuns**: queueing, workers without a claim, scan jobs that
   join an active run, crashes; proofs of its safety.
3. *(done)* **Workspaces**: one active workspace, isolation of jobs, lost updates
   between check and save, the match cache.
4. *(done)* **Corpus**: upsert, reconcile, availability, with the sources as an
   environment that succeeds, fails or yields nothing.
5. *(done)* **Pages** and **Eligibility**, and **Services** over the four.
6. *(done)* Proofs of the inline mode, of `Corpus`, `Workspaces`, `Pages` and
   `Eligibility`, and of `Services` over them.
7. An abstract specification of the inline mode's life cycle and of what a walk through
   a list promises, with refinements as for the queue.

To check: `tlc -config LeasedJobs.cfg MCJobQueue` and so on; `tlapm M.tla` for the
modules `JobRequestsProofs`, `JobQueueProofs`, `JobRefinementProofs`, `InlineProofs`,
`IngestionProofs`, `CorpusProofs`, `WorkspacesProofs` and `ServicesProofs`.
