------------------------------ MODULE Workspaces ------------------------------
(***************************************************************************)
(* The workspaces of one user: which one is active, and the profile, the   *)
(* preferences and the matches each of them owns.  API requests and the    *)
(* profile and matching jobs work on them, one transaction at a time, so a *)
(* request may switch, upload or delete between two steps of another.      *)
(* Deleting and switching read the row they are about in a statement of    *)
(* its own, before their transaction locks anything.                       *)
(*                                                                         *)
(* A resume stands for its text; a profile that the LLM extracted from it  *)
(* is represented by the same value.  JobQueue is about the life of a job, *)
(* this module about what a job does.                                      *)
(***************************************************************************)
EXTENDS Naturals, FiniteSets, SequencesExt

CONSTANTS
  Workspace,   \* workspace ids
  Default,     \* the id ws_default_<user>
  Resume,
  Preference,  \* preferences a user may set
  CorpusJob,   \* jobs of the corpus that classify as TARGET
  Client,      \* requests in progress
  Task,        \* threads that execute jobs
  Slot,        \* bound: jobs in the queue
  MaxRequests, \* bound: requests in a behaviour
  None         \* no resume text, no profile, no preferences

ASSUME WorkspacesAssumption ==
  /\ Default \in Workspace
  /\ None \notin Resume \cup Preference \cup Workspace \cup CorpusJob
  /\ MaxRequests \in Nat

VARIABLES
  live,      \* the workspaces in the order of created_at
  active,    \* those with is_active
  prefs,
  profile,   \* rows of profiles; absent for no row
  match,     \* rows of matches: the profile and preferences they were computed from
  queue,     \* jobs queued or running
  desk,      \* what each request has read and is about to do
  task,      \* what each thread has read and is about to do
  served,    \* requests so far
  early,     \* history: workspaces created while none was active, until one is
  raced,     \* history: a deletion or a switch acted on a row that had changed
  uploaded,  \* history: resumes that requests have saved into each workspace
  had,       \* history: profiles each workspace has had
  wiped      \* history: threads whose workspace was deleted since they began

workspaceVars == <<live, active, prefs, profile, match, queue, desk, task, served,
                   early, raced, uploaded, had, wiped>>

Text == Resume \cup {None}
ProfileRow == [present : BOOLEAN, resume : Text, extracted : Text]
Absent == [present |-> FALSE, resume |-> None, extracted |-> None]
MatchRow == [present : BOOLEAN, origin : Text, pref : Preference \cup Text]
Unmatched == [present |-> FALSE, origin |-> None, pref |-> None]
JobKind == {"profile_generation", "matching"}
Job == [kind : JobKind, home : Workspace, resume : Text]
NoJob == [kind |-> "none"]

IdleDesk == [step |-> "idle", ws |-> None, resume |-> None, carry |-> None, was |-> FALSE]
DeskStep == {"idle", "answering", "saving", "queueing", "asking", "creating",
             "switching", "deleting", "removing"}
DeskRow == [step : DeskStep, ws : Workspace \cup {None}, resume : Text, carry : Text,
            was : BOOLEAN]
IdleTask == [step |-> "idle", slot |-> None, ws |-> None, origin |-> None,
             pref |-> None, todo |-> {}, at |-> None, failed |-> {}]
TaskStep == {"idle", "extracting", "storing", "preparing", "defaulting", "matching"}
TaskRow == [step : TaskStep, slot : Slot \cup {None}, ws : Workspace \cup {None},
            origin : Text, pref : Preference \cup Text, todo : SUBSET CorpusJob,
            at : CorpusJob \cup {None}, failed : SUBSET CorpusJob]

WorkspacesTypeOK ==
  /\ live \in Seq(Workspace) /\ IsInjective(live)
  /\ active \in SUBSET Workspace
  /\ prefs \in [Workspace -> Preference \cup {None}]
  /\ profile \in [Workspace -> ProfileRow]
  /\ match \in [Workspace -> [CorpusJob -> MatchRow]]
  /\ queue \in [Slot -> Job \cup {NoJob}]
  /\ desk \in [Client -> DeskRow]
  /\ task \in [Task -> TaskRow]
  /\ \A t \in Task : task[t].step # "idle" => queue[task[t].slot] # NoJob
  /\ served \in 0..MaxRequests
  /\ early \subseteq Workspace /\ raced \in BOOLEAN
  /\ uploaded \in [Workspace -> SUBSET Resume]
  /\ had \in [Workspace -> SUBSET Text]
  /\ wiped \subseteq Task

\* A user who has just registered, or one who has two workspaces, the first
\* with a profile.
WorkspacesInit ==
  /\ \/ live = <<>> /\ profile = [w \in Workspace |-> Absent]
     \/ \E w \in Workspace \ {Default}, r \in Resume :
          /\ live = <<Default, w>>
          /\ profile = [v \in Workspace |->
               IF v = Default THEN [present |-> TRUE, resume |-> r, extracted |-> r]
               ELSE Absent]
  /\ active = IF live = <<>> THEN {} ELSE {Default}
  /\ prefs = [w \in Workspace |-> None]
  /\ match = [w \in Workspace |-> [p \in CorpusJob |-> Unmatched]]
  /\ queue = [s \in Slot |-> NoJob]
  /\ desk = [c \in Client |-> IdleDesk]
  /\ task = [t \in Task |-> IdleTask]
  /\ served = 0
  /\ early = {} /\ raced = FALSE
  /\ uploaded = [w \in Workspace |-> {profile[w].resume} \ {None}]
  /\ had = [w \in Workspace |-> {profile[w].extracted}]
  /\ wiped = {}

-----------------------------------------------------------------------------
(* The active workspace *)

Live == ToSet(live)

\* _active_workspace_id: the workspace a statement that names none is about.
IsActive(w) == w \in active

\* The same with create_default_if_missing.
IsActiveOrDefault(w) == IF active = {} THEN w = Default ELSE IsActive(w)

\* History: workspaces created while none is active are excused until one is.
RecordEarly(new) ==
  early' = IF active' # {} THEN {} ELSE IF active = {} THEN early \cup new ELSE new

\* The row of the default workspace is created or made active if none is.
ActivateDefault ==
  /\ live' = IF active = {} /\ Default \notin Live THEN Append(live, Default) ELSE live
  /\ active' = IF active = {} THEN {Default} ELSE active
  /\ RecordEarly({})

SameWorkspaces == UNCHANGED <<live, active, early, raced>>

-----------------------------------------------------------------------------
(* Rows *)

\* A profile row is written or removed, by a request or by a job.
SetProfile(w, row) ==
  /\ profile' = [profile EXCEPT ![w] = row]
  /\ had' = [had EXCEPT ![w] = @ \cup {row.extracted}]

SameProfiles == UNCHANGED <<profile, uploaded, had, wiped>>

\* create_background_job.
Enqueue(kind, w, r) ==
  /\ \E s \in Slot : queue[s] = NoJob
  /\ queue' = [queue EXCEPT ![CHOOSE s \in Slot : queue[s] = NoJob] =
                 [kind |-> kind, home |-> w, resume |-> r]]

\* A request goes on, or is answered.
Proceed(c, d) == desk' = [desk EXCEPT ![c] = d]
Rest(c) == Proceed(c, IdleDesk)
AtStep(c, step) == desk[c].step = step

\* A request arrives.
Arrive(c) ==
  /\ AtStep(c, "idle")
  /\ served < MaxRequests
  /\ served' = served + 1

-----------------------------------------------------------------------------
(* Requests about workspaces *)

\* Nothing refers to w: a uuid is new.
IsNew(w) ==
  /\ w # Default /\ w \notin Live
  /\ profile[w] = Absent /\ \A p \in CorpusJob : match[w][p] = Unmatched
  /\ \A s \in Slot : queue[s] # NoJob => queue[s].home # w
  /\ \A c \in Client : desk[c].ws # w
  /\ \A t \in Task : task[t].ws # w

CreateWorkspace(c, w) ==
  /\ Arrive(c) /\ IsNew(w)
  /\ live' = Append(live, w)
  /\ prefs' = [prefs EXCEPT ![w] = None]
  /\ uploaded' = [uploaded EXCEPT ![w] = {}]
  /\ had' = [had EXCEPT ![w] = {None}]
  /\ active' = active /\ RecordEarly({w})
  /\ UNCHANGED <<profile, match, queue, desk, task, raced, wiped>>

\* switch_workspace reads that the user owns w, and then writes.
FindSwitch(c, w) ==
  /\ Arrive(c) /\ w \in Live
  /\ Proceed(c, [IdleDesk EXCEPT !.step = "switching", !.ws = w])
  /\ SameWorkspaces /\ SameProfiles
  /\ UNCHANGED <<prefs, match, queue, task>>

ActiveAfterSwitch(w) == {w} \cap Live

SwitchWorkspace(c) ==
  /\ AtStep(c, "switching")
  /\ active' = ActiveAfterSwitch(desk[c].ws)
  /\ live' = live /\ RecordEarly({})
  /\ raced' = (raced \/ desk[c].ws \notin Live)
  /\ Rest(c)
  /\ SameProfiles
  /\ UNCHANGED <<prefs, match, queue, task, served>>

\* The endpoint counts the workspaces in a transaction of its own.
CountWorkspaces(c, w) ==
  /\ Arrive(c) /\ Len(live) > 1 /\ w \in Live
  /\ Proceed(c, [IdleDesk EXCEPT !.step = "deleting", !.ws = w])
  /\ SameWorkspaces /\ SameProfiles
  /\ UNCHANGED <<prefs, match, queue, task>>

\* delete_workspace reads whether the workspace is there and active.
FindDeletion(c) ==
  /\ AtStep(c, "deleting")
  /\ IF desk[c].ws \in Live
     THEN Proceed(c, [desk[c] EXCEPT !.step = "removing", !.was = IsActive(desk[c].ws)])
     ELSE Rest(c)
  /\ SameWorkspaces /\ SameProfiles
  /\ UNCHANGED <<prefs, match, queue, task, served>>

\* The oldest of the workspaces that remain, if any.
Oldest(ws) == IF ws = <<>> THEN {} ELSE {Head(ws)}

\* Fault: a deletion leaves it to the next request to activate another.
ActiveAfterDeletionOnly(w, was) == active \ {w}

ActiveAfterDeletion(w, was) ==
  (active \ {w}) \cup IF was THEN Oldest(RemoveFirst(live, w)) ELSE {}

DeleteWorkspace(c) ==
  LET w == desk[c].ws IN
    /\ AtStep(c, "removing")
    /\ live' = RemoveFirst(live, w)
    /\ active' = ActiveAfterDeletion(w, desk[c].was)
    /\ RecordEarly({})
    /\ raced' = (raced \/ desk[c].was # IsActive(w))
    /\ SetProfile(w, Absent) /\ UNCHANGED uploaded
    /\ wiped' = wiped \cup {t \in Task : task[t].ws = w}
    /\ match' = [match EXCEPT ![w] = [p \in CorpusJob |-> Unmatched]]
    /\ prefs' = [prefs EXCEPT ![w] = None]
    /\ Rest(c)
    /\ UNCHANGED <<queue, task, served>>

\* update_workspace_preferences, of a workspace that is named or of the active one.
UpdatePreferences(c, w, p) ==
  /\ Arrive(c)
  /\ \/ w \in Live /\ SameWorkspaces
     \/ IsActiveOrDefault(w) /\ ActivateDefault /\ UNCHANGED raced
  /\ prefs' = [prefs EXCEPT ![w] = p]
  /\ SameProfiles
  /\ UNCHANGED <<match, queue, desk, task>>

-----------------------------------------------------------------------------
(* Requests about profiles *)

\* queue_profile_generation reads the active workspace's profile: the resume
\* it has been extracted from is answered, any other is saved.  What was
\* extracted from an earlier resume is kept until the job is done.
BeginUpload(c, r) ==
  \E row \in IF active = {} THEN {Absent} ELSE {profile[w] : w \in active} :
    /\ Arrive(c)
    /\ Proceed(c, [IdleDesk EXCEPT
         !.step = IF row.resume = r /\ row.extracted # None THEN "answering" ELSE "saving",
         !.resume = r, !.carry = row.extracted])
    /\ SameWorkspaces /\ SameProfiles
    /\ UNCHANGED <<prefs, match, queue, task>>

\* retry_resume_extraction: the resume of the active workspace, by force.
RetryUpload(c) ==
  \E w \in active :
    /\ Arrive(c) /\ profile[w].resume # None
    /\ Proceed(c, [IdleDesk EXCEPT !.step = "saving", !.resume = profile[w].resume])
    /\ SameWorkspaces /\ SameProfiles
    /\ UNCHANGED <<prefs, match, queue, task>>

\* A job that is completed at once is created, in the workspace active now.
AnswerUpload(c) ==
  /\ AtStep(c, "answering")
  /\ ActivateDefault /\ UNCHANGED raced
  /\ Rest(c)
  /\ SameProfiles
  /\ UNCHANGED <<prefs, match, queue, task, served>>

\* save_profile, in the workspace active now.
SaveUpload(c) ==
  \E w \in Workspace :
    /\ AtStep(c, "saving")
    /\ IsActiveOrDefault(w) /\ ActivateDefault /\ UNCHANGED raced
    /\ SetProfile(w, [present |-> TRUE, resume |-> desk[c].resume, extracted |-> desk[c].carry])
    /\ uploaded' = [uploaded EXCEPT ![w] = @ \cup {desk[c].resume}]
    /\ UNCHANGED wiped
    /\ Proceed(c, [IdleDesk EXCEPT !.step = "queueing", !.resume = desk[c].resume])
    /\ UNCHANGED <<prefs, match, queue, task, served>>

\* create_background_job, in the workspace active now, with the resume in it.
QueueProfileJob(c) ==
  \E w \in Workspace :
    /\ AtStep(c, "queueing")
    /\ IsActiveOrDefault(w) /\ ActivateDefault /\ UNCHANGED raced
    /\ Enqueue("profile_generation", w, desk[c].resume)
    /\ Rest(c)
    /\ SameProfiles
    /\ UNCHANGED <<prefs, match, task, served>>

\* delete_resume leaves the extracted profile.
DeleteResume(c) ==
  \E w \in active :
    /\ Arrive(c) /\ profile[w].present
    /\ SetProfile(w, [profile[w] EXCEPT !.resume = None]) /\ UNCHANGED <<uploaded, wiped>>
    /\ SameWorkspaces
    /\ UNCHANGED <<prefs, match, queue, desk, task>>

DeleteProfile(c) ==
  \E w \in active :
    /\ Arrive(c) /\ profile[w].present
    /\ SetProfile(w, Absent) /\ UNCHANGED <<uploaded, wiped>>
    /\ SameWorkspaces
    /\ UNCHANGED <<prefs, match, queue, desk, task>>

-----------------------------------------------------------------------------
(* Asking for matches *)

\* queue_matching: the active workspace has a profile ...
AskMatching(c) ==
  /\ Arrive(c)
  /\ \E w \in active : profile[w].extracted # None
  /\ Proceed(c, [IdleDesk EXCEPT !.step = "asking"])
  /\ SameWorkspaces /\ SameProfiles
  /\ UNCHANGED <<prefs, match, queue, task>>

\* Jobs that get_active_background_job finds, if some workspace w is active.
ActiveMatching(w) ==
  {s \in Slot : queue[s] # NoJob /\ queue[s].kind = "matching"
                  /\ (active = {} \/ queue[s].home = w)}

\* ... the workspace active now may have a matching job already ...
FindMatchingJob(c) ==
  \E w \in IF active = {} THEN {Default} ELSE active :
    /\ AtStep(c, "asking")
    /\ IF ActiveMatching(w) = {} THEN Proceed(c, [IdleDesk EXCEPT !.step = "creating"])
                                 ELSE Rest(c)
    /\ SameWorkspaces /\ SameProfiles
    /\ UNCHANGED <<prefs, match, queue, task, served>>

\* ... and if not, the workspace active now gets one.
QueueMatchingJob(c) ==
  \E w \in Workspace :
    /\ AtStep(c, "creating")
    /\ IsActiveOrDefault(w) /\ ActivateDefault /\ UNCHANGED raced
    /\ Enqueue("matching", w, None)
    /\ Rest(c)
    /\ SameProfiles
    /\ UNCHANGED <<prefs, match, task, served>>

\* The rest of a request does not happen: the database refuses a statement (a
\* workspace that a job names is deleted, where foreign keys are enforced), or
\* the process ends.
Abandon(c) ==
  /\ ~AtStep(c, "idle")
  /\ Rest(c)
  /\ SameWorkspaces /\ SameProfiles
  /\ UNCHANGED <<prefs, match, queue, task, served>>

-----------------------------------------------------------------------------
(* Executing jobs *)

requestVars == <<live, active, prefs, desk, served, early, raced>>

Busy(t, step) == task[t].step = step
JobOf(t) == queue[task[t].slot]
Continue(t, d) == task' = [task EXCEPT ![t] = d]
IsFree(s) == queue[s] # NoJob /\ \A t \in Task : task[t].slot # s

\* The job is closed, and the thread is idle.
Close(t) ==
  /\ queue' = [queue EXCEPT ![task[t].slot] = NoJob]
  /\ Continue(t, IdleTask)
  /\ wiped' = wiped \ {t}

\* The job is retried later.
Requeue(t) ==
  /\ Continue(t, IdleTask)
  /\ wiped' = wiped \ {t}
  /\ UNCHANGED queue

\* run_profile_generation: nothing to do for a workspace without a profile.
BeginExtraction(t, s) ==
  /\ Busy(t, "idle") /\ IsFree(s) /\ queue[s].kind = "profile_generation"
  /\ IF profile[queue[s].home].present
     THEN /\ Continue(t, [IdleTask EXCEPT !.step = "extracting", !.slot = s,
                                          !.ws = queue[s].home])
          /\ UNCHANGED queue
     ELSE /\ queue' = [queue EXCEPT ![s] = NoJob]
          /\ UNCHANGED task
  /\ SameProfiles /\ UNCHANGED <<requestVars, match>>

\* Fault: the profile is saved whatever has become of the resume.
CurrentAnyway(t) == TRUE

\* The resume is still the one the job was queued with.
StillCurrent(t) == profile[JobOf(t).home].resume = JobOf(t).resume

\* The LLM has answered; a resume that was replaced meanwhile ends the job.
CheckResume(t) ==
  /\ Busy(t, "extracting")
  /\ IF StillCurrent(t)
     THEN Continue(t, [task[t] EXCEPT !.step = "storing"]) /\ UNCHANGED <<queue, wiped>>
     ELSE Close(t)
  /\ UNCHANGED <<requestVars, profile, uploaded, had, match>>

\* save_profile, in the workspace the job names.
StoreTarget(t) == {JobOf(t).home}

StoreProfile(t) ==
  LET r == JobOf(t).resume IN
    /\ Busy(t, "storing")
    /\ \E w \in StoreTarget(t) :
         SetProfile(w, [present |-> TRUE, resume |-> r, extracted |-> r])
    /\ Close(t)
    /\ UNCHANGED <<requestVars, match, uploaded>>

\* run_matching: the profile of the active workspace, which need not be the one
\* the job was created in ...
BeginMatching(t, s) ==
  /\ Busy(t, "idle") /\ IsFree(s) /\ queue[s].kind = "matching"
  /\ \/ \E w \in active :
          /\ profile[w].present
          /\ Continue(t, [IdleTask EXCEPT !.step = "preparing", !.slot = s, !.ws = w,
                            !.origin = profile[w].extracted])
          /\ UNCHANGED queue
     \/ /\ \/ active = {}
           \/ \E w \in active : ~profile[w].present
        /\ queue' = [queue EXCEPT ![s] = NoJob]
        /\ UNCHANGED task
  /\ SameProfiles /\ UNCHANGED <<requestVars, match>>

\* The hash of the preferences is computed, and the postings are selected.
Matching(t, p) ==
  [task[t] EXCEPT !.step = "matching", !.pref = p, !.todo = CorpusJob]

\* ... then, in a transaction of its own, the preferences of that workspace, or
\* the defaults if it is gone ...
ReadPreferences(t) ==
  LET w == task[t].ws IN
    /\ Busy(t, "preparing")
    /\ Continue(t,
         IF w \notin Live THEN Matching(t, None)
         ELSE IF prefs[w] = None THEN [task[t] EXCEPT !.step = "defaulting"]
         ELSE Matching(t, prefs[w]))
    /\ SameProfiles /\ UNCHANGED <<requestVars, match, queue>>

\* ... and, for target roles that were never set, the profile once more: they
\* are those of the profile that the workspace has now.
ReadDefaultRoles(t) ==
  /\ Busy(t, "defaulting")
  /\ Continue(t, Matching(t, profile[task[t].ws].extracted))
  /\ SameProfiles /\ UNCHANGED <<requestVars, match, queue>>

\* Fault: a match computed for other preferences is taken for a hit.
IsCachedAtAll(t, p) == match[task[t].ws][p].present

\* get_match finds the posting matched under the same preferences.  The hash of
\* the posting is compared as well (career.py:412); postings are fixed here.
IsCached(t, p) ==
  LET row == match[task[t].ws][p] IN row.present /\ row.pref = task[t].pref

LookUpMatch(t, p) ==
  /\ Busy(t, "matching") /\ task[t].at = None /\ p \in task[t].todo
  /\ Continue(t, IF IsCached(t, p) THEN [task[t] EXCEPT !.todo = @ \ {p}]
                 ELSE [task[t] EXCEPT !.at = p])
  /\ SameProfiles /\ UNCHANGED <<requestVars, match, queue>>

\* Fault: the match is saved in the workspace that is active.
MatchTargetActive(t) == active

MatchTarget(t) == {task[t].ws}

\* The LLM has answered: save_match, in the workspace the profile came from.
SaveMatch(t) ==
  /\ Busy(t, "matching") /\ task[t].at # None
  /\ \E w \in MatchTarget(t) :
       match' = [match EXCEPT ![w][task[t].at] =
                  [present |-> TRUE, origin |-> task[t].origin, pref |-> task[t].pref]]
  /\ Continue(t, [task[t] EXCEPT !.todo = @ \ {task[t].at}, !.at = None])
  /\ SameProfiles /\ UNCHANGED <<requestVars, queue>>

\* No answer that can be used: the posting counts as failed.
FailMatch(t) ==
  /\ Busy(t, "matching") /\ task[t].at # None
  /\ Continue(t, [task[t] EXCEPT !.todo = @ \ {task[t].at}, !.at = None,
                                 !.failed = @ \cup {task[t].at}])
  /\ SameProfiles /\ UNCHANGED <<requestVars, match, queue>>

CompleteMatching(t) ==
  /\ Busy(t, "matching") /\ task[t].todo = {}
  /\ Close(t)
  /\ UNCHANGED <<requestVars, profile, uploaded, had, match>>

\* Any other failure, or a crash: the job is retried, or it is over.
FailTask(t) ==
  /\ ~Busy(t, "idle")
  /\ Close(t) \/ Requeue(t)
  /\ UNCHANGED <<requestVars, profile, uploaded, had, match>>

-----------------------------------------------------------------------------
RequestStep(c) ==
  \/ \E w \in Workspace : CreateWorkspace(c, w) \/ FindSwitch(c, w) \/ CountWorkspaces(c, w)
  \/ SwitchWorkspace(c) \/ FindDeletion(c) \/ DeleteWorkspace(c)
  \/ \E w \in Workspace, p \in Preference : UpdatePreferences(c, w, p)
  \/ \E r \in Resume : BeginUpload(c, r)
  \/ RetryUpload(c) \/ AnswerUpload(c) \/ SaveUpload(c) \/ QueueProfileJob(c)
  \/ DeleteResume(c) \/ DeleteProfile(c)
  \/ AskMatching(c) \/ FindMatchingJob(c) \/ QueueMatchingJob(c)
  \/ Abandon(c)

TaskStepOf(t) ==
  \/ \E s \in Slot : BeginExtraction(t, s) \/ BeginMatching(t, s)
  \/ CheckResume(t) \/ StoreProfile(t)
  \/ ReadPreferences(t) \/ ReadDefaultRoles(t)
  \/ \E p \in CorpusJob : LookUpMatch(t, p)
  \/ SaveMatch(t) \/ FailMatch(t) \/ CompleteMatching(t)
  \/ FailTask(t)

WorkspacesNext ==
  \/ \E c \in Client : RequestStep(c)
  \/ \E t \in Task : TaskStepOf(t)

WorkspacesSpec == WorkspacesInit /\ [][WorkspacesNext]_workspaceVars

-----------------------------------------------------------------------------
(* Properties *)

\* One workspace is active, which is what every statement that names none
\* relies on.  None is only before the first request that needs one, or after
\* two requests have deleted the last two at the same time.  A deletion that
\* has read is_active before another request moved it is the exception, as is
\* a switch to a workspace that is gone (database.py:1267, 1291; app.py:732).
OneActive ==
  raced \/ /\ active \subseteq Live
           /\ Cardinality(active) <= 1
           /\ active = {} => Live \subseteq early

\* A match that is kept for a workspace was computed from a profile that this
\* workspace had, whatever was switched, deleted and created while the job
\* ran: run_matching finds the active workspace once and names it from then on.
MatchesStayHome ==
  \A w \in Workspace, p \in CorpusJob :
    match[w][p].present => match[w][p].origin \in had[w]

\* A matching job leaves every posting it is done with matched under the
\* preferences it began with, except those it counts as failed, unless its
\* workspace was deleted meanwhile: what it skipped as cached was right
\* (career.py:392).  One thread at a time: a row holds the matches of one set
\* of preferences only.
MatchingLeavesNoGaps ==
  \A t \in Task : Task = {t} /\ Busy(t, "matching") /\ t \notin wiped =>
    \A p \in CorpusJob \ (task[t].todo \cup task[t].failed) :
      LET row == match[task[t].ws][p] IN row.present /\ row.pref = task[t].pref

\* The resume a workspace keeps is one that a request has saved into that
\* workspace: profile jobs write back what they were queued with, and check
\* that it is what is there, so a job that ends up in another workspace than
\* its upload does not carry the resume along (career.py:193).
ResumesStayHome ==
  \A w \in Workspace : profile[w].resume \in uploaded[w] \cup {None}
=============================================================================
