-------------------------------- MODULE Corpus --------------------------------
(***************************************************************************)
(* The shared job corpus.  Every posting of a source has one listing, and  *)
(* listings that describe the same role share a job.  Ingestion fetches a  *)
(* source, saves what it accepts and reconciles the source's listings with *)
(* what the fetch returned, and several executors may be at it             *)
(* (IngestionRuns).  Availability checks probe listings one by one.        *)
(*                                                                         *)
(* Reconciliation and closing a single listing count the active listings   *)
(* of a job in the transaction that closes some.  PostgreSQL isolates it   *)
(* as READ COMMITTED: what it has written is locked, what others have      *)
(* written and not committed it does not see.                              *)
(*                                                                         *)
(* Postings stand for their contents, and are those that the               *)
(* classification accepts: no other gets a listing.  They come and go      *)
(* between any two looks at their source.  A job has the id of the posting *)
(* it was created for and keeps that posting's description, so a candidate *)
(* is similar to a job if it is similar to that posting.                   *)
(***************************************************************************)
EXTENDS Naturals

CONSTANTS
  Posting,
  SourceOf,    \* the source of each posting, as its adapter writes it
  Similar,     \* pairs of postings with one canonical key and similar descriptions
  Windowed,    \* sources whose adapter asks for a limited number of postings
  Swallowing,  \* sources whose adapter returns an empty list on an HTTP error
  Misnamed,    \* sources whose name differs from what reconciliation is told
  Executor,    \* processes that execute an ingestion run
  NoPosting

MissThreshold == 2
Source == {SourceOf[p] : p \in Posting}

ASSUME CorpusAssumption ==
  /\ DOMAIN SourceOf = Posting
  /\ Similar \subseteq Posting \X Posting
  /\ \A p \in Posting : <<p, p>> \in Similar
  /\ \A p, q \in Posting : <<p, q>> \in Similar => <<q, p>> \in Similar
  /\ Windowed \cup Swallowing \cup Misnamed \subseteq Source
  /\ NoPosting \notin Posting

VARIABLES
  listing,  \* rows of job_listings
  job,      \* rows of jobs: absent, or whether is_active
  fetch,    \* what each executor is doing
  probe,    \* the listing an availability check is closing
  absent,   \* history: reconciliations in a row that missed a listing
  muddled,  \* history: listings that changed between being read and reconciled
  overlap,  \* history: jobs whose listings changed between being counted and closed
  crossed   \* history: a job was created that another executor had just created

historyOfCorpus == <<absent, muddled, overlap, crossed>>
corpusVars == <<listing, job, fetch, probe, historyOfCorpus>>

ListingRow == [job : Posting \cup {NoPosting}, status : {"absent", "active", "inactive"},
               failures : 0..MissThreshold]
NoListing == [job |-> NoPosting, status |-> "absent", failures |-> 0]
NoFetch == [step |-> "idle", source |-> NoPosting, ids |-> {}, board |-> {},
            job |-> <<>>, rows |-> <<>>, offered |-> {}]
NoProbe == [of |-> NoPosting, offered |-> {}]

CorpusTypeOK ==
  /\ listing \in [Posting -> ListingRow]
  /\ \A p \in Posting :
       listing[p].status = "active" => listing[p].failures < MissThreshold
  /\ job \in [Posting -> {"absent", "active", "inactive"}]
  /\ \A e \in Executor : /\ fetch[e].step \in {"idle", "saving", "reconciling", "closing",
                                              "counted"}
                         /\ fetch[e].ids \subseteq Posting
  /\ probe.of \in Posting \cup {NoPosting}
  /\ absent \in [Posting -> 0..MissThreshold - 1]
  /\ muddled \subseteq Posting /\ overlap \subseteq Posting
  /\ crossed \in BOOLEAN

CorpusInit ==
  /\ listing = [p \in Posting |-> NoListing]
  /\ job = [p \in Posting |-> "absent"]
  /\ fetch = [e \in Executor |-> NoFetch]
  /\ probe = NoProbe
  /\ absent = [p \in Posting |-> 0] /\ muddled = {} /\ overlap = {} /\ crossed = FALSE

IsActiveListing(p) == listing[p].status = "active"

\* Whether any of these listings of a job is active.
HasActiveListing(j, rows) == \E p \in Posting : rows[p].job = j /\ rows[p].status = "active"

\* What these jobs are recomputed to.
Recount(jobs, offered) ==
  job' = [j \in Posting |-> IF j \notin jobs THEN job[j]
                           ELSE IF j \in offered THEN "active" ELSE "inactive"]

\* Listings that transactions in progress have written: others wait for them.
LockedBy(e) == IF fetch[e].step = "counted" THEN DOMAIN fetch[e].rows ELSE {}
LockedByCheck == {probe.of} \ {NoPosting}
OthersOf(e) == LockedByCheck \cup UNION {LockedBy(f) : f \in Executor \ {e}}
OthersOfCheck == UNION {LockedBy(e) : e \in Executor}
JobsOf(ps) == {listing'[p].job : p \in ps} \ {NoPosting}

\* History: a transaction commits, about these jobs, while others have counted the
\* listings of some of them.  Those may be wrong until the listings of a job are
\* made active with nobody else at it.
RecordOverlap(jobs, active, others) ==
  overlap' = (overlap \ active) \cup (jobs \cap JobsOf(others))

\* Misses beyond the threshold make no difference.
CappedMiss(n) == IF n < MissThreshold THEN n + 1 ELSE n

-----------------------------------------------------------------------------
(* Ingestion *)

\* What may be on the boards of a source.
Boards(s) == SUBSET {p \in Posting : SourceOf[p] = s}

\* What an adapter makes of it, if it does not raise an exception.
Answers(s, board) ==
  (IF s \in Windowed THEN SUBSET board ELSE {board})
    \cup (IF s \in Swallowing THEN {{}} ELSE {})

\* Fault: a role is looked for among those of the same source only.
CandidatesOfSource(p) ==
  {j \in Posting : job[j] # "absent" /\ <<p, j>> \in Similar /\ SourceOf[j] = SourceOf[p]}

\* The jobs in the table that posting p may be a listing of.
Candidates(p) == {j \in Posting : job[j] # "absent" /\ <<p, j>> \in Similar}

\* Which job each new posting of a batch goes to: one in the table if there is
\* any, else one an earlier posting of the batch has created, else its own.
IsAssignment(new, of) ==
  LET created == {p \in new : Candidates(p) = {} /\ of[p] = p} IN
    /\ \A p \in new :
         IF Candidates(p) # {} THEN of[p] \in Candidates(p)
         ELSE of[p] \in created /\ <<p, of[p]>> \in Similar
    /\ \A p, q \in created : <<p, q>> \in Similar => p = q

\* An executor asks a source and gets an answer.  bulk_upsert_jobs reads which of
\* the postings have a listing, and which jobs the others may go to ...
FetchSource(e, s) ==
  /\ fetch[e].step = "idle"
  /\ \E board \in Boards(s) : \E ids \in Answers(s, board) :
       LET new == {p \in ids : listing[p].job = NoPosting} IN
       \E of \in [new -> Posting] :
         /\ IsAssignment(new, of)
         /\ fetch' = [fetch EXCEPT ![e] = [NoFetch EXCEPT !.step = "saving", !.source = s,
                                            !.ids = ids, !.board = board, !.job = of]]
  /\ UNCHANGED <<listing, job, probe, historyOfCorpus>>

\* ... and writes.  A listing or a job that is there by now is a duplicate key,
\* which ends the attempt (FailSource).  Every job it counts has a listing it has
\* just made active.
SaveJobs(e) ==
  LET ids == fetch[e].ids
      of == fetch[e].job
      new == DOMAIN of
      created == {p \in new : of[p] = p}
      jobs == JobsOf(ids)
  IN  /\ fetch[e].step = "saving"
      /\ \A p \in new : listing[p].job = NoPosting
      /\ listing' = [p \in Posting |->
           IF p \notin ids THEN listing[p]
           ELSE [job |-> IF p \in new THEN of[p] ELSE listing[p].job,
                 status |-> "active", failures |-> 0]]
      /\ ids \cap OthersOf(e) = {}
      /\ Recount(jobs, jobs)
      /\ fetch' = [fetch EXCEPT ![e].step = "reconciling", ![e].job = <<>>]
      /\ absent' = [p \in Posting |-> IF p \in ids THEN 0 ELSE absent[p]]
      /\ muddled' = muddled \ ids
      /\ RecordOverlap(jobs, jobs, OthersOf(e))
      /\ crossed' = (crossed \/ \E p \in created : Candidates(p) # {})
      /\ UNCHANGED probe

\* Listings that reconciliation finds under the name it is told.
Reconciled(s) ==
  {p \in Posting : s \notin Misnamed /\ SourceOf[p] = s /\ IsActiveListing(p)}

\* Fault: a listing that is back keeps its misses.
ReconciledRowForgetful(row, seen, returned) ==
  LET failures == IF returned THEN seen.failures ELSE seen.failures + 1 IN
    [row EXCEPT !.failures = failures,
                !.status = IF returned THEN "active"
                           ELSE IF failures >= MissThreshold THEN "inactive" ELSE @]

\* Fault: a listing is closed one miss too late.
ReconciledRowLate(row, seen, returned) ==
  LET failures == IF returned THEN 0 ELSE seen.failures + 1 IN
    [row EXCEPT !.failures = failures,
                !.status = IF returned THEN "active"
                           ELSE IF failures > MissThreshold THEN "inactive" ELSE @]

\* What becomes of a listing that was read as seen.
ReconciledRow(row, seen, returned) ==
  LET failures == IF returned THEN 0 ELSE seen.failures + 1 IN
    [row EXCEPT !.failures = failures,
                !.status = IF returned THEN "active"
                           ELSE IF failures >= MissThreshold THEN "inactive" ELSE @]

\* reconcile_source_listings reads the active listings of the source ...
ReadListings(e) ==
  /\ fetch[e].step = "reconciling"
  /\ fetch' = [fetch EXCEPT ![e].step = "closing",
                            ![e].rows = [p \in Reconciled(fetch[e].source) |-> listing[p]]]
  /\ UNCHANGED <<listing, job, probe, historyOfCorpus>>

\* Jobs of these rows that have an active listing, as their transaction sees it.
Counted(rows) ==
  LET mine == [p \in Posting |-> IF p \in DOMAIN rows THEN rows[p] ELSE listing[p]]
  IN {j \in {rows[p].job : p \in DOMAIN rows} : HasActiveListing(j, mine)}

\* ... writes them and counts what is left of their jobs ...
CountListings(e) ==
  LET seen == fetch[e].rows
      found == DOMAIN seen
      rows == [p \in found |-> ReconciledRow(listing[p], seen[p], p \in fetch[e].ids)]
  IN  /\ fetch[e].step = "closing"
      /\ found \cap OthersOf(e) = {}
      /\ fetch' = [fetch EXCEPT ![e].step = "counted", ![e].rows = rows,
                                ![e].offered = Counted(rows)]
      /\ muddled' = muddled \cup {p \in found : seen[p] # listing[p]}
      /\ UNCHANGED <<listing, job, probe, absent, overlap, crossed>>

\* ... and commits.
Reconcile(e) ==
  LET rows == fetch[e].rows
      found == DOMAIN rows
  IN  /\ fetch[e].step = "counted"
      /\ listing' = [p \in Posting |-> IF p \in found THEN rows[p] ELSE listing[p]]
      /\ Recount(JobsOf(found), fetch[e].offered)
      /\ fetch' = [fetch EXCEPT ![e] = NoFetch]
      /\ absent' = [p \in Posting |-> IF p \notin found THEN absent[p]
                                     ELSE IF p \in fetch[e].ids THEN 0
                                     ELSE (absent[p] + 1) % MissThreshold]
      /\ muddled' = muddled \ (found \cap fetch[e].ids)
      /\ RecordOverlap(JobsOf(found), {}, OthersOf(e))
      /\ UNCHANGED <<probe, crossed>>

\* An exception, a cap on the number of jobs or the end of the process: the
\* executor leaves the source as it is and goes on to another.
FailSource(e) ==
  /\ fetch[e].step # "idle"
  /\ fetch' = [fetch EXCEPT ![e] = NoFetch]
  /\ UNCHANGED <<listing, job, probe, historyOfCorpus>>

-----------------------------------------------------------------------------
(* Availability *)

\* A check has read which listings to look at, maybe long ago.  For each, a HEAD
\* request finds the page there or gone, or learns nothing.

ClosedRow(row) == [row EXCEPT !.status = "inactive", !.failures = CappedMiss(@)]

\* Fault: the job goes with the listing.
OfferedNever(p) == {}

\* The job of p, if it has another active listing.
OfferedWithout(p) == Counted([q \in {p} |-> ClosedRow(listing[q])])

\* The page is gone: mark_listing_inactive closes the listing and looks for another
\* one of the job ...
CountOthers(p) ==
  /\ probe = NoProbe /\ listing[p].job # NoPosting
  /\ p \notin OthersOfCheck
  /\ probe' = [of |-> p, offered |-> OfferedWithout(p)]
  /\ UNCHANGED <<listing, job, fetch, historyOfCorpus>>

\* ... and commits: if there is one, the job is left as it is.
MarkInactive ==
  LET p == probe.of IN
    /\ probe # NoProbe
    /\ listing' = [listing EXCEPT ![p] = ClosedRow(@)]
    /\ Recount(JobsOf({p}) \ probe.offered, {})
    /\ probe' = NoProbe
    /\ absent' = [absent EXCEPT ![p] = 0]
    /\ RecordOverlap(JobsOf({p}), {}, OthersOfCheck)
    /\ UNCHANGED <<fetch, muddled, crossed>>

\* The page is there.
MarkActive(p) ==
  /\ probe = NoProbe /\ listing[p].job # NoPosting
  /\ p \notin OthersOfCheck
  /\ listing' = [listing EXCEPT ![p].status = "active", ![p].failures = 0]
  /\ Recount(JobsOf({p}), JobsOf({p}))
  /\ absent' = [absent EXCEPT ![p] = 0]
  /\ muddled' = muddled \ {p}
  /\ RecordOverlap(JobsOf({p}), JobsOf({p}), OthersOfCheck)
  /\ UNCHANGED <<fetch, probe, crossed>>

\* An error of the database rolls the closing back.
AbandonCheck ==
  /\ probe # NoProbe
  /\ probe' = NoProbe
  /\ UNCHANGED <<listing, job, fetch, historyOfCorpus>>

CorpusNext ==
  \/ \E e \in Executor, s \in Source : FetchSource(e, s)
  \/ \E e \in Executor : SaveJobs(e) \/ FailSource(e)
                           \/ ReadListings(e) \/ CountListings(e) \/ Reconcile(e)
  \/ \E p \in Posting : CountOthers(p) \/ MarkActive(p)
  \/ MarkInactive \/ AbandonCheck

CorpusSpec == CorpusInit /\ [][CorpusNext]_corpusVars

-----------------------------------------------------------------------------
(* Properties *)

\* A job is offered exactly if one of its listings is active, whichever of
\* upsert, reconciliation and availability check touched any of them last
\* (database.py:2264, 2372, 2661, 2698).  The exception is a job whose listings
\* another transaction has changed between the count and the commit.
AvailableIffListed ==
  \A j \in Posting \ overlap : job[j] # "absent" =>
    (job[j] = "active" <=> HasActiveListing(j, listing))

\* Two jobs are never about the same role: a listing joins the job that is
\* there, in the table or in its batch.  Two executors that save at the same
\* time may each create one, for nothing holds the place (database.py:2125).
JobsAreDistinct ==
  ~crossed => \A i, j \in Posting :
    job[i] # "absent" /\ job[j] # "absent" /\ <<i, j>> \in Similar => i = j

\* Reconciliation closes a listing after two answers in a row without it, and
\* then at once: neither does one answer suffice, nor do two with the listing
\* in between, nor does it survive two (database.py:2294).  The exception is a
\* listing that others have written since it was read: its misses are those that
\* were read.
MissesAreConsecutive ==
  [][\A e \in Executor : Reconcile(e) =>
       \A p \in DOMAIN fetch[e].rows \ muddled :
         IsActiveListing(p)' <=> p \in fetch[e].ids \/ absent[p] + 1 < MissThreshold]_corpusVars

\* database.py:2301: listings are reconciled "after a successful fetch".  What
\* is closed was not on the board when the answer was fetched.
RetiredWereGone ==
  [][\A e \in Executor : Reconcile(e) =>
       \A p \in fetch[e].board : IsActiveListing(p) => IsActiveListing(p)']_corpusVars
=============================================================================
