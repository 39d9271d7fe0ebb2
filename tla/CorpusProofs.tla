------------------------------ MODULE CorpusProofs ------------------------------
(***************************************************************************)
(* What holds of the job corpus for any number of postings, sources and    *)
(* executors, although what a transaction has counted may be old by the    *)
(* time it commits.                                                        *)
(*                                                                         *)
(* The argument: a transaction in progress has locked the listings it      *)
(* writes (LocksApart), so nobody else touches these; what it counted of   *)
(* others stays true of every job that no commit in between was about, and *)
(* those that one was about are in overlap (CountsStand).                  *)
(***************************************************************************)
EXTENDS Corpus, TLAPS

-----------------------------------------------------------------------------
(* The inductive invariant *)

\* Functions on some of the postings.
Partial(S) == UNION {[D -> S] : D \in SUBSET Posting}

FetchStep == {"idle", "saving", "reconciling", "closing", "counted"}
Fetch == [step : FetchStep, source : Source \cup {NoPosting}, ids : SUBSET Posting,
          board : SUBSET Posting, job : Partial(Posting), rows : Partial(ListingRow),
          offered : SUBSET Posting]
Probe == [of : Posting \cup {NoPosting}, offered : SUBSET Posting]

Types ==
  /\ CorpusTypeOK
  /\ fetch \in [Executor -> Fetch]
  /\ probe \in Probe
  /\ muddled \in SUBSET Posting /\ overlap \in SUBSET Posting

IsListed(p) == listing[p].job # NoPosting

\* A listing is there exactly if it has a job, the job is there too, and a job
\* has the listing it was created for.
TablesAgree ==
  \A p \in Posting :
    /\ listing[p].status = "absent" <=> ~IsListed(p)
    /\ IsListed(p) => job[listing[p].job] # "absent"
    /\ job[p] # "absent" => IsListed(p)

\* Jobs that executor e is about to create.
Creates(e) == {p \in DOMAIN fetch[e].job : fetch[e].job[p] = p}

\* What an executor is about to save it has either found or will create; it
\* creates no two jobs about one role.
AssignmentsHold ==
  \A e \in Executor : fetch[e].step = "saving" =>
    LET of == fetch[e].job IN
    /\ DOMAIN of \subseteq fetch[e].ids
    /\ \A p \in fetch[e].ids \ DOMAIN of : IsListed(p)
    /\ \A p \in DOMAIN of : of[p] \in Creates(e) \/ job[of[p]] # "absent"
    /\ \A p, q \in Creates(e) : <<p, q>> \in Similar => p = q

Reads(e) == fetch[e].step \in {"closing", "counted"}

\* Rows that reconciliation has read or written are of listings, and it has read
\* active ones.
RowsAreListings ==
  \A e \in Executor : Reads(e) =>
    \A p \in DOMAIN fetch[e].rows :
      LET row == fetch[e].rows[p] IN
      /\ IsListed(p) /\ row.job = listing[p].job
      /\ row.status # "absent"
      /\ row.status = "active" => row.failures < MissThreshold
      /\ fetch[e].step = "closing" => row.status = "active"

\* No two transactions in progress have written the same listing.
LocksApart ==
  /\ \A e, f \in Executor : e # f => LockedBy(e) \cap LockedBy(f) = {}
  /\ \A e \in Executor : probe.of \notin LockedBy(e)
  /\ probe # NoProbe => probe.of # NoPosting /\ IsListed(probe.of)

\* The listings as a transaction that has written these rows sees them.
Overlay(rows, table) ==
  [p \in Posting |-> IF p \in DOMAIN rows THEN rows[p] ELSE table[p]]

\* What was counted of a job still stands, if no commit since was about the job.
CountsStand ==
  \A e \in Executor : fetch[e].step = "counted" =>
    \A p \in DOMAIN fetch[e].rows :
      LET j == listing[p].job IN
      j \notin overlap =>
        (j \in fetch[e].offered <=> HasActiveListing(j, Overlay(fetch[e].rows, listing)))

\* The same of an availability check: another listing of the job is active.
IsOfferedWithout(p) ==
  \E q \in Posting \ {p} : listing[q].job = listing[p].job /\ IsActiveListing(q)

CheckStands ==
  probe # NoProbe /\ listing[probe.of].job \notin overlap =>
    (listing[probe.of].job \in probe.offered <=> IsOfferedWithout(probe.of))

\* What a listing is closed by are the answers in a row that lacked it.
MissesCounted ==
  /\ \A p \in Posting \ muddled :
       IsActiveListing(p) => listing[p].failures = absent[p]
  /\ \A e \in Executor : fetch[e].step = "counted" =>
       \A p \in DOMAIN fetch[e].rows :
         LET row == fetch[e].rows[p] IN
         /\ p \in fetch[e].ids => row.status = "active" /\ row.failures = 0
         /\ p \notin fetch[e].ids /\ p \notin muddled =>
              /\ row.failures = absent[p] + 1
              /\ row.status = "active" <=> absent[p] + 1 < MissThreshold

CorpusInv ==
  /\ Types /\ TablesAgree /\ AssignmentsHold /\ RowsAreListings /\ LocksApart
  /\ AvailableIffListed /\ CountsStand /\ CheckStands
  /\ JobsAreDistinct /\ MissesCounted

-----------------------------------------------------------------------------
(* Records *)

\* A function on some of the postings is one on its domain, and conversely.
LEMMA PartialFunctions ==
  ASSUME NEW S
  PROVE  /\ \A f \in Partial(S) : DOMAIN f \subseteq Posting /\ f \in [DOMAIN f -> S]
         /\ \A D \in SUBSET Posting : \A f \in [D -> S] : f \in Partial(S)
         /\ <<>> \in Partial(S)
<1>1. \A f \in Partial(S) : DOMAIN f \subseteq Posting /\ f \in [DOMAIN f -> S]
  BY DEF Partial
<1>2. \A D \in SUBSET Posting : \A f \in [D -> S] : f \in Partial(S)
  BY DEF Partial
<1>3. <<>> \in [{} -> S] /\ {} \in SUBSET Posting
  OBVIOUS
<1> QED BY <1>1, <1>2, <1>3

LEMMA NoFetchTyped == NoFetch \in Fetch
BY PartialFunctions DEF NoFetch, Fetch, FetchStep

ListingStatus == {"absent", "active", "inactive"}

\* The rows that reconciliation writes are rows.
LEMMA ReconciledRowTyped ==
  ASSUME NEW row \in ListingRow, NEW seen \in ListingRow, NEW returned \in BOOLEAN,
         seen.failures < MissThreshold
  PROVE  LET new == ReconciledRow(row, seen, returned) IN
         /\ new \in ListingRow
         /\ new.job = row.job
         /\ new.failures = IF returned THEN 0 ELSE seen.failures + 1
         /\ new.status = IF returned THEN "active"
                         ELSE IF seen.failures + 1 >= MissThreshold THEN "inactive"
                         ELSE row.status
<1> DEFINE n == IF returned THEN 0 ELSE seen.failures + 1
           s == IF returned THEN "active"
                ELSE IF n >= MissThreshold THEN "inactive" ELSE row.status
<1>1. n \in 0..MissThreshold /\ s \in ListingStatus
  BY DEF ListingRow, ListingStatus, MissThreshold
<1>2. ReconciledRow(row, seen, returned) = [row EXCEPT !.failures = n, !.status = s]
  BY DEF ReconciledRow
<1>3. n = (IF returned THEN 0 ELSE seen.failures + 1)
      /\ s = IF returned THEN "active"
                ELSE IF seen.failures + 1 >= MissThreshold THEN "inactive" ELSE row.status
  BY DEF ListingRow
<1> HIDE DEF n, s
<1> QED BY <1>1, <1>2, <1>3 DEF ListingRow, ListingStatus

LEMMA ClosedRowTyped ==
  ASSUME NEW row \in ListingRow
  PROVE  /\ ClosedRow(row) \in ListingRow
         /\ ClosedRow(row).job = row.job /\ ClosedRow(row).status = "inactive"
<1> DEFINE n == CappedMiss(row.failures)
<1>1. n \in 0..MissThreshold /\ "inactive" \in ListingStatus
  BY DEF ListingRow, ListingStatus, CappedMiss, MissThreshold
<1>2. ClosedRow(row) = [row EXCEPT !.status = "inactive", !.failures = n]
  BY DEF ClosedRow
<1> HIDE DEF n
<1> QED BY <1>1, <1>2 DEF ListingRow, ListingStatus

-----------------------------------------------------------------------------
(* What each step does to an executor, and what it writes. *)

\* Only executor e moves.
Alone(e) ==
  /\ fetch' \in [Executor -> Fetch]
  /\ \A f \in Executor \ {e} : fetch'[f] = fetch[f]

\* No table is written.
Quiet == UNCHANGED <<listing, job, absent, overlap, crossed>>

AskShape(e) ==
  /\ Alone(e) /\ Quiet /\ UNCHANGED <<probe, muddled>>
  /\ fetch'[e].step = "saving"
  /\ DOMAIN fetch'[e].job = {p \in fetch'[e].ids : ~IsListed(p)}
  /\ IsAssignment(DOMAIN fetch'[e].job, fetch'[e].job)

RestShape(e) ==
  /\ Alone(e) /\ Quiet /\ UNCHANGED <<probe, muddled>>
  /\ fetch'[e].step = "idle"

ReadShape(e) ==
  /\ Alone(e) /\ Quiet /\ UNCHANGED <<probe, muddled>>
  /\ fetch'[e].step = "closing"
  /\ \A p \in DOMAIN fetch'[e].rows : IsActiveListing(p) /\ fetch'[e].rows[p] = listing[p]

\* The row that reconciliation makes of p.
NewRow(e, p) == ReconciledRow(listing[p], fetch[e].rows[p], p \in fetch[e].ids)

CountShape(e) ==
  /\ Alone(e) /\ Quiet /\ UNCHANGED probe
  /\ fetch[e].step = "closing" /\ fetch'[e].step = "counted"
  /\ fetch'[e].ids = fetch[e].ids
  /\ DOMAIN fetch'[e].rows = DOMAIN fetch[e].rows
  /\ DOMAIN fetch[e].rows \cap OthersOf(e) = {}
  /\ \A p \in DOMAIN fetch[e].rows : fetch'[e].rows[p] = NewRow(e, p)
  /\ fetch'[e].offered = Counted(fetch'[e].rows)
  /\ muddled' = muddled \cup {p \in DOMAIN fetch[e].rows : fetch[e].rows[p] # listing[p]}

\* An executor asks a source.
LEMMA FetchSourceShape ==
  ASSUME Types, NEW e \in Executor, NEW s \in Source, FetchSource(e, s)
  PROVE  AskShape(e)
<1>1. PICK board \in Boards(s), ids \in SUBSET Posting :
        \E of \in [{p \in ids : listing[p].job = NoPosting} -> Posting] :
          /\ IsAssignment({p \in ids : listing[p].job = NoPosting}, of)
          /\ fetch' = [fetch EXCEPT ![e] = [NoFetch EXCEPT !.step = "saving", !.source = s,
                                            !.ids = ids, !.board = board, !.job = of]]
  BY DEF FetchSource, Answers, Boards
<1> DEFINE new == {p \in ids : listing[p].job = NoPosting}
<1>2. PICK of \in [new -> Posting] :
          /\ IsAssignment(new, of)
          /\ fetch' = [fetch EXCEPT ![e] = [NoFetch EXCEPT !.step = "saving", !.source = s,
                                            !.ids = ids, !.board = board, !.job = of]]
  BY <1>1
<1> DEFINE asked == [NoFetch EXCEPT !.step = "saving", !.source = s,
                                    !.ids = ids, !.board = board, !.job = of]
<1>3. of \in Partial(Posting) /\ DOMAIN of = new /\ new \subseteq Posting
  BY PartialFunctions
<1>4. board \in SUBSET Posting /\ ids \in SUBSET Posting
  BY DEF Boards
<1>5. asked \in Fetch /\ asked.step = "saving" /\ asked.ids = ids /\ asked.job = of
  <2> HIDE DEF new
  <2> QED BY <1>3, <1>4, NoFetchTyped DEF Fetch, FetchStep
<1>6. fetch' = [fetch EXCEPT ![e] = asked] /\ fetch \in [Executor -> Fetch]
  BY <1>2 DEF Types
<1> HIDE DEF asked
<1>7. Alone(e) /\ fetch'[e] = asked
  BY <1>5, <1>6 DEF Alone
<1>8. Quiet /\ UNCHANGED <<probe, muddled>>
  BY DEF FetchSource, historyOfCorpus, Quiet
<1> QED BY <1>2, <1>3, <1>5, <1>7, <1>8 DEF AskShape, IsListed

\* It gives up.
LEMMA FailSourceShape ==
  ASSUME Types, NEW e \in Executor, FailSource(e)
  PROVE  RestShape(e)
<1>1. fetch' = [fetch EXCEPT ![e] = NoFetch] /\ fetch \in [Executor -> Fetch]
  BY DEF FailSource, Types
<1>2. Alone(e) /\ fetch'[e] = NoFetch
  BY <1>1, NoFetchTyped DEF Alone
<1>3. Quiet /\ UNCHANGED <<probe, muddled>>
  BY DEF FailSource, historyOfCorpus, Quiet
<1> QED BY <1>2, <1>3 DEF RestShape, NoFetch

\* It reads the listings of the source.
LEMMA ReadListingsShape ==
  ASSUME Types, NEW e \in Executor, ReadListings(e)
  PROVE  ReadShape(e)
<1> DEFINE found == Reconciled(fetch[e].source)
           rows == [p \in found |-> listing[p]]
           read == [fetch[e] EXCEPT !.step = "closing", !.rows = rows]
<1>1. fetch \in [Executor -> Fetch] /\ listing \in [Posting -> ListingRow]
  BY DEF Types, CorpusTypeOK
<1>2. found \in SUBSET Posting
  BY DEF Reconciled
<1>3. rows \in Partial(ListingRow) /\ DOMAIN rows = found
  <2> HIDE DEF found
  <2>1. rows \in [found -> ListingRow]
    BY <1>1, <1>2
  <2> QED BY <1>2, <2>1, PartialFunctions
<1>4. read \in Fetch /\ read.step = "closing" /\ read.rows = rows
  <2> HIDE DEF rows
  <2> QED BY <1>1, <1>3 DEF Fetch, FetchStep
<1>5. fetch' = [fetch EXCEPT ![e] = read]
  BY DEF ReadListings
<1>6. Alone(e) /\ fetch'[e] = read
  <2> HIDE DEF read
  <2> QED BY <1>1, <1>4, <1>5 DEF Alone
<1>7. \A p \in found : IsActiveListing(p)
  BY DEF Reconciled
<1>8. Quiet /\ UNCHANGED <<probe, muddled>>
  BY DEF ReadListings, historyOfCorpus, Quiet
<1> HIDE DEF read, found
<1> QED BY <1>3, <1>4, <1>6, <1>7, <1>8 DEF ReadShape

\* The rows of an executor, and those it is about to write.
LEMMA RowsTyped ==
  ASSUME Types, RowsAreListings, NEW e \in Executor, Reads(e), NEW p \in DOMAIN fetch[e].rows
  PROVE  /\ p \in Posting /\ fetch[e].rows[p] \in ListingRow
         /\ listing[p] \in ListingRow /\ listing[p].job \in Posting
         /\ fetch[e].rows[p].job = listing[p].job
         /\ fetch[e].step = "closing" => fetch[e].rows[p].failures < MissThreshold
<1>1. fetch[e].rows \in Partial(ListingRow)
  BY DEF Types, Fetch
<1>2. p \in Posting /\ fetch[e].rows[p] \in ListingRow
  BY <1>1, PartialFunctions
<1>3. listing[p] \in ListingRow
  BY <1>2 DEF Types, CorpusTypeOK
<1>4. listing[p].job \in Posting
  BY <1>3 DEF RowsAreListings, IsListed, ListingRow
<1> QED BY <1>2, <1>3, <1>4 DEF RowsAreListings

LEMMA NewRowTyped ==
  ASSUME Types, RowsAreListings, NEW e \in Executor, fetch[e].step = "closing",
         NEW p \in DOMAIN fetch[e].rows
  PROVE  LET new == NewRow(e, p)
             missed == fetch[e].rows[p].failures + 1
         IN  /\ new \in ListingRow
             /\ new.job = listing[p].job /\ new.job \in Posting
             /\ p \in fetch[e].ids => new.status = "active" /\ new.failures = 0
             /\ p \notin fetch[e].ids =>
                  /\ new.failures = missed
                  /\ new.status = IF missed >= MissThreshold THEN "inactive"
                                  ELSE listing[p].status
<1>1. /\ fetch[e].rows[p] \in ListingRow /\ listing[p] \in ListingRow
      /\ listing[p].job \in Posting
      /\ fetch[e].rows[p].failures < MissThreshold
  BY RowsTyped DEF Reads
<1>2. (p \in fetch[e].ids) \in BOOLEAN
  OBVIOUS
<1> QED BY <1>1, <1>2, ReconciledRowTyped DEF NewRow

\* It writes them and counts.
LEMMA CountListingsShape ==
  ASSUME Types, RowsAreListings, NEW e \in Executor, CountListings(e)
  PROVE  CountShape(e)
<1> DEFINE found == DOMAIN fetch[e].rows
           rows == [p \in found |-> NewRow(e, p)]
           counted == [fetch[e] EXCEPT !.step = "counted", !.rows = rows,
                                       !.offered = Counted(rows)]
<1>0. fetch[e].step = "closing" /\ found \cap OthersOf(e) = {}
  BY DEF CountListings
<1>1. fetch \in [Executor -> Fetch] /\ found \in SUBSET Posting
  BY <1>0, RowsTyped DEF Types, Reads
<1>2. \A p \in found : NewRow(e, p) \in ListingRow /\ NewRow(e, p).job \in Posting
  BY <1>0, NewRowTyped
<1>3. rows \in [found -> ListingRow]
  BY <1>2
<1>4. rows \in Partial(ListingRow) /\ DOMAIN rows = found /\ \A p \in found : rows[p] = NewRow(e, p)
  <2>1. DOMAIN rows = found /\ \A p \in found : rows[p] = NewRow(e, p)
    OBVIOUS
  <2> HIDE DEF rows, found
  <2> QED BY <1>1, <1>3, <2>1, PartialFunctions
<1>5. Counted(rows) \in SUBSET Posting
  <2>1. \A j \in Counted(rows) : \E p \in found : j = rows[p].job
    BY <1>4 DEF Counted
  <2> QED BY <1>2, <1>4, <2>1
<1>6. /\ counted \in Fetch /\ counted.step = "counted" /\ counted.rows = rows
      /\ counted.offered = Counted(rows) /\ counted.ids = fetch[e].ids
  <2>1. fetch[e] \in Fetch
    BY <1>1
  <2> DEFINE offered == Counted(rows)
  <2>2. offered \in SUBSET Posting /\ rows \in Partial(ListingRow)
    BY <1>4, <1>5
  <2> HIDE DEF rows, offered
  <2>3. /\ [fetch[e] EXCEPT !.step = "counted", !.rows = rows, !.offered = offered] \in Fetch
        /\ LET c == [fetch[e] EXCEPT !.step = "counted", !.rows = rows, !.offered = offered]
           IN  c.step = "counted" /\ c.rows = rows /\ c.offered = offered /\ c.ids = fetch[e].ids
    BY <2>1, <2>2 DEF Fetch, FetchStep
  <2> QED BY <2>3 DEF offered
<1>7. fetch' = [fetch EXCEPT ![e] = counted]
  BY DEF CountListings, NewRow
<1>8. Alone(e) /\ fetch'[e] = counted
  <2> HIDE DEF counted
  <2> QED BY <1>1, <1>6, <1>7 DEF Alone
<1>9. /\ Quiet /\ UNCHANGED probe
      /\ muddled' = muddled \cup {p \in found : fetch[e].rows[p] # listing[p]}
  BY DEF CountListings, Quiet
<1> HIDE DEF counted, rows
<1> QED BY <1>0, <1>4, <1>6, <1>8, <1>9 DEF CountShape

-----------------------------------------------------------------------------
(* Commits *)

\* Executor f goes on, and knows of what has happened to its jobs.
GoesOn(f, W) ==
  /\ fetch'[f] = fetch[f]
  /\ LockedBy(f) \cap W = {}
  /\ JobsOf(W) \cap JobsOf(LockedBy(f)) \subseteq overlap'

\* So does the availability check.
CheckGoesOn(W) ==
  /\ probe' = probe
  /\ probe # NoProbe => probe.of \notin W
  /\ probe # NoProbe => JobsOf(W) \cap JobsOf({probe.of}) \subseteq overlap'

\* The listings W are written, and whoever writes them is done.
Commit(W) ==
  /\ W \in SUBSET Posting
  /\ listing' \in [Posting -> ListingRow] /\ job' \in [Posting -> ListingStatus]
  /\ fetch' \in [Executor -> Fetch] /\ probe' \in Probe
  /\ \A p \in Posting \ W : listing'[p] = listing[p]
  /\ \A p \in W : listing'[p].job \in Posting /\ listing'[p].status # "absent"
  /\ \A p \in Posting : IsListed(p) => listing'[p].job = listing[p].job
  /\ \A j \in Posting \ JobsOf(W) : job'[j] = job[j]
  /\ \A j \in Posting : job[j] # "absent" => job'[j] # "absent"
  /\ \A j \in Posting : job'[j] # "absent" => job[j] # "absent" \/ j \in W
  /\ \A p \in W : job'[listing'[p].job] # "absent"
  /\ overlap' \in SUBSET Posting /\ overlap \subseteq overlap' \cup JobsOf(W)
  /\ \A f \in Executor : fetch'[f].step \in {"idle", "reconciling"} \/ GoesOn(f, W)
  /\ probe' = NoProbe \/ CheckGoesOn(W)

\* What the rows are that are written.
RowsRight(W) ==
  /\ \A p \in W : listing'[p].status = "active" => listing'[p].failures < MissThreshold
  /\ absent' \in [Posting -> 0..MissThreshold - 1] /\ muddled' \in SUBSET Posting
  /\ \A p \in Posting \ W : absent'[p] = absent[p] /\ (p \in muddled' <=> p \in muddled)
  /\ \A p \in W \ muddled' :
       listing'[p].status = "active" => listing'[p].failures = absent'[p]

\* Listings of jobs that the commit is not about are as before.
LEMMA OtherJobsStay ==
  ASSUME CorpusAssumption, Types, NEW W, Commit(W), NEW j \in Posting \ JobsOf(W),
         NEW p \in Posting
  PROVE  /\ listing'[p].job = j <=> listing[p].job = j
         /\ listing[p].job = j => listing'[p] = listing[p]
<1>1. CASE p \notin W
  BY <1>1 DEF Commit
<1>2. CASE p \in W
  <2>1. listing'[p].job \in Posting /\ NoPosting \notin Posting
    BY <1>2 DEF Commit, CorpusAssumption
  <2>2. listing'[p].job # j
    BY <1>2, <2>1 DEF JobsOf
  <2>3. listing[p].job # j
    BY <2>1, <2>2 DEF Commit, IsListed
  <2> QED BY <2>2, <2>3
<1> QED BY <1>1, <1>2

\* So the jobs that are not about W are active as before, in the table ...
LEMMA OtherJobsStand ==
  ASSUME CorpusAssumption, Types, NEW W, Commit(W), NEW j \in Posting \ JobsOf(W)
  PROVE  HasActiveListing(j, listing') <=> HasActiveListing(j, listing)
BY OtherJobsStay DEF HasActiveListing

\* ... and as a transaction sees them that goes on.
LEMMA OtherJobsStandUnder ==
  ASSUME CorpusAssumption, Types, NEW W, Commit(W), NEW j \in Posting \ JobsOf(W), NEW rows
  PROVE  HasActiveListing(j, Overlay(rows, listing')) <=> HasActiveListing(j, Overlay(rows, listing))
<1>1. \A p \in Posting :
        /\ Overlay(rows, listing')[p] = IF p \in DOMAIN rows THEN rows[p] ELSE listing'[p]
        /\ Overlay(rows, listing)[p] = IF p \in DOMAIN rows THEN rows[p] ELSE listing[p]
  BY DEF Overlay
<1>2. \A p \in Posting : /\ listing'[p].job = j <=> listing[p].job = j
                         /\ listing[p].job = j => listing'[p] = listing[p]
  BY OtherJobsStay
<1> DEFINE after == Overlay(rows, listing')
           before == Overlay(rows, listing)
<1>3. \A p \in Posting : (after[p].job = j /\ after[p].status = "active")
                         <=> (before[p].job = j /\ before[p].status = "active")
  BY <1>1, <1>2
<1> HIDE DEF after, before
<1>4. HasActiveListing(j, after) <=> HasActiveListing(j, before)
  BY <1>3 DEF HasActiveListing
<1> QED BY <1>4 DEF after, before

LEMMA CommitKeepsTables ==
  ASSUME CorpusAssumption, Types, TablesAgree, NEW W, Commit(W)
  PROVE  TablesAgree'
<1> SUFFICES ASSUME NEW p \in Posting
             PROVE  /\ (listing[p].status = "absent")' <=> ~IsListed(p)'
                    /\ IsListed(p)' => (job[listing[p].job] # "absent")'
                    /\ (job[p] # "absent")' => IsListed(p)'
  BY DEF TablesAgree
<1>0. NoPosting \notin Posting /\ listing[p].job \in Posting \cup {NoPosting}
  BY DEF CorpusAssumption, Types, CorpusTypeOK, ListingRow
<1>1. CASE p \in W
  BY <1>0, <1>1 DEF Commit, IsListed
<1>2. CASE p \notin W
  <2>1. listing'[p] = listing[p]
    BY <1>2 DEF Commit
  <2>2. job'[p] # "absent" => job[p] # "absent"
    BY <1>2 DEF Commit
  <2>3. IsListed(p) => job'[listing[p].job] # "absent"
    BY <1>0 DEF Commit, TablesAgree, IsListed
  <2> QED BY <2>1, <2>2, <2>3 DEF TablesAgree, IsListed
<1> QED BY <1>1, <1>2

\* A listing that is there stays there.
LEMMA CommitKeepsListed ==
  ASSUME Types, NEW W, Commit(W), NEW p \in Posting, IsListed(p)
  PROVE  IsListed(p)' /\ listing'[p].job = listing[p].job
BY DEF Commit, IsListed

LEMMA CommitKeepsAssignments ==
  ASSUME Types, AssignmentsHold, NEW W, Commit(W)
  PROVE  AssignmentsHold'
<1> SUFFICES ASSUME NEW f \in Executor, (fetch[f].step = "saving")'
             PROVE  (LET of == fetch[f].job IN
                      /\ DOMAIN of \subseteq fetch[f].ids
                      /\ \A p \in fetch[f].ids \ DOMAIN of : IsListed(p)
                      /\ \A p \in DOMAIN of : of[p] \in Creates(f) \/ job[of[p]] # "absent"
                      /\ \A p, q \in Creates(f) : <<p, q>> \in Similar => p = q)'
  BY DEF AssignmentsHold
<1>1. fetch'[f] = fetch[f] /\ Creates(f)' = Creates(f)
  BY DEF Commit, GoesOn, Creates
<1>2. fetch[f].job \in Partial(Posting) /\ fetch[f].ids \subseteq Posting
  BY DEF Types, Fetch
<1>3. \A p \in fetch[f].ids : IsListed(p) => IsListed(p)'
  BY <1>2, CommitKeepsListed
<1>4. \A p \in DOMAIN fetch[f].job : fetch[f].job[p] \in Posting
  BY <1>2, PartialFunctions
<1>5. \A j \in Posting : job[j] # "absent" => job'[j] # "absent"
  BY DEF Commit
<1> QED BY <1>1, <1>3, <1>4, <1>5 DEF AssignmentsHold

LEMMA CommitKeepsRows ==
  ASSUME Types, RowsAreListings, NEW W, Commit(W)
  PROVE  RowsAreListings'
<1> SUFFICES ASSUME NEW f \in Executor, Reads(f)', NEW p \in (DOMAIN fetch[f].rows)'
             PROVE  (LET row == fetch[f].rows[p] IN
                      /\ IsListed(p) /\ row.job = listing[p].job
                      /\ row.status # "absent"
                      /\ row.status = "active" => row.failures < MissThreshold
                      /\ fetch[f].step = "closing" => row.status = "active")'
  BY DEF RowsAreListings
<1>1. fetch'[f] = fetch[f] /\ Reads(f)
  BY DEF Commit, GoesOn, Reads
<1>2. p \in Posting /\ IsListed(p)
  BY <1>1, RowsTyped DEF RowsAreListings
<1>3. IsListed(p)' /\ listing'[p].job = listing[p].job
  BY <1>2, CommitKeepsListed
<1> QED BY <1>1, <1>3 DEF RowsAreListings

LEMMA CommitKeepsLocks ==
  ASSUME CorpusAssumption, Types, RowsAreListings, LocksApart, NEW W, Commit(W)
  PROVE  LocksApart'
<1>1. \A f \in Executor : LockedBy(f)' \subseteq LockedBy(f)
  BY DEF Commit, GoesOn, LockedBy
<1>2. probe'.of \in {probe.of, NoPosting} /\ (probe' # NoProbe => probe' = probe)
  BY DEF Commit, CheckGoesOn, NoProbe
<1>3. \A f \in Executor : NoPosting \notin LockedBy(f)
  BY RowsTyped DEF LockedBy, Reads, CorpusAssumption
<1>4. probe' # NoProbe => (probe.of # NoPosting /\ IsListed(probe.of))'
  <2> SUFFICES ASSUME probe' # NoProbe PROVE (probe.of # NoPosting /\ IsListed(probe.of))'
    OBVIOUS
  <2>1. probe' = probe /\ probe.of # NoPosting /\ IsListed(probe.of) /\ probe.of \in Posting
    BY <1>2 DEF LocksApart, Types, Probe
  <2> QED BY <2>1, CommitKeepsListed DEF IsListed
<1>5. \A f \in Executor : (probe.of \notin LockedBy(f))'
  BY <1>1, <1>2, <1>3 DEF LocksApart
<1>6. \A e, f \in Executor : e # f => LockedBy(e)' \cap LockedBy(f)' = {}
  BY <1>1 DEF LocksApart
<1> QED BY <1>4, <1>5, <1>6 DEF LocksApart

\* What another executor has counted of a job stands, or the job is in overlap.
LEMMA CommitKeepsCounts ==
  ASSUME CorpusAssumption, Types, RowsAreListings, CountsStand, NEW W, Commit(W)
  PROVE  CountsStand'
<1> SUFFICES ASSUME NEW f \in Executor, (fetch[f].step = "counted")',
                    NEW p \in (DOMAIN fetch[f].rows)', listing'[p].job \notin overlap'
             PROVE  listing'[p].job \in fetch'[f].offered
                    <=> HasActiveListing(listing'[p].job, Overlay(fetch'[f].rows, listing'))
  BY DEF CountsStand, HasActiveListing, Overlay
<1>1. GoesOn(f, W)
  BY DEF Commit
<1>2. fetch'[f] = fetch[f] /\ fetch[f].step = "counted" /\ p \in LockedBy(f)
  BY <1>1 DEF GoesOn, LockedBy
<1>3. /\ p \in Posting /\ IsListed(p)
      /\ listing[p].job \in Posting
  BY <1>2, RowsTyped DEF RowsAreListings, Reads
<1> DEFINE j == listing[p].job
<1>4. listing'[p].job = j
  BY <1>3, CommitKeepsListed
<1>5. j \in JobsOf(LockedBy(f))
  BY <1>2, <1>3, <1>4 DEF JobsOf, CorpusAssumption
<1>6. j \notin JobsOf(W)
  BY <1>1, <1>4, <1>5 DEF GoesOn
<1>7. j \notin overlap
  BY <1>4, <1>6 DEF Commit
<1>8. j \in fetch[f].offered <=> HasActiveListing(j, Overlay(fetch[f].rows, listing))
  BY <1>2, <1>7 DEF CountsStand
<1>9. HasActiveListing(j, Overlay(fetch[f].rows, listing'))
      <=> HasActiveListing(j, Overlay(fetch[f].rows, listing))
  BY <1>3, <1>6, OtherJobsStandUnder
<1> QED BY <1>2, <1>4, <1>8, <1>9

LEMMA CommitKeepsCheck ==
  ASSUME CorpusAssumption, Types, LocksApart, CheckStands, NEW W, Commit(W)
  PROVE  CheckStands'
<1> SUFFICES ASSUME probe' # NoProbe, listing'[probe'.of].job \notin overlap'
             PROVE  listing'[probe'.of].job \in probe'.offered <=> IsOfferedWithout(probe.of)'
  BY DEF CheckStands, IsOfferedWithout, IsActiveListing
<1> DEFINE p == probe.of
           j == listing[p].job
<1>1. probe' = probe /\ CheckGoesOn(W) /\ probe # NoProbe
  BY DEF Commit, CheckGoesOn
<1>2. p \in Posting /\ IsListed(p)
  BY <1>1 DEF LocksApart, Types, Probe
<1>3. listing'[p].job = j
  BY <1>2, CommitKeepsListed
<1>4. j \in Posting
  BY <1>2 DEF Types, CorpusTypeOK, ListingRow, IsListed
<1>5. j \in JobsOf({p})
  BY <1>3, <1>4 DEF JobsOf, CorpusAssumption
<1>6. j \notin JobsOf(W)
  BY <1>1, <1>3, <1>5 DEF CheckGoesOn
<1>7. j \notin overlap
  BY <1>1, <1>3, <1>6 DEF Commit
<1>8. j \in probe.offered <=> IsOfferedWithout(p)
  BY <1>1, <1>7 DEF CheckStands
<1>9. IsOfferedWithout(p)' <=> IsOfferedWithout(p)
  <2>1. \A q \in Posting : /\ listing'[q].job = j <=> listing[q].job = j
                           /\ listing[q].job = j => listing'[q] = listing[q]
    BY <1>4, <1>6, OtherJobsStay
  <2>2. IsOfferedWithout(p)'
        <=> \E q \in Posting \ {p} : listing'[q].job = j /\ listing'[q].status = "active"
    BY <1>1, <1>3 DEF IsOfferedWithout, IsActiveListing
  <2> QED BY <2>1, <2>2 DEF IsOfferedWithout, IsActiveListing
<1> QED BY <1>1, <1>3, <1>8, <1>9

\* Jobs that the commit is about have to be looked at one by one.
LEMMA CommitKeepsAvailable ==
  ASSUME CorpusAssumption, Types, AvailableIffListed, NEW W, Commit(W),
         \A j \in JobsOf(W) \ overlap' :
            job'[j] = "active" <=> HasActiveListing(j, listing')
  PROVE  AvailableIffListed'
<1> SUFFICES ASSUME NEW j \in Posting \ overlap', job'[j] # "absent"
             PROVE  job'[j] = "active" <=> HasActiveListing(j, listing')
  BY DEF AvailableIffListed, HasActiveListing
<1>1. CASE j \in JobsOf(W)
  BY <1>1
<1>2. CASE j \notin JobsOf(W)
  <2>1. job'[j] = job[j] /\ j \notin overlap
    BY <1>2 DEF Commit
  <2>2. HasActiveListing(j, listing') <=> HasActiveListing(j, listing)
    BY <1>2, OtherJobsStand
  <2> QED BY <2>1, <2>2 DEF AvailableIffListed
<1> QED BY <1>1, <1>2

LEMMA CommitKeepsMisses ==
  ASSUME Types, MissesCounted, NEW W, Commit(W), RowsRight(W)
  PROVE  MissesCounted'
<1>1. ASSUME NEW p \in Posting \ muddled', IsActiveListing(p)'
      PROVE  (listing[p].failures = absent[p])'
  <2>1. CASE p \in W
    BY <1>1, <2>1 DEF RowsRight, IsActiveListing
  <2>2. CASE p \notin W
    BY <1>1, <2>2 DEF RowsRight, Commit, MissesCounted, IsActiveListing
  <2> QED BY <2>1, <2>2
<1>2. ASSUME NEW f \in Executor, fetch'[f].step = "counted", NEW p \in DOMAIN fetch'[f].rows
      PROVE  (LET row == fetch[f].rows[p] IN
         /\ p \in fetch[f].ids => row.status = "active" /\ row.failures = 0
         /\ p \notin fetch[f].ids /\ p \notin muddled =>
              /\ row.failures = absent[p] + 1
              /\ row.status = "active" <=> absent[p] + 1 < MissThreshold)'
  <2>1. fetch'[f] = fetch[f] /\ p \in LockedBy(f) /\ p \notin W
    BY <1>2 DEF Commit, GoesOn, LockedBy
  <2>2. p \in Posting
    <3>1. fetch[f].rows \in Partial(ListingRow)
      BY DEF Types, Fetch
    <3> QED BY <1>2, <2>1, <3>1, PartialFunctions
  <2>3. absent'[p] = absent[p] /\ (p \in muddled' <=> p \in muddled)
    BY <2>1, <2>2 DEF RowsRight
  <2> QED BY <1>2, <2>1, <2>3 DEF MissesCounted
<1> QED BY <1>1, <1>2 DEF MissesCounted

LEMMA CommitKeepsTypes ==
  ASSUME Types, NEW W, Commit(W), RowsRight(W), crossed' \in BOOLEAN
  PROVE  Types'
<1>1. /\ listing' \in [Posting -> ListingRow] /\ job' \in [Posting -> ListingStatus]
      /\ fetch' \in [Executor -> Fetch] /\ probe' \in Probe
      /\ overlap' \in SUBSET Posting /\ muddled' \in SUBSET Posting
      /\ absent' \in [Posting -> 0..MissThreshold - 1]
  BY DEF Commit, RowsRight
<1>2. \A p \in Posting : listing'[p].status = "active" => listing'[p].failures < MissThreshold
  BY DEF Commit, RowsRight, Types, CorpusTypeOK
<1>3. \A e \in Executor : fetch'[e] \in Fetch
  BY <1>1
<1> QED BY <1>1, <1>2, <1>3 DEF Types, CorpusTypeOK, ListingStatus, Fetch, FetchStep, Probe

\* All that a commit keeps whatever it writes.
LEMMA CommitKeeps ==
  ASSUME CorpusAssumption, CorpusInv, NEW W, Commit(W), RowsRight(W), crossed' \in BOOLEAN,
         \A j \in JobsOf(W) \ overlap' :
            job'[j] = "active" <=> HasActiveListing(j, listing'),
         JobsAreDistinct'
  PROVE  CorpusInv'
<1>1. Types' /\ TablesAgree' /\ AssignmentsHold' /\ RowsAreListings' /\ LocksApart'
  BY CommitKeepsTypes, CommitKeepsTables, CommitKeepsAssignments, CommitKeepsRows,
     CommitKeepsLocks DEF CorpusInv
<1>2. CountsStand' /\ CheckStands' /\ AvailableIffListed' /\ MissesCounted'
  BY CommitKeepsCounts, CommitKeepsCheck, CommitKeepsAvailable, CommitKeepsMisses
     DEF CorpusInv
<1> QED BY <1>1, <1>2 DEF CorpusInv

-----------------------------------------------------------------------------
(* The steps that commit *)

\* Whom a transaction has to wait for, and who may have counted what it writes.
LEMMA OthersAre ==
  ASSUME CorpusAssumption
  PROVE  /\ \A e, f \in Executor : e # f => LockedBy(f) \subseteq OthersOf(e)
         /\ \A e \in Executor : probe.of # NoPosting => probe.of \in OthersOf(e)
         /\ \A e \in Executor : LockedBy(e) \subseteq OthersOfCheck
BY DEF OthersOf, OthersOfCheck, LockedByCheck

LEMMA GoesOnBeside ==
  ASSUME NEW W, NEW others, NEW active, RecordOverlap(JobsOf(W), active, others),
         W \cap others = {}, NEW f \in Executor, fetch'[f] = fetch[f],
         LockedBy(f) \subseteq others
  PROVE  GoesOn(f, W)
BY DEF GoesOn, RecordOverlap, JobsOf

LEMMA CheckGoesOnBeside ==
  ASSUME NEW W, NEW others, NEW active, RecordOverlap(JobsOf(W), active, others),
         W \cap others = {}, LocksApart, probe' = probe,
         probe.of # NoPosting => probe.of \in others
  PROVE  CheckGoesOn(W)
BY DEF CheckGoesOn, RecordOverlap, JobsOf, LocksApart

\* The jobs of listings that are there.
LEMMA JobsOfListings ==
  ASSUME CorpusAssumption, NEW W \in SUBSET Posting, \A p \in W : listing'[p].job \in Posting
  PROVE  JobsOf(W) = {listing'[p].job : p \in W} /\ JobsOf(W) \in SUBSET Posting
BY DEF JobsOf, CorpusAssumption

\* No job is created but by SaveJobs.
LEMMA NoJobCreated ==
  ASSUME JobsAreDistinct, crossed' = crossed,
         \A j \in Posting : job'[j] # "absent" => job[j] # "absent"
  PROVE  JobsAreDistinct'
BY DEF JobsAreDistinct

LEMMA MarkActiveKeeps ==
  ASSUME CorpusAssumption, CorpusInv, NEW p \in Posting, MarkActive(p)
  PROVE  CorpusInv'
<1> DEFINE j == listing[p].job
           row == [listing[p] EXCEPT !.status = "active", !.failures = 0]
<1>1. /\ listing \in [Posting -> ListingRow] /\ job \in [Posting -> ListingStatus]
      /\ fetch \in [Executor -> Fetch] /\ probe \in Probe
      /\ absent \in [Posting -> 0..MissThreshold - 1]
      /\ overlap \in SUBSET Posting /\ muddled \in SUBSET Posting /\ crossed \in BOOLEAN
  BY DEF CorpusInv, Types, CorpusTypeOK, ListingStatus
<1>2. j \in Posting /\ job[j] # "absent"
  BY <1>1 DEF MarkActive, CorpusInv, TablesAgree, ListingRow, IsListed
<1>3. row \in ListingRow /\ row.job = j /\ row.status = "active" /\ row.failures = 0
  <2>1. listing[p] \in ListingRow /\ 0 \in 0..MissThreshold
    BY <1>1 DEF MissThreshold
  <2> QED BY <2>1 DEF ListingRow
<1>4. listing' = [listing EXCEPT ![p] = row]
  BY DEF MarkActive
<1>5. /\ listing' \in [Posting -> ListingRow] /\ listing'[p] = row
      /\ \A q \in Posting \ {p} : listing'[q] = listing[q]
  <2> HIDE DEF row
  <2> QED BY <1>1, <1>3, <1>4
<1> HIDE DEF row
<1>6. JobsOf({p}) = {j}
  BY <1>2, <1>3, <1>5 DEF JobsOf, CorpusAssumption
<1>7. /\ job' \in [Posting -> ListingStatus] /\ job'[j] = "active"
      /\ \A i \in Posting \ {j} : job'[i] = job[i]
  BY <1>1, <1>2, <1>6 DEF MarkActive, Recount, ListingStatus
<1>8. /\ RecordOverlap(JobsOf({p}), JobsOf({p}), OthersOfCheck)
      /\ {p} \cap OthersOfCheck = {} /\ UNCHANGED <<fetch, crossed>>
      /\ probe' = NoProbe
      /\ absent' = [absent EXCEPT ![p] = 0] /\ muddled' = muddled \ {p}
  BY DEF MarkActive
<1>9. \A f \in Executor : GoesOn(f, {p})
  BY <1>8, OthersAre, GoesOnBeside
<1>10. overlap' \in SUBSET Posting /\ overlap \subseteq overlap' \cup JobsOf({p})
  BY <1>1, <1>2, <1>6, <1>8 DEF RecordOverlap
<1>11. Commit({p})
  <2>1. fetch' \in [Executor -> Fetch] /\ probe' \in Probe
    BY <1>1, <1>8 DEF MarkActive
  <2>2. \A q \in {p} : listing'[q].job \in Posting /\ listing'[q].status # "absent"
                       /\ job'[listing'[q].job] # "absent"
    BY <1>2, <1>3, <1>5, <1>7
  <2>3. \A q \in Posting : IsListed(q) => listing'[q].job = listing[q].job
    BY <1>3, <1>5
  <2>4. \A i \in Posting : job[i] # "absent" <=> job'[i] # "absent"
    BY <1>2, <1>7
  <2> QED BY <1>5, <1>6, <1>7, <1>8, <1>9, <1>10, <2>1, <2>2, <2>3, <2>4 DEF Commit
<1>12. RowsRight({p})
  BY <1>1, <1>3, <1>5, <1>8 DEF RowsRight, MissThreshold
<1>13. \A i \in JobsOf({p}) \ overlap' : job'[i] = "active" <=> HasActiveListing(i, listing')
  BY <1>3, <1>5, <1>6, <1>7 DEF HasActiveListing
<1>14. JobsAreDistinct'
  BY <1>2, <1>7, <1>8, NoJobCreated DEF CorpusInv
<1> QED BY <1>1, <1>8, <1>11, <1>12, <1>13, <1>14, CommitKeeps

\* A check leaves the job as it is if it has counted another listing: then it was
\* active before.
LEMMA MarkInactiveKeeps ==
  ASSUME CorpusAssumption, CorpusInv, MarkInactive
  PROVE  CorpusInv'
<1> DEFINE p == probe.of
           j == listing[p].job
           row == ClosedRow(listing[p])
<1>1. /\ listing \in [Posting -> ListingRow] /\ job \in [Posting -> ListingStatus]
      /\ fetch \in [Executor -> Fetch] /\ probe \in Probe
      /\ absent \in [Posting -> 0..MissThreshold - 1]
      /\ overlap \in SUBSET Posting /\ muddled \in SUBSET Posting /\ crossed \in BOOLEAN
  BY DEF CorpusInv, Types, CorpusTypeOK, ListingStatus
<1>2. probe # NoProbe /\ p \in Posting /\ IsListed(p)
  BY <1>1 DEF MarkInactive, CorpusInv, LocksApart, Probe
<1>3. j \in Posting /\ job[j] # "absent"
  BY <1>1, <1>2 DEF CorpusInv, TablesAgree, ListingRow, IsListed
<1>4. row \in ListingRow /\ row.job = j /\ row.status = "inactive"
  BY <1>1, <1>2, ClosedRowTyped
<1>5. /\ listing' \in [Posting -> ListingRow] /\ listing'[p] = row
      /\ \A q \in Posting \ {p} : listing'[q] = listing[q]
  <2>1. listing' = [listing EXCEPT ![p] = row]
    BY DEF MarkInactive
  <2> HIDE DEF row
  <2> QED BY <1>1, <1>2, <1>4, <2>1
<1> HIDE DEF row
<1>6. JobsOf({p}) = {j}
  BY <1>3, <1>4, <1>5 DEF JobsOf, CorpusAssumption
<1>7. /\ job' \in [Posting -> ListingStatus]
      /\ job'[j] = IF j \in probe.offered THEN job[j] ELSE "inactive"
      /\ \A i \in Posting \ {j} : job'[i] = job[i]
  BY <1>1, <1>3, <1>6 DEF MarkInactive, Recount, ListingStatus
<1>8. /\ RecordOverlap(JobsOf({p}), {}, OthersOfCheck)
      /\ UNCHANGED <<fetch, muddled, crossed>>
      /\ probe' = NoProbe
      /\ absent' = [absent EXCEPT ![p] = 0]
  BY DEF MarkInactive
<1>9. \A f \in Executor : GoesOn(f, {p})
  <2>1. {p} \cap OthersOfCheck = {}
    BY DEF CorpusInv, LocksApart, OthersOfCheck
  <2> QED BY <1>8, <2>1, OthersAre, GoesOnBeside
<1>10. overlap' \in SUBSET Posting /\ overlap \subseteq overlap'
  BY <1>1, <1>3, <1>6, <1>8 DEF RecordOverlap
<1>11. Commit({p})
  <2>1. fetch' \in [Executor -> Fetch] /\ probe' \in Probe
    BY <1>1, <1>8, CorpusAssumption DEF NoProbe, Probe
  <2>2. \A q \in {p} : listing'[q].job \in Posting /\ listing'[q].status # "absent"
                       /\ job'[listing'[q].job] # "absent"
    BY <1>3, <1>4, <1>5, <1>7
  <2>3. \A q \in Posting : IsListed(q) => listing'[q].job = listing[q].job
    BY <1>4, <1>5
  <2>4. \A i \in Posting : job[i] # "absent" <=> job'[i] # "absent"
    BY <1>3, <1>7
  <2> QED BY <1>2, <1>5, <1>6, <1>7, <1>8, <1>9, <1>10, <2>1, <2>2, <2>3, <2>4 DEF Commit
<1>12. RowsRight({p})
  BY <1>1, <1>2, <1>4, <1>5, <1>8 DEF RowsRight, MissThreshold
<1>13. \A i \in JobsOf({p}) \ overlap' : job'[i] = "active" <=> HasActiveListing(i, listing')
  <2> SUFFICES ASSUME j \notin overlap'
               PROVE  job'[j] = "active" <=> HasActiveListing(j, listing')
    BY <1>6
  <2>1. j \notin overlap
    BY <1>10
  <2>2. j \in probe.offered <=> IsOfferedWithout(p)
    BY <1>2, <2>1 DEF CorpusInv, CheckStands
  <2>3. HasActiveListing(j, listing') <=> IsOfferedWithout(p)
    BY <1>2, <1>4, <1>5 DEF HasActiveListing, IsOfferedWithout, IsActiveListing
  <2>4. IsOfferedWithout(p) => job[j] = "active"
    BY <1>3, <2>1
       DEF CorpusInv, AvailableIffListed, HasActiveListing, IsOfferedWithout, IsActiveListing
  <2> QED BY <1>7, <2>2, <2>3, <2>4
<1>14. JobsAreDistinct'
  BY <1>3, <1>7, <1>8, NoJobCreated DEF CorpusInv
<1> QED BY <1>1, <1>8, <1>11, <1>12, <1>13, <1>14, CommitKeeps

\* Reconciliation writes the table as it saw it when it counted: what it counted
\* of a job still stands, or the job is in overlap.
LEMMA ReconcileKeeps ==
  ASSUME CorpusAssumption, CorpusInv, NEW e \in Executor, Reconcile(e)
  PROVE  CorpusInv'
<1> DEFINE rows == fetch[e].rows
           found == DOMAIN rows
<1>1. /\ listing \in [Posting -> ListingRow] /\ job \in [Posting -> ListingStatus]
      /\ fetch \in [Executor -> Fetch] /\ probe \in Probe
      /\ absent \in [Posting -> 0..MissThreshold - 1]
      /\ overlap \in SUBSET Posting /\ muddled \in SUBSET Posting /\ crossed \in BOOLEAN
  BY DEF CorpusInv, Types, CorpusTypeOK, ListingStatus
<1>2. fetch[e].step = "counted" /\ Reads(e) /\ found = LockedBy(e)
  BY DEF Reconcile, Reads, LockedBy
<1>3. found \in SUBSET Posting
  BY <1>2, RowsTyped DEF CorpusInv
<1>4. \A p \in found : /\ rows[p] \in ListingRow /\ listing[p].job \in Posting
                       /\ rows[p].job = listing[p].job /\ rows[p].status # "absent"
                       /\ rows[p].status = "active" => rows[p].failures < MissThreshold
                       /\ IsListed(p) /\ job[listing[p].job] # "absent"
  BY <1>2, <1>3, RowsTyped DEF CorpusInv, RowsAreListings, TablesAgree
<1>5. /\ \A p \in found : listing'[p] = rows[p]
      /\ \A p \in Posting \ found : listing'[p] = listing[p]
      /\ listing' \in [Posting -> ListingRow]
      /\ listing' = Overlay(rows, listing)
  <2>1. listing' = [p \in Posting |-> IF p \in found THEN rows[p] ELSE listing[p]]
    BY DEF Reconcile
  <2>2. \A p \in Posting : (IF p \in found THEN rows[p] ELSE listing[p]) \in ListingRow
    BY <1>1, <1>4
  <2>3. listing' = Overlay(rows, listing)
    BY <2>1 DEF Overlay
  <2> HIDE DEF found, rows
  <2> QED BY <1>3, <2>1, <2>2, <2>3
<1>6. JobsOf(found) = {listing[p].job : p \in found} /\ JobsOf(found) \in SUBSET Posting
  BY <1>3, <1>4, <1>5, JobsOfListings
<1>7. /\ job' \in [Posting -> ListingStatus]
      /\ \A j \in JobsOf(found) :
           job'[j] = IF j \in fetch[e].offered THEN "active" ELSE "inactive"
      /\ \A i \in Posting \ JobsOf(found) : job'[i] = job[i]
  <2>1. job' = [j \in Posting |-> IF j \notin JobsOf(found) THEN job[j]
                           ELSE IF j \in fetch[e].offered THEN "active" ELSE "inactive"]
    BY DEF Reconcile, Recount
  <2> HIDE DEF found
  <2> QED BY <1>1, <1>6, <2>1 DEF ListingStatus
<1>8. /\ RecordOverlap(JobsOf(found), {}, OthersOf(e))
      /\ fetch' = [fetch EXCEPT ![e] = NoFetch]
      /\ UNCHANGED <<probe, crossed>>
      /\ absent' = [p \in Posting |-> IF p \notin found THEN absent[p]
                                     ELSE IF p \in fetch[e].ids THEN 0
                                     ELSE (absent[p] + 1) % MissThreshold]
      /\ muddled' = muddled \ (found \cap fetch[e].ids)
  BY DEF Reconcile
<1> HIDE DEF rows, found
<1>9. fetch' \in [Executor -> Fetch] /\ fetch'[e].step = "idle"
      /\ \A f \in Executor \ {e} : fetch'[f] = fetch[f]
  <2>1. NoFetch \in Fetch /\ NoFetch.step = "idle"
    BY NoFetchTyped DEF NoFetch
  <2> QED BY <1>1, <1>8, <2>1
<1>10. found \cap OthersOf(e) = {}
  BY <1>2, OthersAre DEF CorpusInv, LocksApart, OthersOf, LockedByCheck
<1>11. \A f \in Executor \ {e} : GoesOn(f, found)
  <2> SUFFICES ASSUME NEW f \in Executor \ {e} PROVE GoesOn(f, found)
    OBVIOUS
  <2>1. LockedBy(f) \subseteq OthersOf(e)
    BY OthersAre
  <2> QED BY <1>8, <1>9, <1>10, <2>1, GoesOnBeside
<1>12. CheckGoesOn(found)
  <2>1. probe.of # NoPosting => probe.of \in OthersOf(e)
    BY OthersAre
  <2> QED BY <1>8, <1>10, <2>1, CheckGoesOnBeside DEF CorpusInv
<1>13. overlap' \in SUBSET Posting /\ overlap \subseteq overlap'
  BY <1>1, <1>6, <1>8 DEF RecordOverlap
<1>14. Commit(found)
  <2>1. \A p \in found : listing'[p].job \in Posting /\ listing'[p].status # "absent"
                       /\ job'[listing'[p].job] # "absent"
    BY <1>4, <1>5, <1>6, <1>7
  <2>2. \A p \in Posting : IsListed(p) => listing'[p].job = listing[p].job
    BY <1>4, <1>5
  <2>3. \A j \in Posting : job[j] # "absent" <=> job'[j] # "absent"
    BY <1>4, <1>6, <1>7
  <2> QED BY <1>1, <1>3, <1>5, <1>7, <1>8, <1>9, <1>11, <1>12, <1>13, <2>1, <2>2, <2>3
          DEF Commit
<1>15. RowsRight(found)
  <2>1. \A p \in Posting : absent[p] \in 0..1 /\ absent'[p] \in 0..1
    BY <1>1, <1>8 DEF MissThreshold
  <2>2. absent' \in [Posting -> 0..MissThreshold - 1]
    BY <1>8, <2>1 DEF MissThreshold
  <2>3. \A p \in found \ muddled' :
          listing'[p].status = "active" => listing'[p].failures = absent'[p]
    <3> SUFFICES ASSUME NEW p \in found \ muddled', rows[p].status = "active"
                 PROVE  rows[p].failures = absent'[p]
      BY <1>5
    <3>1. CASE p \in fetch[e].ids
      BY <1>2, <1>3, <1>8, <3>1 DEF CorpusInv, MissesCounted, rows, found
    <3>2. CASE p \notin fetch[e].ids
      <4>1. absent'[p] = (absent[p] + 1) % MissThreshold /\ p \notin muddled
        BY <1>3, <1>8, <3>2
      <4>2. rows[p].failures = absent[p] + 1 /\ absent[p] + 1 < MissThreshold
        BY <1>2, <3>2, <4>1 DEF CorpusInv, MissesCounted, rows, found
      <4> QED BY <1>3, <2>1, <4>1, <4>2 DEF MissThreshold
    <3> QED BY <3>1, <3>2
  <2> QED BY <1>1, <1>3, <1>4, <1>5, <1>8, <2>2, <2>3 DEF RowsRight
<1>16. \A j \in JobsOf(found) \ overlap' : job'[j] = "active" <=> HasActiveListing(j, listing')
  <2> SUFFICES ASSUME NEW p \in found, listing[p].job \notin overlap
               PROVE  job'[listing[p].job] = "active" <=> HasActiveListing(listing[p].job, listing')
    BY <1>6, <1>13
  <2>1. listing[p].job \in fetch[e].offered <=> HasActiveListing(listing[p].job, listing')
    BY <1>2, <1>5 DEF CorpusInv, CountsStand, rows, found
  <2> QED BY <1>6, <1>7, <2>1
<1>17. JobsAreDistinct'
  <2>1. \A j \in Posting : job'[j] # "absent" => job[j] # "absent"
    BY <1>4, <1>6, <1>7
  <2> QED BY <1>8, <2>1, NoJobCreated DEF CorpusInv
<1> QED BY <1>1, <1>8, <1>14, <1>15, <1>16, <1>17, CommitKeeps

\* Every listing that is saved is active, and so is its job; it was there or is
\* created together with the listing.
LEMMA SaveJobsKeeps ==
  ASSUME CorpusAssumption, CorpusInv, NEW e \in Executor, SaveJobs(e)
  PROVE  CorpusInv'
<1> DEFINE ids == fetch[e].ids
           of == fetch[e].job
           saved(p) == [job |-> IF p \in DOMAIN of THEN of[p] ELSE listing[p].job,
                        status |-> "active", failures |-> 0]
<1>1. /\ listing \in [Posting -> ListingRow] /\ job \in [Posting -> ListingStatus]
      /\ fetch \in [Executor -> Fetch] /\ probe \in Probe
      /\ absent \in [Posting -> 0..MissThreshold - 1]
      /\ overlap \in SUBSET Posting /\ muddled \in SUBSET Posting /\ crossed \in BOOLEAN
  BY DEF CorpusInv, Types, CorpusTypeOK, ListingStatus
<1>2. /\ fetch[e].step = "saving" /\ ids \in SUBSET Posting /\ of \in Partial(Posting)
      /\ DOMAIN of \subseteq ids
  BY <1>1 DEF SaveJobs, Fetch, CorpusInv, AssignmentsHold
<1>3. \A p \in DOMAIN of : of[p] \in Posting /\ ~IsListed(p)
  <2>1. \A p \in DOMAIN of : of[p] \in Posting
    <3> HIDE DEF of
    <3>1. of \in [DOMAIN of -> Posting]
      BY <1>2, PartialFunctions
    <3> QED BY <3>1
  <2> QED BY <2>1 DEF SaveJobs, IsListed
<1>4. \A p \in ids \ DOMAIN of : IsListed(p) /\ listing[p].job \in Posting
                                  /\ job[listing[p].job] # "absent"
  BY <1>1, <1>2 DEF CorpusInv, AssignmentsHold, TablesAgree, ListingRow, IsListed
<1>5. \A p \in ids : saved(p) \in ListingRow /\ saved(p).job \in Posting
                     /\ saved(p).status = "active" /\ saved(p).failures = 0
  <2> SUFFICES ASSUME NEW p \in ids
               PROVE  saved(p) \in ListingRow /\ saved(p).job \in Posting
                      /\ saved(p).status = "active" /\ saved(p).failures = 0
    OBVIOUS
  <2> DEFINE j == IF p \in DOMAIN of THEN of[p] ELSE listing[p].job
  <2>1. j \in Posting /\ 0 \in 0..MissThreshold
    BY <1>3, <1>4 DEF MissThreshold
  <2>2. saved(p) = [job |-> j, status |-> "active", failures |-> 0]
    OBVIOUS
  <2> HIDE DEF j, saved
  <2> QED BY <2>1, <2>2 DEF ListingRow
<1>6. /\ \A p \in ids : listing'[p] = saved(p)
      /\ \A p \in Posting \ ids : listing'[p] = listing[p]
      /\ listing' \in [Posting -> ListingRow]
  <2>1. listing' = [p \in Posting |-> IF p \notin ids THEN listing[p] ELSE saved(p)]
    BY DEF SaveJobs
  <2> HIDE DEF saved, ids
  <2> QED BY <1>1, <1>2, <1>5, <2>1
<1>7. \A p \in ids : /\ p \in DOMAIN of => listing'[p].job = of[p]
                     /\ p \notin DOMAIN of => listing'[p].job = listing[p].job
                     /\ listing'[p].job \in Posting
                     /\ listing'[p].status = "active" /\ listing'[p].failures = 0
  <2>1. \A p \in ids : saved(p).job = IF p \in DOMAIN of THEN of[p] ELSE listing[p].job
    OBVIOUS
  <2> HIDE DEF saved
  <2> QED BY <1>5, <1>6, <2>1
<1>8. JobsOf(ids) = {listing'[p].job : p \in ids} /\ JobsOf(ids) \in SUBSET Posting
  BY <1>2, <1>7, JobsOfListings
<1>9. /\ job' \in [Posting -> ListingStatus]
      /\ \A j \in JobsOf(ids) : job'[j] = "active"
      /\ \A j \in Posting \ JobsOf(ids) : job'[j] = job[j]
  <2>1. job' = [j \in Posting |-> IF j \notin JobsOf(ids) THEN job[j]
                           ELSE IF j \in JobsOf(ids) THEN "active" ELSE "inactive"]
    BY DEF SaveJobs, Recount
  <2> HIDE DEF ids
  <2> QED BY <1>1, <1>8, <2>1 DEF ListingStatus
<1>10. /\ RecordOverlap(JobsOf(ids), JobsOf(ids), OthersOf(e))
       /\ ids \cap OthersOf(e) = {}
       /\ fetch' = [fetch EXCEPT ![e].step = "reconciling", ![e].job = <<>>]
       /\ probe' = probe
       /\ absent' = [p \in Posting |-> IF p \in ids THEN 0 ELSE absent[p]]
       /\ muddled' = muddled \ ids
       /\ crossed' = (crossed \/ \E p \in {q \in DOMAIN of : of[q] = q} : Candidates(p) # {})
  BY DEF SaveJobs
<1> HIDE DEF saved, ids, of
<1>11. fetch' \in [Executor -> Fetch] /\ fetch'[e].step = "reconciling"
       /\ \A f \in Executor \ {e} : fetch'[f] = fetch[f]
  <2> DEFINE none == <<>>
             done == [fetch[e] EXCEPT !.step = "reconciling", !.job = none]
  <2>1. done \in Fetch /\ done.step = "reconciling"
    <3>1. none \in Partial(Posting)
      BY PartialFunctions
    <3>2. fetch[e] \in Fetch
      BY <1>1
    <3> HIDE DEF none
    <3> QED BY <3>1, <3>2 DEF Fetch, FetchStep
  <2>2. fetch' = [fetch EXCEPT ![e] = done]
    BY <1>10
  <2> HIDE DEF done
  <2> QED BY <1>1, <2>1, <2>2
<1>12. \A f \in Executor \ {e} : GoesOn(f, ids)
  <2> SUFFICES ASSUME NEW f \in Executor \ {e} PROVE GoesOn(f, ids)
    OBVIOUS
  <2>1. LockedBy(f) \subseteq OthersOf(e)
    BY OthersAre
  <2> QED BY <1>10, <1>11, <2>1, GoesOnBeside
<1>13. CheckGoesOn(ids)
  <2>1. probe.of # NoPosting => probe.of \in OthersOf(e)
    BY OthersAre
  <2> QED BY <1>10, <2>1, CheckGoesOnBeside DEF CorpusInv
<1>14. overlap' \in SUBSET Posting /\ overlap \subseteq overlap' \cup JobsOf(ids)
  BY <1>1, <1>8, <1>10 DEF RecordOverlap
<1>15. \A j \in JobsOf(ids) : job[j] # "absent" \/ j \in Creates(e)
  <2> SUFFICES ASSUME NEW p \in ids
               PROVE  job[listing'[p].job] # "absent" \/ listing'[p].job \in Creates(e)
    BY <1>8
  <2> QED BY <1>2, <1>4, <1>7 DEF CorpusInv, AssignmentsHold, ids, of
<1>16. Creates(e) \subseteq DOMAIN of /\ Creates(e) = {q \in DOMAIN of : of[q] = q}
  BY DEF Creates, of
<1>17. Commit(ids)
  <2>1. \A p \in ids : listing'[p].job \in Posting /\ listing'[p].status # "absent"
                       /\ job'[listing'[p].job] # "absent"
    BY <1>7, <1>8, <1>9
  <2>2. \A p \in Posting : IsListed(p) => listing'[p].job = listing[p].job
    BY <1>3, <1>6, <1>7
  <2>3. \A j \in Posting : job[j] # "absent" => job'[j] # "absent"
    BY <1>9
  <2>4. \A j \in Posting : job'[j] # "absent" => job[j] # "absent" \/ j \in ids
    BY <1>2, <1>9, <1>15, <1>16
  <2> QED BY <1>1, <1>2, <1>6, <1>9, <1>10, <1>11, <1>12, <1>13, <1>14, <2>1, <2>2, <2>3, <2>4
          DEF Commit
<1>18. RowsRight(ids)
  BY <1>1, <1>2, <1>7, <1>10 DEF RowsRight, MissThreshold
<1>19. \A j \in JobsOf(ids) \ overlap' : job'[j] = "active" <=> HasActiveListing(j, listing')
  BY <1>2, <1>7, <1>8, <1>9 DEF HasActiveListing
<1>20. JobsAreDistinct'
  <2> SUFFICES ASSUME ~crossed', NEW i \in Posting, NEW j \in Posting,
                      job'[i] # "absent", job'[j] # "absent", <<i, j>> \in Similar
               PROVE  i = j
    BY DEF JobsAreDistinct
  <2>1. ~crossed /\ \A p \in Creates(e) : Candidates(p) = {}
    BY <1>10, <1>16
  <2>2. \A p \in Creates(e) : \A q \in Posting : <<p, q>> \in Similar => job[q] = "absent"
    BY <2>1 DEF Candidates
  <2>3. <<j, i>> \in Similar
    BY DEF CorpusAssumption
  <2>4. (job[i] # "absent" \/ i \in Creates(e)) /\ (job[j] # "absent" \/ j \in Creates(e))
    BY <1>9, <1>15
  <2>5. \A p, q \in Creates(e) : <<p, q>> \in Similar => p = q
    BY <1>2 DEF CorpusInv, AssignmentsHold
  <2> QED BY <2>1, <2>2, <2>3, <2>4, <2>5 DEF CorpusInv, JobsAreDistinct
<1>21. crossed' \in BOOLEAN
  BY <1>1, <1>10
<1> QED BY <1>17, <1>18, <1>19, <1>20, <1>21, CommitKeeps

-----------------------------------------------------------------------------
(* The steps that write no table *)

LEMMA QuietKeepsTables ==
  ASSUME CorpusInv, Quiet
  PROVE  TablesAgree' /\ AvailableIffListed' /\ JobsAreDistinct'
BY DEF CorpusInv, Quiet, TablesAgree, IsListed, AvailableIffListed, HasActiveListing,
       JobsAreDistinct

LEMMA QuietKeepsTypes ==
  ASSUME CorpusInv, Quiet, fetch' \in [Executor -> Fetch], probe' \in Probe,
         muddled' \in SUBSET Posting
  PROVE  Types'
<1>1. \A e \in Executor : fetch'[e] \in Fetch
  OBVIOUS
<1> QED BY <1>1 DEF CorpusInv, Quiet, Types, CorpusTypeOK, Fetch, FetchStep, Probe

\* An executor that has not asked, read or counted just now disturbs nobody.
LEMMA AloneKeepsAssignments ==
  ASSUME CorpusInv, Quiet, NEW e \in Executor, Alone(e), fetch'[e].step # "saving"
  PROVE  AssignmentsHold'
BY DEF CorpusInv, Quiet, Alone, AssignmentsHold, IsListed, Creates

LEMMA AloneKeepsRows ==
  ASSUME CorpusInv, Quiet, NEW e \in Executor, Alone(e), ~Reads(e)'
  PROVE  RowsAreListings'
BY DEF CorpusInv, Quiet, Alone, RowsAreListings, IsListed, Reads

LEMMA AloneKeepsLocks ==
  ASSUME CorpusInv, Quiet, NEW e \in Executor, Alone(e), probe' = probe,
         fetch'[e].step # "counted"
  PROVE  LocksApart' /\ CountsStand'
<1>1. \A f \in Executor : LockedBy(f)' \subseteq LockedBy(f)
  BY DEF Alone, LockedBy
<1>2. LocksApart'
  BY <1>1 DEF CorpusInv, Quiet, LocksApart, IsListed
<1>3. \A f \in Executor : fetch'[f].step = "counted" => fetch'[f] = fetch[f]
  BY DEF Alone
<1>4. CountsStand'
  BY <1>3 DEF CorpusInv, Quiet, CountsStand, HasActiveListing, Overlay
<1> QED BY <1>2, <1>4

LEMMA AloneKeepsMisses ==
  ASSUME CorpusInv, Quiet, NEW e \in Executor, Alone(e), muddled \subseteq muddled',
         fetch'[e].step # "counted"
  PROVE  MissesCounted'
<1>1. \A f \in Executor : fetch'[f].step = "counted" => fetch'[f] = fetch[f]
  BY DEF Alone
<1> QED BY <1>1 DEF CorpusInv, Quiet, MissesCounted, IsActiveListing

LEMMA QuietKeepsCheck ==
  ASSUME CorpusInv, Quiet, probe' = probe
  PROVE  CheckStands'
BY DEF CorpusInv, Quiet, CheckStands, IsOfferedWithout, IsActiveListing

LEMMA RestKeeps ==
  ASSUME CorpusInv, NEW e \in Executor, RestShape(e)
  PROVE  CorpusInv'
<1>1. /\ Quiet /\ Alone(e) /\ probe' = probe /\ muddled' = muddled
      /\ fetch'[e].step = "idle" /\ ~Reads(e)'
  BY DEF RestShape, Reads
<1>2. Types'
  BY <1>1, QuietKeepsTypes DEF CorpusInv, Types, Alone
<1> QED BY <1>1, <1>2, QuietKeepsTables, AloneKeepsAssignments, AloneKeepsRows,
           AloneKeepsLocks, AloneKeepsMisses, QuietKeepsCheck DEF CorpusInv

LEMMA AskKeeps ==
  ASSUME CorpusAssumption, CorpusInv, NEW e \in Executor, AskShape(e)
  PROVE  CorpusInv'
<1>1. /\ Quiet /\ Alone(e) /\ probe' = probe /\ muddled' = muddled
      /\ fetch'[e].step = "saving" /\ ~Reads(e)'
  BY DEF AskShape, Reads
<1>2. Types'
  BY <1>1, QuietKeepsTypes DEF CorpusInv, Types, Alone
<1>3. AssignmentsHold'
  <2> DEFINE of == fetch'[e].job
             new == DOMAIN of
             created == {p \in new : Candidates(p) = {} /\ of[p] = p}
  <2>1. /\ new = {p \in fetch'[e].ids : ~IsListed(p)} /\ IsAssignment(new, of)
        /\ fetch'[e].ids \subseteq Posting /\ of \in Partial(Posting)
    BY <1>1 DEF AskShape, Alone, Fetch
  <2>2. /\ \A p \in new : IF Candidates(p) # {} THEN of[p] \in Candidates(p)
                          ELSE of[p] \in created
        /\ \A p, q \in created : <<p, q>> \in Similar => p = q
    BY <2>1 DEF IsAssignment
  <2>3. \A p \in Posting : \A j \in Candidates(p) : job[j] # "absent"
    BY DEF Candidates
  <2>4. created \subseteq Creates(e)'
    BY DEF Creates
  <2>5. \A p \in new : of[p] \in Creates(e)' \/ job[of[p]] # "absent"
    BY <2>1, <2>2, <2>3, <2>4
  <2>6. Creates(e)' \subseteq created
    <3> SUFFICES ASSUME NEW p \in Creates(e)', Candidates(p) # {} PROVE FALSE
      BY DEF Creates
    <3>1. p \in new /\ p \in Posting /\ ~IsListed(p) /\ of[p] = p
      BY <2>1 DEF Creates
    <3>2. job[p] # "absent"
      BY <2>2, <2>3, <3>1
    <3> QED BY <3>1, <3>2 DEF CorpusInv, TablesAgree
  <2>7. \A p, q \in Creates(e)' : <<p, q>> \in Similar => p = q
    BY <2>2, <2>6
  <2>8. \A f \in Executor \ {e} : fetch'[f] = fetch[f]
    BY <1>1 DEF Alone
  <2> SUFFICES ASSUME NEW f \in Executor, fetch'[f].step = "saving"
               PROVE (LET jobs == fetch[f].job IN
                       /\ DOMAIN jobs \subseteq fetch[f].ids
                       /\ \A p \in fetch[f].ids \ DOMAIN jobs : IsListed(p)
                       /\ \A p \in DOMAIN jobs : jobs[p] \in Creates(f) \/ job[jobs[p]] # "absent"
                       /\ \A p, q \in Creates(f) : <<p, q>> \in Similar => p = q)'
    BY DEF AssignmentsHold
  <2>9. CASE f = e
    <3>1. new \subseteq fetch'[e].ids /\ \A p \in fetch'[e].ids \ new : IsListed(p)'
      BY <1>1, <2>1 DEF Quiet, IsListed
    <3>2. job' = job
      BY <1>1 DEF Quiet
    <3> QED BY <2>5, <2>7, <2>9, <3>1, <3>2
  <2>10. CASE f # e
    BY <1>1, <2>8, <2>10 DEF CorpusInv, AssignmentsHold, Quiet, IsListed, Creates
  <2> QED BY <2>9, <2>10
<1> QED BY <1>1, <1>2, <1>3, QuietKeepsTables, AloneKeepsRows,
           AloneKeepsLocks, AloneKeepsMisses, QuietKeepsCheck DEF CorpusInv

LEMMA ReadKeeps ==
  ASSUME CorpusAssumption, CorpusInv, NEW e \in Executor, ReadShape(e)
  PROVE  CorpusInv'
<1>1. /\ Quiet /\ Alone(e) /\ probe' = probe /\ muddled' = muddled
      /\ fetch'[e].step = "closing"
  BY DEF ReadShape
<1>2. Types'
  BY <1>1, QuietKeepsTypes DEF CorpusInv, Types, Alone
<1>3. RowsAreListings'
  <2>1. \A f \in Executor \ {e} : fetch'[f] = fetch[f]
    BY <1>1 DEF Alone
  <2>2. fetch'[e].rows \in Partial(ListingRow)
    BY <1>1 DEF Alone, Fetch
  <2>3. ASSUME NEW p \in DOMAIN fetch'[e].rows
        PROVE  (LET row == fetch[e].rows[p] IN
                  /\ IsListed(p) /\ row.job = listing[p].job
                  /\ row.status = "active" /\ row.failures < MissThreshold)'
    <3>1. p \in Posting /\ fetch'[e].rows[p] = listing[p] /\ listing[p].status = "active"
      BY <2>2, <2>3, PartialFunctions DEF ReadShape, IsActiveListing
    <3>2. IsListed(p)' /\ listing[p].failures < MissThreshold
      BY <1>1, <3>1 DEF CorpusInv, TablesAgree, Types, CorpusTypeOK, Quiet, IsListed
    <3> QED BY <1>1, <3>1, <3>2 DEF Quiet
  <2> SUFFICES ASSUME NEW f \in Executor, Reads(f)', NEW p \in (DOMAIN fetch[f].rows)'
               PROVE  (LET row == fetch[f].rows[p] IN
                        /\ IsListed(p) /\ row.job = listing[p].job
                        /\ row.status # "absent"
                        /\ row.status = "active" => row.failures < MissThreshold
                        /\ fetch[f].step = "closing" => row.status = "active")'
    BY DEF RowsAreListings
  <2>4. CASE f = e
    BY <2>3, <2>4
  <2>5. CASE f # e
    BY <1>1, <2>1, <2>5 DEF CorpusInv, RowsAreListings, Quiet, IsListed, Reads
  <2> QED BY <2>4, <2>5
<1> QED BY <1>1, <1>2, <1>3, QuietKeepsTables, AloneKeepsAssignments,
           AloneKeepsLocks, AloneKeepsMisses, QuietKeepsCheck DEF CorpusInv

\* The rows are locked from here on, what is counted is true, and a row that
\* nobody has touched since it was read has the misses that were read.
LEMMA CountKeeps ==
  ASSUME CorpusAssumption, CorpusInv, NEW e \in Executor, CountShape(e)
  PROVE  CorpusInv'
<1> DEFINE found == DOMAIN fetch[e].rows
<1>1. /\ Quiet /\ Alone(e) /\ probe' = probe
      /\ fetch[e].step = "closing" /\ Reads(e) /\ fetch'[e].step = "counted"
      /\ fetch'[e].ids = fetch[e].ids /\ DOMAIN fetch'[e].rows = found
      /\ found \cap OthersOf(e) = {}
      /\ \A p \in found : fetch'[e].rows[p] = NewRow(e, p)
      /\ fetch'[e].offered = Counted(fetch'[e].rows)
      /\ muddled' = muddled \cup {p \in found : fetch[e].rows[p] # listing[p]}
  BY DEF CountShape, Reads
<1>2. found \in SUBSET Posting
  BY <1>1, RowsTyped DEF CorpusInv
<1>3. \A f \in Executor \ {e} : fetch'[f] = fetch[f]
  BY <1>1 DEF Alone
<1>4. Types'
  BY <1>1, <1>2, QuietKeepsTypes DEF CorpusInv, Types, Alone
<1>5. ASSUME NEW p \in found
      PROVE  /\ IsListed(p) /\ listing[p].job \in Posting
             /\ fetch'[e].rows[p].job = listing[p].job
             /\ fetch'[e].rows[p].status # "absent"
             /\ fetch'[e].rows[p].status = "active" => fetch'[e].rows[p].failures < MissThreshold
             /\ p \in fetch[e].ids => fetch'[e].rows[p].status = "active"
                                       /\ fetch'[e].rows[p].failures = 0
             /\ p \notin fetch[e].ids /\ p \notin muddled' =>
                  /\ fetch'[e].rows[p].failures = absent[p] + 1
                  /\ fetch'[e].rows[p].status = "active" <=> absent[p] + 1 < MissThreshold
  <2> DEFINE row == NewRow(e, p)
             seen == fetch[e].rows[p]
  <2>1. /\ row.job = listing[p].job /\ row.job \in Posting
        /\ p \in fetch[e].ids => row.status = "active" /\ row.failures = 0
        /\ p \notin fetch[e].ids =>
             /\ row.failures = seen.failures + 1
             /\ row.status = IF seen.failures + 1 >= MissThreshold THEN "inactive"
                             ELSE listing[p].status
    BY <1>1, <1>5, NewRowTyped DEF CorpusInv
  <2>2. seen.failures \in 0..MissThreshold /\ p \in Posting
    BY <1>1, <1>5, RowsTyped DEF CorpusInv, ListingRow
  <2>3. IsListed(p) /\ listing[p].status # "absent" /\ seen.status = "active"
    BY <1>1, <1>5, <2>2 DEF CorpusInv, RowsAreListings, TablesAgree
  <2>4. p \notin muddled' => seen.failures = absent[p] /\ listing[p].status = "active"
    BY <1>1, <1>5, <2>2, <2>3 DEF CorpusInv, MissesCounted, IsActiveListing
  <2>5. fetch'[e].rows[p] = row
    BY <1>1, <1>5
  <2> HIDE DEF row, seen
  <2> QED BY <2>1, <2>2, <2>3, <2>4, <2>5 DEF MissThreshold
<1>6. RowsAreListings'
  <2> SUFFICES ASSUME NEW f \in Executor, Reads(f)', NEW p \in (DOMAIN fetch[f].rows)'
               PROVE  (LET row == fetch[f].rows[p] IN
                        /\ IsListed(p) /\ row.job = listing[p].job
                        /\ row.status # "absent"
                        /\ row.status = "active" => row.failures < MissThreshold
                        /\ fetch[f].step = "closing" => row.status = "active")'
    BY DEF RowsAreListings
  <2>1. CASE f = e
    BY <1>1, <1>5, <2>1 DEF Quiet, IsListed
  <2>2. CASE f # e
    BY <1>1, <1>3, <2>2 DEF CorpusInv, RowsAreListings, Quiet, IsListed, Reads
  <2> QED BY <2>1, <2>2
<1>7. LocksApart'
  <2>1. LockedBy(e)' = found /\ \A f \in Executor \ {e} : LockedBy(f)' = LockedBy(f)
    BY <1>1, <1>3 DEF LockedBy
  <2>2. \A f \in Executor \ {e} : found \cap LockedBy(f) = {}
    BY <1>1, OthersAre
  <2>3. probe.of \notin found
    BY <1>1, <1>2, OthersAre DEF CorpusAssumption
  <2> QED BY <1>1, <2>1, <2>2, <2>3 DEF CorpusInv, LocksApart, Quiet, IsListed
<1>8. CountsStand'
  <2>1. ASSUME NEW p \in found
        PROVE  listing[p].job \in fetch'[e].offered
               <=> HasActiveListing(listing[p].job, Overlay(fetch'[e].rows, listing))
    <3>1. listing[p].job \in {fetch'[e].rows[q].job : q \in DOMAIN fetch'[e].rows}
      BY <1>1, <1>5, <2>1
    <3> QED BY <1>1, <3>1 DEF Counted, Overlay
  <2> SUFFICES ASSUME NEW f \in Executor, fetch'[f].step = "counted",
                      NEW p \in DOMAIN fetch'[f].rows, listing[p].job \notin overlap
               PROVE  listing[p].job \in fetch'[f].offered
                      <=> HasActiveListing(listing[p].job, Overlay(fetch'[f].rows, listing))
    BY <1>1 DEF CountsStand, HasActiveListing, Overlay, Quiet
  <2>2. CASE f = e
    BY <1>1, <2>1, <2>2
  <2>3. CASE f # e
    BY <1>3, <2>3 DEF CorpusInv, CountsStand
  <2> QED BY <2>2, <2>3
<1>9. MissesCounted'
  <2>1. ASSUME NEW f \in Executor, fetch'[f].step = "counted", NEW p \in DOMAIN fetch'[f].rows
        PROVE  (LET row == fetch[f].rows[p] IN
                 /\ p \in fetch[f].ids => row.status = "active" /\ row.failures = 0
                 /\ p \notin fetch[f].ids /\ p \notin muddled =>
                      /\ row.failures = absent[p] + 1
                      /\ row.status = "active" <=> absent[p] + 1 < MissThreshold)'
    <3>1. CASE f = e
      BY <1>1, <1>5, <2>1, <3>1 DEF Quiet
    <3>2. CASE f # e
      BY <1>1, <1>3, <2>1, <3>2 DEF CorpusInv, MissesCounted, Quiet
    <3> QED BY <3>1, <3>2
  <2>2. \A p \in Posting \ muddled' :
          IsActiveListing(p)' => listing'[p].failures = absent'[p]
    BY <1>1 DEF CorpusInv, MissesCounted, Quiet, IsActiveListing
  <2> QED BY <2>1, <2>2 DEF MissesCounted
<1> QED BY <1>1, <1>4, <1>6, <1>7, <1>8, <1>9, QuietKeepsTables, AloneKeepsAssignments,
           QuietKeepsCheck DEF CorpusInv

\* Executors do not notice what an availability check does before it commits.
LEMMA CheckDisturbsNone ==
  ASSUME CorpusInv, Quiet, UNCHANGED <<fetch, muddled>>, probe' \in Probe
  PROVE  /\ Types' /\ TablesAgree' /\ AssignmentsHold' /\ RowsAreListings'
         /\ AvailableIffListed' /\ CountsStand' /\ JobsAreDistinct' /\ MissesCounted'
<1>1. Types'
  BY QuietKeepsTypes DEF CorpusInv, Types
<1>2. AssignmentsHold' /\ RowsAreListings'
  BY DEF CorpusInv, Quiet, AssignmentsHold, RowsAreListings, Creates, IsListed, Reads
<1>3. CountsStand'
  BY DEF CorpusInv, Quiet, CountsStand, HasActiveListing, Overlay
<1>4. MissesCounted'
  BY DEF CorpusInv, Quiet, MissesCounted, IsActiveListing
<1> QED BY <1>1, <1>2, <1>3, <1>4, QuietKeepsTables

\* An availability check locks its listing and counts.
LEMMA CountOthersKeeps ==
  ASSUME CorpusAssumption, CorpusInv, NEW p \in Posting, CountOthers(p)
  PROVE  CorpusInv'
<1> DEFINE rows == [q \in {p} |-> ClosedRow(listing[q])]
           j == listing[p].job
<1>1. /\ Quiet /\ UNCHANGED <<fetch, muddled>> /\ IsListed(p) /\ p \notin OthersOfCheck
      /\ probe' = [of |-> p, offered |-> Counted(rows)]
  BY DEF CountOthers, historyOfCorpus, Quiet, IsListed, OfferedWithout
<1>2. listing \in [Posting -> ListingRow] /\ listing[p] \in ListingRow /\ j \in Posting
  BY <1>1 DEF CorpusInv, Types, CorpusTypeOK, ListingRow, IsListed
<1>3. DOMAIN rows = {p} /\ rows[p].job = j /\ rows[p].status = "inactive"
  BY <1>2, ClosedRowTyped
<1> HIDE DEF rows
<1>4. Counted(rows) = {i \in {j} : HasActiveListing(i, Overlay(rows, listing))}
  BY <1>3 DEF Counted, Overlay
<1>5. probe' \in Probe /\ probe'.of = p /\ probe'.offered = Counted(rows)
  BY <1>1, <1>2, <1>4 DEF Probe
<1>6. LocksApart'
  <2>1. \A f \in Executor : LockedBy(f)' = LockedBy(f) /\ p \notin LockedBy(f)
    BY <1>1, OthersAre DEF LockedBy
  <2>2. p # NoPosting /\ IsListed(p)'
    BY <1>1 DEF CorpusAssumption, Quiet, IsListed
  <2> QED BY <1>5, <2>1, <2>2 DEF CorpusInv, LocksApart, IsListed
<1>7. CheckStands'
  <2>1. HasActiveListing(j, Overlay(rows, listing)) <=> IsOfferedWithout(p)
    BY <1>2, <1>3 DEF HasActiveListing, Overlay, IsOfferedWithout, IsActiveListing
  <2>2. j \in probe'.offered <=> IsOfferedWithout(p)
    BY <1>4, <1>5, <2>1
  <2>3. listing' = listing
    BY <1>1 DEF Quiet
  <2>4. IsOfferedWithout(p)' <=> IsOfferedWithout(p)
    BY <2>3 DEF IsOfferedWithout, IsActiveListing
  <2> QED BY <1>5, <2>2, <2>3, <2>4 DEF CheckStands, IsOfferedWithout, IsActiveListing
<1> QED BY <1>1, <1>5, <1>6, <1>7, CheckDisturbsNone DEF CorpusInv

LEMMA AbandonCheckKeeps ==
  ASSUME CorpusAssumption, CorpusInv, AbandonCheck
  PROVE  CorpusInv'
<1>1. Quiet /\ UNCHANGED <<fetch, muddled>> /\ probe' = NoProbe /\ NoProbe \in Probe
  BY DEF AbandonCheck, historyOfCorpus, Quiet, NoProbe, Probe
<1>2. \A f \in Executor : LockedBy(f)' = LockedBy(f) /\ NoPosting \notin LockedBy(f)
  BY <1>1, RowsTyped DEF CorpusInv, LockedBy, Reads, CorpusAssumption
<1>3. LocksApart' /\ CheckStands'
  BY <1>1, <1>2 DEF CorpusInv, LocksApart, CheckStands, NoProbe
<1> QED BY <1>1, <1>3, CheckDisturbsNone DEF CorpusInv

LEMMA StutterKeeps ==
  ASSUME CorpusInv, UNCHANGED corpusVars
  PROVE  CorpusInv'
<1>1. Quiet /\ UNCHANGED <<fetch, muddled>> /\ probe' = probe
  BY DEF corpusVars, historyOfCorpus, Quiet
<1>2. probe' \in Probe
  BY <1>1 DEF CorpusInv, Types
<1>3. LocksApart'
  BY <1>1 DEF CorpusInv, LocksApart, LockedBy, Quiet, IsListed
<1> QED BY <1>1, <1>2, <1>3, CheckDisturbsNone, QuietKeepsCheck DEF CorpusInv

-----------------------------------------------------------------------------
(* Theorems *)

LEMMA CorpusInvInit ==
  ASSUME CorpusAssumption, CorpusInit
  PROVE  CorpusInv
<1>1. NoListing \in ListingRow /\ NoListing.status = "absent" /\ NoListing.job = NoPosting
  BY DEF NoListing, ListingRow, MissThreshold
<1>2. listing \in [Posting -> ListingRow]
      /\ \A p \in Posting : listing[p].status = "absent" /\ ~IsListed(p)
  BY <1>1 DEF CorpusInit, IsListed
<1>3. fetch \in [Executor -> Fetch] /\ \A e \in Executor : fetch[e].step = "idle"
  BY NoFetchTyped DEF CorpusInit, NoFetch
<1>4. probe = NoProbe /\ NoProbe \in Probe
  BY DEF CorpusInit, NoProbe, Probe
<1>5. job \in [Posting -> ListingStatus] /\ \A p \in Posting : job[p] = "absent"
  BY DEF CorpusInit, ListingStatus
<1>6. absent \in [Posting -> 0..MissThreshold - 1] /\ muddled = {} /\ overlap = {}
      /\ crossed = FALSE
  BY DEF CorpusInit, MissThreshold
<1>7. Types
  BY <1>2, <1>3, <1>4, <1>5, <1>6
     DEF Types, CorpusTypeOK, ListingStatus, Fetch, FetchStep, Probe
<1>8. TablesAgree /\ AvailableIffListed /\ JobsAreDistinct
  BY <1>2, <1>5 DEF TablesAgree, AvailableIffListed, JobsAreDistinct
<1>9. AssignmentsHold /\ RowsAreListings /\ CountsStand
  BY <1>3 DEF AssignmentsHold, RowsAreListings, CountsStand, Reads
<1>10. LocksApart /\ CheckStands
  BY <1>3, <1>4 DEF LocksApart, CheckStands, LockedBy
<1>11. MissesCounted
  BY <1>2, <1>3 DEF MissesCounted, IsActiveListing
<1> QED BY <1>7, <1>8, <1>9, <1>10, <1>11 DEF CorpusInv

LEMMA CorpusInvStep ==
  ASSUME CorpusAssumption, CorpusInv, [CorpusNext]_corpusVars
  PROVE  CorpusInv'
<1>0. Types /\ RowsAreListings
  BY DEF CorpusInv
<1>1. ASSUME NEW e \in Executor, NEW s \in Source, FetchSource(e, s) PROVE CorpusInv'
  BY <1>0, <1>1, FetchSourceShape, AskKeeps
<1>2. ASSUME NEW e \in Executor, SaveJobs(e) PROVE CorpusInv'
  BY <1>2, SaveJobsKeeps
<1>3. ASSUME NEW e \in Executor, FailSource(e) PROVE CorpusInv'
  BY <1>0, <1>3, FailSourceShape, RestKeeps
<1>4. ASSUME NEW e \in Executor, ReadListings(e) PROVE CorpusInv'
  BY <1>0, <1>4, ReadListingsShape, ReadKeeps
<1>5. ASSUME NEW e \in Executor, CountListings(e) PROVE CorpusInv'
  BY <1>0, <1>5, CountListingsShape, CountKeeps
<1>6. ASSUME NEW e \in Executor, Reconcile(e) PROVE CorpusInv'
  BY <1>6, ReconcileKeeps
<1>7. ASSUME NEW p \in Posting, CountOthers(p) PROVE CorpusInv'
  BY <1>7, CountOthersKeeps
<1>8. ASSUME NEW p \in Posting, MarkActive(p) PROVE CorpusInv'
  BY <1>8, MarkActiveKeeps
<1>9. CASE MarkInactive
  BY <1>9, MarkInactiveKeeps
<1>10. CASE AbandonCheck
  BY <1>10, AbandonCheckKeeps
<1>11. CASE UNCHANGED corpusVars
  BY <1>11, StutterKeeps
<1> QED BY <1>1, <1>2, <1>3, <1>4, <1>5, <1>6, <1>7, <1>8, <1>9, <1>10, <1>11 DEF CorpusNext

\* CorpusInv is an invariant of the corpus, whatever its postings and executors.
THEOREM CorpusInvariant == CorpusSpec => []CorpusInv
<1>1. CorpusInit => CorpusInv
  BY CorpusAssumption, CorpusInvInit
<1>2. CorpusInv /\ [CorpusNext]_corpusVars => CorpusInv'
  BY CorpusAssumption, CorpusInvStep
<1> QED BY <1>1, <1>2, PTL DEF CorpusSpec

\* Every row of job_listings and of jobs, and what each process knows of them, is
\* of its kind: of the tables of database.py:692 and what its functions hold.
THEOREM CorpusTypesAreKept == CorpusSpec => []CorpusTypeOK
<1>1. CorpusInv => CorpusTypeOK
  BY DEF CorpusInv, Types
<1> QED BY <1>1, CorpusInvariant, PTL

\* A job is offered exactly if one of its listings is active, whatever upserts,
\* reconciliations and availability checks have interleaved (database.py:2264,
\* 2372, 2661, 2698), unless a commit fell between the count and the commit of
\* another transaction about the job.
THEOREM OfferedIffListed == CorpusSpec => []AvailableIffListed
<1>1. CorpusInv => AvailableIffListed
  BY DEF CorpusInv
<1> QED BY <1>1, CorpusInvariant, PTL

\* No two jobs are about the same role, unless two executors have created them at
\* the same time (database.py:2125).
THEOREM RolesAreDistinct == CorpusSpec => []JobsAreDistinct
<1>1. CorpusInv => JobsAreDistinct
  BY DEF CorpusInv
<1> QED BY <1>1, CorpusInvariant, PTL

\* Reconciliation closes a listing at the second answer in a row without it, not
\* before and not later (database.py:2294), unless others have written the
\* listing since it was read.
THEOREM ClosedByConsecutiveMisses == CorpusSpec => MissesAreConsecutive
<1>1. ASSUME CorpusInv, NEW e \in Executor, Reconcile(e),
             NEW p \in DOMAIN fetch[e].rows \ muddled
      PROVE  IsActiveListing(p)' <=> p \in fetch[e].ids \/ absent[p] + 1 < MissThreshold
  <2>1. fetch[e].step = "counted" /\ Reads(e)
    BY <1>1 DEF Reconcile, Reads
  <2>2. p \in Posting
    BY <1>1, <2>1, RowsTyped DEF CorpusInv
  <2>3. listing'[p] = fetch[e].rows[p]
    BY <1>1, <2>2 DEF Reconcile
  <2> QED BY <1>1, <2>1, <2>3 DEF CorpusInv, MissesCounted, IsActiveListing
<1>2. CorpusInv /\ [CorpusNext]_corpusVars =>
        [\A e \in Executor : Reconcile(e) =>
           \A p \in DOMAIN fetch[e].rows \ muddled :
             IsActiveListing(p)' <=> p \in fetch[e].ids \/ absent[p] + 1 < MissThreshold]_corpusVars
  BY <1>1
<1> QED BY <1>2, CorpusInvariant, PTL DEF CorpusSpec, MissesAreConsecutive

-----------------------------------------------------------------------------
(* What is retired was gone, of sources that answer with their whole board. *)

Complete(e) == fetch[e].source \notin Windowed \cup Swallowing

AnswersComplete ==
  \A e \in Executor : fetch[e].step # "idle" /\ Complete(e) => fetch[e].ids = fetch[e].board

\* What an executor has fetched stays as it is until it is done.
SameAnswer(e) ==
  /\ fetch'[e].source = fetch[e].source
  /\ fetch'[e].ids = fetch[e].ids /\ fetch'[e].board = fetch[e].board

LEMMA AnswersStay ==
  ASSUME fetch \in [Executor -> Fetch], NEW e \in Executor,
         SaveJobs(e) \/ FailSource(e) \/ ReadListings(e) \/ CountListings(e) \/ Reconcile(e)
  PROVE  /\ fetch[e].step # "idle"
         /\ \A f \in Executor \ {e} : fetch'[f] = fetch[f]
         /\ fetch'[e].step = "idle" \/ SameAnswer(e)
<1>1. CASE SaveJobs(e)
  BY <1>1 DEF SaveJobs, SameAnswer, Fetch
<1>2. CASE FailSource(e)
  BY <1>2 DEF FailSource, NoFetch
<1>3. CASE ReadListings(e)
  BY <1>3 DEF ReadListings, SameAnswer, Fetch
<1>4. CASE CountListings(e)
  BY <1>4 DEF CountListings, SameAnswer, Fetch
<1>5. CASE Reconcile(e)
  BY <1>5 DEF Reconcile, NoFetch
<1> QED BY <1>1, <1>2, <1>3, <1>4, <1>5

LEMMA AnswersCompleteStep ==
  ASSUME fetch \in [Executor -> Fetch], AnswersComplete, [CorpusNext]_corpusVars
  PROVE  AnswersComplete'
<1>1. ASSUME NEW e \in Executor, NEW s \in Source, FetchSource(e, s) PROVE AnswersComplete'
  <2>1. PICK board \in Boards(s) : \E ids \in Answers(s, board) :
          \E of \in [{p \in ids : listing[p].job = NoPosting} -> Posting] :
            fetch' = [fetch EXCEPT ![e] = [NoFetch EXCEPT !.step = "saving", !.source = s,
                                            !.ids = ids, !.board = board, !.job = of]]
    BY <1>1 DEF FetchSource
  <2>2. PICK ids \in Answers(s, board) :
          \E of \in [{p \in ids : listing[p].job = NoPosting} -> Posting] :
            fetch' = [fetch EXCEPT ![e] = [NoFetch EXCEPT !.step = "saving", !.source = s,
                                            !.ids = ids, !.board = board, !.job = of]]
    BY <2>1
  <2>3. /\ \A f \in Executor \ {e} : fetch'[f] = fetch[f]
        /\ fetch'[e].source = s /\ fetch'[e].ids = ids /\ fetch'[e].board = board
    BY <2>2 DEF NoFetch
  <2>4. s \notin Windowed \cup Swallowing => ids = board
    BY DEF Answers
  <2> QED BY <2>3, <2>4 DEF AnswersComplete, Complete
<1>2. ASSUME NEW e \in Executor,
             SaveJobs(e) \/ FailSource(e) \/ ReadListings(e) \/ CountListings(e) \/ Reconcile(e)
      PROVE  AnswersComplete'
  BY <1>2, AnswersStay DEF AnswersComplete, Complete, SameAnswer
<1>3. CASE fetch' = fetch
  BY <1>3 DEF AnswersComplete, Complete
<1>4. CASE UNCHANGED corpusVars
  BY <1>3, <1>4 DEF corpusVars
<1>5. ASSUME NEW p \in Posting, CountOthers(p) \/ MarkActive(p) PROVE AnswersComplete'
  BY <1>3, <1>5 DEF CountOthers, MarkActive
<1>6. CASE MarkInactive \/ AbandonCheck
  BY <1>3, <1>6 DEF MarkInactive, AbandonCheck
<1> QED BY <1>1, <1>2, <1>4, <1>5, <1>6 DEF CorpusNext

\* database.py:2301 holds of the sources whose adapter asks for all postings and
\* raises its errors: reconciliation closes no listing that was on the board when
\* the answer was fetched.  (RetiredWereGone says so of every source.)
THEOREM CompleteAnswersRetireTheGone ==
  CorpusSpec =>
    [][\A e \in Executor : Reconcile(e) /\ Complete(e) =>
         \A p \in fetch[e].board : IsActiveListing(p) => IsActiveListing(p)']_corpusVars
<1> DEFINE Retires == \A e \in Executor : Reconcile(e) /\ Complete(e) =>
                        \A p \in fetch[e].board : IsActiveListing(p) => IsActiveListing(p)'
<1>1. CorpusInit => AnswersComplete
  BY DEF CorpusInit, AnswersComplete, NoFetch
<1>2. CorpusInv /\ AnswersComplete /\ [CorpusNext]_corpusVars => AnswersComplete'
  BY AnswersCompleteStep DEF CorpusInv, Types
<1>3. CorpusInv /\ AnswersComplete => Retires
  <2> SUFFICES ASSUME CorpusInv, AnswersComplete, NEW e \in Executor, Reconcile(e), Complete(e),
                      NEW p \in fetch[e].board, IsActiveListing(p)
               PROVE  IsActiveListing(p)'
    OBVIOUS
  <2>1. fetch[e].step = "counted" /\ p \in fetch[e].ids
    BY DEF Reconcile, AnswersComplete
  <2>2. p \in Posting
    BY DEF CorpusInv, Types, Fetch
  <2>3. CASE p \in DOMAIN fetch[e].rows
    <3>1. listing'[p] = fetch[e].rows[p]
      BY <2>2, <2>3 DEF Reconcile
    <3> QED BY <2>1, <2>3, <3>1 DEF CorpusInv, MissesCounted, IsActiveListing
  <2>4. CASE p \notin DOMAIN fetch[e].rows
    <3>1. listing'[p] = listing[p]
      BY <2>2, <2>4 DEF Reconcile
    <3> QED BY <3>1 DEF IsActiveListing
  <2> QED BY <2>3, <2>4
<1>4. CorpusInv /\ AnswersComplete /\ [CorpusNext]_corpusVars => [Retires]_corpusVars
  BY <1>3
<1> QED BY <1>1, <1>2, <1>4, CorpusInvariant, PTL DEF CorpusSpec

=============================================================================
