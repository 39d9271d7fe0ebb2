-------------------------------- MODULE Pages ---------------------------------
(***************************************************************************)
(* Listing jobs, matches and applications page by page while ingestion,    *)
(* jobs and requests change the rows.  A page is one transaction; the next *)
(* one goes on where the cursor of the last one says.                      *)
(*                                                                         *)
(* Job ids, titles, companies, scores and statuses are numbers: all that   *)
(* matters of them is their order.  What a row is sorted by, other than    *)
(* updated_at, does not change during a walk.                              *)
(***************************************************************************)
EXTENDS Integers, FiniteSets

CONSTANTS
  Row,        \* job ids
  Key,        \* titles, companies, scores or statuses, none next to another
  Piped,      \* those with the character that separates the fields of a cursor
  Limits,     \* page sizes
  FirstStamp, \* bound: values of updated_at in the beginning
  LastStamp   \* bound: values of updated_at

ASSUME PagesAssumption ==
  /\ Row \subseteq Nat /\ IsFiniteSet(Row)
  /\ Key \subseteq Nat /\ Key # {} /\ \A k \in Key : k + 1 \notin Key
  /\ Piped \subseteq Key
  /\ Limits \subseteq Nat \ {0}
  /\ FirstStamp \in Nat /\ LastStamp \in Nat /\ FirstStamp <= LastStamp

VARIABLES
  list,     \* which list and order is walked through
  limit,    \* the page size
  key,      \* what each row is sorted by, other than updated_at
  stamp,    \* updated_at of each row, 0 if it is not in the list
  clock,    \* the latest updated_at
  cursor,   \* where the next page starts
  pages,    \* pages read
  finished, \* the last page had no next_cursor
  got,      \* history: how often each row was returned
  exempt    \* history: rows of which the walk promises nothing

pagesVars == <<list, limit, key, stamp, clock, cursor, pages, finished, got, exempt>>

\* list_jobs by updated_at, and by title or company; list_applications by
\* updated_at, and by status; list_matches by score.
List == {"latest", "named", "applications", "statuses", "matches"}

NoCursor == [key |-> -1, row |-> -1]
MaxPages == Cardinality(Row) + 2

PagesTypeOK ==
  /\ list \in List /\ limit \in Limits
  /\ key \in [Row -> Key] /\ stamp \in [Row -> 0..clock]
  /\ clock \in FirstStamp..LastStamp
  /\ cursor \in [key : Int, row : Row \cup {-1}]
  /\ pages \in 0..MaxPages /\ finished \in BOOLEAN
  /\ got \in [Row -> 0..2] /\ exempt \subseteq Row

\* Jobs that one bulk_upsert_jobs saves have one updated_at.
PagesInit ==
  /\ list \in List /\ limit \in Limits
  /\ stamp \in [Row -> 0..FirstStamp]
  /\ key \in IF list \in {"latest", "applications"}
             THEN {[r \in Row |-> CHOOSE k \in Key : TRUE]} ELSE [Row -> Key]
  /\ clock = FirstStamp
  /\ cursor = NoCursor /\ pages = 0 /\ finished = FALSE
  /\ got = [r \in Row |-> 0] /\ exempt = {}

Listed == {r \in Row : stamp[r] # 0}

-----------------------------------------------------------------------------
(* One page *)

Newer(a, b) == stamp[a] > stamp[b]

\* ORDER BY; list_matches sorts what SQL returns by updated_at once more.  Only
\* the order of jobs is total.
Before(a, b) ==
  CASE list = "latest"       -> Newer(a, b) \/ (stamp[a] = stamp[b] /\ a < b)
    [] list = "named"        -> key[a] < key[b] \/ (key[a] = key[b] /\ a < b)
    [] list = "applications" -> Newer(a, b)
    [] list = "statuses"     -> key[a] < key[b] \/ (key[a] = key[b] /\ Newer(a, b))
    [] list = "matches"      -> key[a] > key[b] \/ (key[a] = key[b] /\ Newer(a, b))

\* The ways in which the first n of these rows may be returned.
FirstRows(n, rows) ==
  {p \in SUBSET rows :
     /\ Cardinality(p) = IF n < Cardinality(rows) THEN n ELSE Cardinality(rows)
     /\ \A a \in p, b \in rows \ p : ~Before(b, a)}

\* Fault: a page starts with the row the cursor names.
AfterOrAt(c) ==
  IF c = NoCursor THEN Listed
  ELSE IF list \in {"latest", "applications"}
  THEN {r \in Listed : stamp[r] < c.key \/ (stamp[r] = c.key /\ r <= c.row)}
  ELSE Listed

\* Fault: only the lists by updated_at look at the cursor.
AfterStamps(c) ==
  IF c # NoCursor /\ list \in {"latest", "applications"}
  THEN {r \in Listed : stamp[r] < c.key \/ (stamp[r] = c.key /\ r < c.row)}
  ELSE Listed

\* Rows that the cursor leaves: the comparison of pairs does not know that the
\* ids ascend while updated_at descends, and by status it is not made at all.
After(c) ==
  IF c = NoCursor \/ list = "statuses" THEN Listed
  ELSE IF list = "named"
  THEN {r \in Listed : key[r] > c.key \/ (key[r] = c.key /\ r > c.row)}
  ELSE {r \in Listed : stamp[r] < c.key \/ (stamp[r] = c.key /\ r < c.row)}

\* A match cursor is the number of rows that were returned before.
PageOf(c, page) ==
  IF list = "matches"
  THEN \E skipped \in FirstRows(IF c = NoCursor THEN 0 ELSE c.key, Listed) :
         page \in FirstRows(limit, Listed \ skipped)
  ELSE page \in FirstRows(limit, After(c))

\* encode_cursor and decode_cursor of the last row.  A name is cut where its
\* own separator is, so that it sorts before itself.
CursorAt(r) ==
  IF list # "named" THEN [key |-> stamp[r], row |-> r]
  ELSE [key |-> IF key[r] \in Piped THEN key[r] - 1 ELSE key[r], row |-> r]

LastRows(page) == {r \in page : \A q \in page : ~Before(r, q)}

Offset == (IF cursor = NoCursor THEN 0 ELSE cursor.key) + limit

NextCursors(page) ==
  IF list = "matches"
  THEN {IF Offset < Cardinality(Listed) THEN [key |-> Offset, row |-> -1] ELSE NoCursor}
  ELSE IF Cardinality(page) = limit THEN {CursorAt(r) : r \in LastRows(page)}
  ELSE {NoCursor}

\* History: rows that sort together.
Tied(r) ==
  \E q \in Listed \ {r} :
    /\ list # "named" /\ stamp[q] = stamp[r]
    /\ list \in {"latest", "applications"} \/ key[q] = key[r]

ReadPage ==
  \E page \in SUBSET Row :
    /\ ~finished /\ pages < MaxPages
    /\ PageOf(cursor, page)
    /\ cursor' \in NextCursors(page)
    /\ finished' = (cursor' = NoCursor)
    /\ pages' = pages + 1
    /\ got' = [r \in Row |-> IF r \in page /\ got[r] < 2 THEN got[r] + 1 ELSE got[r]]
    /\ exempt' = IF pages = 0 THEN {r \in Row : r \notin Listed \/ Tied(r)} ELSE exempt
    /\ UNCHANGED <<list, limit, key, stamp, clock>>

\* History: a row that is touched during the walk moves in it, and with it the
\* positions of all others.
Disturb(rows) ==
  exempt' = IF pages = 0 THEN {} ELSE IF list = "matches" THEN Row ELSE exempt \cup rows

\* Rows are saved, together: jobs by ingestion or a check of their listings,
\* a match or an application alone.
Save(rows) ==
  /\ ~finished /\ clock < LastStamp
  /\ clock' = clock + 1
  /\ list \notin {"latest", "named"} => Cardinality(rows) = 1
  /\ stamp' = [r \in Row |-> IF r \in rows THEN clock' ELSE stamp[r]]
  /\ Disturb(rows)
  /\ UNCHANGED <<list, limit, key, cursor, pages, finished, got>>

\* Rows leave the list: jobs that are closed, or rows that are deleted.
Withdraw(rows) ==
  /\ ~finished /\ rows \subseteq Listed
  /\ stamp' = [r \in Row |-> IF r \in rows THEN 0 ELSE stamp[r]]
  /\ Disturb(rows)
  /\ UNCHANGED <<list, limit, key, clock, cursor, pages, finished, got>>

PagesNext ==
  \/ ReadPage
  \/ \E rows \in SUBSET Row \ {{}} : Save(rows) \/ Withdraw(rows)

PagesSpec == PagesInit /\ [][PagesNext]_pagesVars

-----------------------------------------------------------------------------
(* Properties *)

\* Cursors that name no place in the list: titles that contain the separator,
\* and every cursor of list_applications by status.
Derails ==
  list = "statuses" \/ (list = "named" /\ \E r \in Row : got[r] > 0 /\ key[r] \in Piped)

\* A walk returns every row that stayed as it was, once, whatever was saved
\* and withdrawn around it.  Excused are rows that had the updated_at of
\* another one (PagesDoNotOverlap), and, for matches, walks during which
\* anything has changed (database.py:2573, 2886, 3011).
WalksAreExact ==
  \A r \in Row \ exempt : pages > 0 =>
    /\ finished => got[r] >= 1
    /\ got[r] > 1 => Derails

\* A walk comes to its end, whatever is saved meanwhile: no row brings it back
\* to where it was (database.py:2609).
WalksEnd == ~Derails => pages <= Cardinality(Row) + 1

\* tests/test_pagination.py:63: "No overlap" of the pages of list_jobs.
PagesDoNotOverlap ==
  list = "latest" => \A r \in Row : got[r] > 1 => stamp[r] > FirstStamp
=============================================================================
