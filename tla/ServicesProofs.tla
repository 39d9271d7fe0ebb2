---------------------------- MODULE ServicesProofs ----------------------------
(***************************************************************************)
(* What holds of the lists that users page through, of the preferences     *)
(* that select from the corpus, and of the services together, for any      *)
(* number of rows, postings and places.                                    *)
(*                                                                         *)
(* The argument about pages: of the rows that a walk promises, those that  *)
(* it has returned are those the cursor has passed (WalkIsOrdered), or,    *)
(* for matches, those of a lower rank than its offset (OffsetIsRank); and  *)
(* with every page there are fewer rows ahead of it (WalkShrinks).         *)
(***************************************************************************)
EXTENDS Services, CorpusProofs, WorkspacesProofs

-----------------------------------------------------------------------------
(* The inductive invariant of a walk *)

Begun == pages > 0

\* Before the first page nothing is returned or excused; a walk that goes on
\* has a cursor.
WalkBegins ==
  /\ ~Begun => cursor = NoCursor /\ ~finished /\ exempt = {} /\ \A r \in Row : got[r] = 0
  /\ Begun => (finished <=> cursor = NoCursor)
  /\ Begun /\ list \in {"latest", "applications"} => cursor.key <= clock

\* The rows the walk promises are in the list, and sort with no other.
PromisedAreApart ==
  Begun => \A r \in Row \ exempt : r \in Listed /\ ~Tied(r)

\* A promised row that the cursor has passed was returned, and one that is
\* still ahead of it was not.
WalkIsOrdered ==
  Begun /\ list # "matches" => \A r \in Row \ exempt :
    /\ finished \/ r \notin After(cursor) => got[r] >= 1
    /\ ~Derails => got[r] <= 1 /\ (~finished /\ r \in After(cursor) => got[r] = 0)

Preceding(r) == {q \in Listed : Before(q, r)}

\* The offset of a match cursor separates the promised rows by their rank.
OffsetIsRank ==
  Begun /\ list = "matches" => \A r \in Row \ exempt :
    /\ got[r] <= 1
    /\ finished => got[r] = 1
    /\ ~finished => (got[r] = 1 <=> Cardinality(Preceding(r)) < cursor.key)

\* Rows that may still be returned.
Ahead ==
  IF list = "named" THEN {r \in Row : key[r] > cursor.key \/ (key[r] = cursor.key /\ r > cursor.row)}
  ELSE After(cursor)

WalkShrinks ==
  Begun /\ ~finished /\ ~Derails =>
    IF list = "matches" THEN pages <= cursor.key /\ cursor.key < Cardinality(Row)
    ELSE pages + Cardinality(Ahead) <= Cardinality(Row)

PagesInv ==
  /\ PagesTypeOK /\ WalkBegins /\ PromisedAreApart /\ WalkIsOrdered /\ OffsetIsRank
  /\ WalkShrinks /\ WalksEnd
-----------------------------------------------------------------------------
(* One page *)

LEMMA PageTypes ==
  ASSUME PagesAssumption, PagesTypeOK
  PROVE  /\ IsFiniteSet(Row) /\ Cardinality(Row) \in Nat
         /\ limit \in Nat /\ limit > 0 /\ clock \in Nat /\ pages \in Nat
         /\ \A r \in Row : /\ r \in Nat /\ stamp[r] \in Nat /\ stamp[r] <= clock
                          /\ key[r] \in Nat /\ key[r] \in Key
         /\ cursor.key \in Int /\ cursor.row \in Int
         /\ Listed \subseteq Row /\ \A c : After(c) \subseteq Listed
<1>1. IsFiniteSet(Row) /\ Cardinality(Row) \in Nat
  BY FS_CardinalityType DEF PagesAssumption
<1>2. limit \in Nat /\ limit > 0 /\ clock \in Nat /\ pages \in Nat
  BY <1>1 DEF PagesAssumption, PagesTypeOK, MaxPages
<1>3. \A r \in Row : /\ r \in Nat /\ stamp[r] \in Nat /\ stamp[r] <= clock
                    /\ key[r] \in Nat /\ key[r] \in Key
  <2>1. Row \subseteq Nat /\ Key \subseteq Nat
    BY DEF PagesAssumption
  <2>2. stamp \in [Row -> 0..clock] /\ key \in [Row -> Key]
    BY DEF PagesTypeOK
  <2>3. \A r \in Row : r \in Nat /\ stamp[r] \in 0..clock /\ key[r] \in Key
    BY <2>1, <2>2
  <2>4. \A n \in 0..clock : n \in Nat /\ n <= clock
    BY <1>2
  <2> QED BY <2>1, <2>3, <2>4
<1>4. cursor.key \in Int /\ cursor.row \in Int
  <2>1. cursor \in [key : Int, row : Row \cup {-1}]
    BY DEF PagesTypeOK
  <2>2. Row \cup {-1} \subseteq Int
    BY DEF PagesAssumption
  <2> QED BY <2>1, <2>2
<1>5. Listed \subseteq Row /\ \A c : After(c) \subseteq Listed
  BY DEF Listed, After
<1> QED BY <1>1, <1>2, <1>3, <1>4, <1>5

\* The first rows are at most n, and all if they are fewer.
LEMMA FirstRowsSize ==
  ASSUME PagesAssumption, NEW n \in Nat, NEW rows \in SUBSET Row, NEW p \in FirstRows(n, rows)
  PROVE  /\ p \subseteq rows /\ IsFiniteSet(p) /\ Cardinality(p) \in Nat /\ Cardinality(p) <= n
         /\ Cardinality(p) # n => p = rows
         /\ \A a \in p, b \in rows \ p : ~Before(b, a)
<1>1. /\ p \subseteq rows /\ \A a \in p, b \in rows \ p : ~Before(b, a)
      /\ Cardinality(p) = IF n < Cardinality(rows) THEN n ELSE Cardinality(rows)
  BY DEF FirstRows
<1>2. IsFiniteSet(rows) /\ IsFiniteSet(p)
  BY <1>1, FS_Subset DEF PagesAssumption
<1>3. Cardinality(rows) \in Nat /\ Cardinality(p) \in Nat
  BY <1>2, FS_CardinalityType
<1>4. Cardinality(p) <= n /\ (Cardinality(p) # n => Cardinality(p) = Cardinality(rows))
  BY <1>1, <1>3
<1>5. Cardinality(p) = Cardinality(rows) => p = rows
  BY <1>1, <1>2, FS_Subset
<1> QED BY <1>1, <1>2, <1>3, <1>4, <1>5

\* Names that hold no separator.
Clean(r) == list # "statuses" /\ (list = "named" => key[r] \notin Piped)

\* Rows that the cursor leaves after one with this last row.
LEMMA AfterRow ==
  ASSUME PagesAssumption, PagesTypeOK, list # "matches", NEW x \in Row, NEW r \in Row
  PROVE  /\ CursorAt(x) # NoCursor
         /\ list \in {"latest", "applications"} =>
              (r \in After(CursorAt(x)) <=>
                 r \in Listed /\ (stamp[r] < stamp[x] \/ (stamp[r] = stamp[x] /\ r < x)))
         /\ list = "named" =>
              /\ key[r] > key[x] \/ (key[r] = key[x] /\ r > x) =>
                   (r \in Listed => r \in After(CursorAt(x)))
              /\ key[x] \notin Piped =>
                   (r \in After(CursorAt(x)) <=>
                      r \in Listed /\ (key[r] > key[x] \/ (key[r] = key[x] /\ r > x)))
         /\ list = "statuses" => After(CursorAt(x)) = Listed
<1> DEFINE c == CursorAt(x)
<1>1. r \in Nat /\ x \in Nat /\ stamp[r] \in Nat /\ stamp[x] \in Nat /\ key[r] \in Nat /\ key[x] \in Nat
  BY PageTypes
<1>2. /\ c.row = x
      /\ list # "named" => c.key = stamp[x]
      /\ list = "named" => c.key = IF key[x] \in Piped THEN key[x] - 1 ELSE key[x]
  BY DEF CursorAt
<1> HIDE DEF c
<1>3. c # NoCursor
  BY <1>1, <1>2 DEF NoCursor
<1>4. CASE list \in {"latest", "applications"}
  <2>1. After(c) = {q \in Listed : stamp[q] < c.key \/ (stamp[q] = c.key /\ q < c.row)}
    BY <1>3, <1>4 DEF After
  <2> QED BY <2>1, <1>2, <1>3, <1>4 DEF c
<1>5. CASE list = "named"
  <2>1. After(c) = {q \in Listed : key[q] > c.key \/ (key[q] = c.key /\ q > c.row)}
    BY <1>3, <1>5 DEF After
  <2>2. CASE key[x] \notin Piped
    BY <2>1, <2>2, <1>2, <1>3, <1>5 DEF c
  <2>3. CASE key[x] \in Piped
    <3>1. c.key = key[x] - 1
      BY <2>3, <1>2, <1>5
    <3>2. key[r] > key[x] \/ (key[r] = key[x] /\ r > x) => key[r] > c.key
      BY <3>1, <1>1
    <3> QED BY <3>2, <2>1, <2>3, <1>3, <1>5 DEF c
  <2> QED BY <2>2, <2>3
<1>6. CASE list = "statuses"
  BY <1>3, <1>6 DEF After, c
<1>7. list \in {"latest", "applications", "named", "statuses"}
  BY DEF PagesTypeOK, List
<1> QED BY <1>3, <1>4, <1>5, <1>6, <1>7 DEF c

\* How a page that is full moves the cursor: what it left out is ahead, and
\* neither what it returned nor what was behind is.
LEMMA FullPage ==
  ASSUME PagesAssumption, PagesTypeOK, list # "matches",
         NEW p \in FirstRows(limit, After(cursor)), NEW x \in LastRows(p),
         NEW r \in Listed, ~Tied(r)
  PROVE  LET next == After(CursorAt(x)) IN
         /\ r \in After(cursor) \ p => r \in next
         /\ Clean(x) => (r \in p \/ r \notin After(cursor) => r \notin next)
<1>1. /\ limit \in Nat /\ After(cursor) \in SUBSET Row /\ Listed \subseteq Row
      /\ After(cursor) \subseteq Listed
  BY PageTypes
<1>2. p \subseteq After(cursor) /\ \A a \in p, b \in After(cursor) \ p : ~Before(b, a)
  <2> DEFINE rows == After(cursor)
  <2>1. limit \in Nat /\ rows \in SUBSET Row /\ p \in FirstRows(limit, rows)
    BY <1>1
  <2> HIDE DEF rows
  <2>2. p \subseteq rows /\ \A a \in p, b \in rows \ p : ~Before(b, a)
    BY <2>1, FirstRowsSize
  <2> QED BY <2>2 DEF rows
<1>3. x \in p /\ \A q \in p : ~Before(x, q)
  BY DEF LastRows
<1>4. x \in Row /\ x \in Listed /\ x \in After(cursor) /\ r \in Row
  BY <1>1, <1>2, <1>3
<1>5. /\ r \in Nat /\ x \in Nat /\ stamp[r] \in Nat /\ stamp[x] \in Nat
      /\ key[r] \in Nat /\ key[x] \in Nat /\ cursor.key \in Int /\ cursor.row \in Int
  BY <1>4, PageTypes
<1>6. CASE list \in {"latest", "applications"}
  <2>1. r # x => stamp[r] # stamp[x]
    BY <1>4, <1>6 DEF Tied
  <2>2. r \in After(CursorAt(x)) <=> (stamp[r] < stamp[x] \/ (stamp[r] = stamp[x] /\ r < x))
    BY <1>4, <1>6, AfterRow
  <2>3. ASSUME r \in After(cursor) \ p  PROVE stamp[r] < stamp[x]
    <3>1. ~Before(r, x) /\ r # x
      BY <2>3, <1>2, <1>3
    <3>2. ~(stamp[r] > stamp[x])
      BY <3>1, <1>6 DEF Before, Newer
    <3> QED BY <3>1, <3>2, <2>1, <1>5
  <2>4. ASSUME r \in p  PROVE ~(stamp[r] < stamp[x] \/ (stamp[r] = stamp[x] /\ r < x))
    <3>1. ~Before(x, r)
      BY <2>4, <1>3
    <3>2. ~(stamp[x] > stamp[r])
      BY <3>1, <1>6 DEF Before, Newer
    <3> QED BY <3>2, <2>1, <1>5
  <2>5. ASSUME r \notin After(cursor)  PROVE ~(stamp[r] < stamp[x] \/ (stamp[r] = stamp[x] /\ r < x))
    <3>1. cursor # NoCursor
      BY <2>5 DEF After
    <3>2. After(cursor) = {q \in Listed : stamp[q] < cursor.key \/ (stamp[q] = cursor.key /\ q < cursor.row)}
      BY <3>1, <1>6 DEF After
    <3>3. ~(stamp[r] < cursor.key \/ (stamp[r] = cursor.key /\ r < cursor.row))
      BY <3>2, <2>5
    <3>4. stamp[x] < cursor.key \/ (stamp[x] = cursor.key /\ x < cursor.row)
      BY <3>2, <1>4
    <3> QED BY <3>3, <3>4, <2>1, <1>5
  <2> QED BY <2>2, <2>3, <2>4, <2>5
<1>7. CASE list = "named"
  <2> DEFINE beyond == key[r] > key[x] \/ (key[r] = key[x] /\ r > x)
  <2>1. ASSUME r \in After(cursor) \ p  PROVE beyond
    <3>1. ~Before(r, x) /\ r # x
      BY <2>1, <1>2, <1>3
    <3>2. ~(key[r] < key[x] \/ (key[r] = key[x] /\ r < x))
      BY <3>1, <1>7 DEF Before
    <3> QED BY <3>1, <3>2, <1>5
  <2>2. ASSUME r \in p  PROVE ~beyond
    <3>1. ~Before(x, r)
      BY <2>2, <1>3
    <3>2. ~(key[x] < key[r] \/ (key[x] = key[r] /\ x < r))
      BY <3>1, <1>7 DEF Before
    <3> QED BY <3>2, <1>5
  <2>3. ASSUME r \notin After(cursor)  PROVE ~beyond
    <3>1. cursor # NoCursor
      BY <2>3 DEF After
    <3>2. After(cursor) = {q \in Listed : key[q] > cursor.key \/ (key[q] = cursor.key /\ q > cursor.row)}
      BY <3>1, <1>7 DEF After
    <3>3. ~(key[r] > cursor.key \/ (key[r] = cursor.key /\ r > cursor.row))
      BY <3>2, <2>3
    <3>4. key[x] > cursor.key \/ (key[x] = cursor.key /\ x > cursor.row)
      BY <3>2, <1>4
    <3> QED BY <3>3, <3>4, <1>5
  <2>4. (beyond => r \in After(CursorAt(x)))
        /\ (Clean(x) => (r \in After(CursorAt(x)) <=> beyond))
    BY <1>4, <1>7, AfterRow DEF Clean
  <2> HIDE DEF beyond
  <2> QED BY <2>1, <2>2, <2>3, <2>4
<1>8. CASE list = "statuses"
  BY <1>4, <1>8, AfterRow DEF Clean
<1>9. list \in {"latest", "applications", "named", "statuses"}
  BY DEF PagesTypeOK, List
<1> QED BY <1>6, <1>7, <1>8, <1>9
\* How a page shortens what is ahead: of the rows that are still ahead the last
\* one was, and is not any more.
LEMMA FullPageShrinks ==
  ASSUME PagesAssumption, PagesTypeOK, list # "matches",
         NEW p \in FirstRows(limit, After(cursor)), NEW x \in LastRows(p), Clean(x),
         NEW ahead, ahead = IF cursor = NoCursor THEN Row ELSE Ahead,
         NEW next, next = IF list = "named"
                          THEN {q \in Row : key[q] > key[x] \/ (key[q] = key[x] /\ q > x)}
                          ELSE After(CursorAt(x))
  PROVE  next \subseteq ahead \ {x} /\ x \in ahead /\ ahead \subseteq Row
<1>1. limit \in Nat /\ After(cursor) \in SUBSET Row /\ After(cursor) \subseteq Listed
      /\ cursor.key \in Int /\ cursor.row \in Int /\ Listed \subseteq Row
      /\ \A c : After(c) \subseteq Row
  BY PageTypes
<1>2. x \in After(cursor)
  BY DEF LastRows, FirstRows
<1>3. x \in Row
  BY <1>1, <1>2
<1>4. ahead \subseteq Row
  BY <1>1 DEF Ahead
<1>5. x \in ahead
  <2>1. CASE cursor = NoCursor
    BY <1>3, <2>1
  <2>2. CASE cursor # NoCursor /\ list # "named"
    BY <1>2, <2>2 DEF Ahead
  <2>3. CASE cursor # NoCursor /\ list = "named"
    BY <1>2, <1>3, <2>3 DEF Ahead, After
  <2> QED BY <2>1, <2>2, <2>3
<1>6. ASSUME NEW q \in next  PROVE q \in ahead /\ q # x
  <2>1. q \in Row
    BY <1>1
  <2>2. /\ q \in Nat /\ x \in Nat /\ stamp[q] \in Nat /\ stamp[x] \in Nat
        /\ key[q] \in Nat /\ key[x] \in Nat
    BY <1>3, <2>1, PageTypes
  <2>3. CASE list \in {"latest", "applications"}
    <3>1. q \in Listed /\ (stamp[q] < stamp[x] \/ (stamp[q] = stamp[x] /\ q < x))
      BY <1>3, <2>1, <2>3, AfterRow
    <3>2. q # x
      BY <3>1, <2>2
    <3>3. CASE cursor # NoCursor
      <4>1. After(cursor) = {v \in Listed : stamp[v] < cursor.key \/ (stamp[v] = cursor.key /\ v < cursor.row)}
        BY <3>3, <2>3 DEF After
      <4>2. stamp[x] < cursor.key \/ (stamp[x] = cursor.key /\ x < cursor.row)
        BY <4>1, <1>2
      <4>3. stamp[q] < cursor.key \/ (stamp[q] = cursor.key /\ q < cursor.row)
        BY <4>2, <3>1, <2>2, <1>1
      <4> QED BY <3>1, <3>2, <3>3, <4>1, <4>3, <2>3 DEF Ahead
    <3> QED BY <2>1, <3>2, <3>3
  <2>4. CASE list = "named"
    <3>1. key[q] > key[x] \/ (key[q] = key[x] /\ q > x)
      BY <2>4
    <3>2. q # x
      BY <3>1, <2>2
    <3>3. CASE cursor # NoCursor
      <4>1. key[x] > cursor.key \/ (key[x] = cursor.key /\ x > cursor.row)
        BY <3>3, <2>4, <1>2 DEF After
      <4>2. key[q] > cursor.key \/ (key[q] = cursor.key /\ q > cursor.row)
        BY <4>1, <3>1, <2>2, <1>1
      <4> QED BY <2>1, <3>2, <3>3, <4>2, <2>4 DEF Ahead
    <3> QED BY <2>1, <3>2, <3>3
  <2> QED BY <2>3, <2>4 DEF PagesTypeOK, List, Clean
<1> QED BY <1>4, <1>5, <1>6

-----------------------------------------------------------------------------
(* Ranks *)

\* Of rows that are sorted, a row that sorts with no other is among the first n
\* exactly if fewer than n come before it.
LEMMA FirstByRank ==
  ASSUME PagesAssumption, PagesTypeOK, NEW n \in Nat, NEW rows \in SUBSET Listed,
         NEW p \in FirstRows(n, rows), NEW r \in rows, list = "matches", ~Tied(r)
  PROVE  LET ahead == Preceding(r) \cap rows IN
         /\ r \in p <=> Cardinality(ahead) < n
         /\ r \notin p => p \subseteq ahead /\ Cardinality(p) = n
         /\ IsFiniteSet(ahead) /\ Cardinality(ahead) \in Nat
<1> DEFINE ahead == Preceding(r) \cap rows
<1>1. rows \in SUBSET Row /\ Listed \subseteq Row
  BY PageTypes
<1>2. /\ p \subseteq rows /\ IsFiniteSet(p) /\ Cardinality(p) \in Nat /\ Cardinality(p) <= n
      /\ Cardinality(p) # n => p = rows
      /\ \A a \in p, b \in rows \ p : ~Before(b, a)
  BY <1>1, FirstRowsSize
<1>3. \A q \in rows : /\ stamp[q] \in Nat /\ key[q] \in Nat
  BY <1>1, PageTypes
<1>4. \A a, b \in Row : Before(a, b) <=> key[a] > key[b] \/ (key[a] = key[b] /\ stamp[a] > stamp[b])
  BY DEF Before, Newer, PagesTypeOK
<1>5. r \notin ahead
  BY <1>1, <1>3, <1>4 DEF Preceding
<1>6. IsFiniteSet(ahead) /\ Cardinality(ahead) \in Nat
  <2>1. ahead \in SUBSET Row /\ IsFiniteSet(Row)
    BY <1>1 DEF PagesAssumption
  <2> QED BY <2>1, FS_Subset, FS_CardinalityType
<1>7. CASE r \in p
  <2>1. ahead \subseteq p \ {r}
    BY <1>2, <1>5, <1>7 DEF Preceding
  <2>2. IsFiniteSet(p \ {r}) /\ Cardinality(p \ {r}) = Cardinality(p) - 1
    BY <1>2, <1>7, FS_RemoveElement
  <2>3. Cardinality(ahead) <= Cardinality(p) - 1
    BY <2>1, <2>2, FS_Subset
  <2>4. Cardinality(ahead) < n
    BY <2>3, <1>2, <1>6
  <2> QED BY <2>4, <1>6, <1>7
<1>8. CASE r \notin p
  <2>1. p \subseteq ahead
    <3> SUFFICES ASSUME NEW a \in p PROVE a \in ahead
      OBVIOUS
    <3>1. ~Before(r, a) /\ a \in rows /\ a # r
      BY <1>2, <1>8
    <3>2. stamp[a] # stamp[r] \/ key[a] # key[r]
      BY <3>1, <1>1 DEF Tied
    <3>3. Before(a, r)
      BY <3>1, <3>2, <1>1, <1>3, <1>4
    <3> QED BY <3>1, <3>3, <1>1 DEF Preceding
  <2>2. Cardinality(p) = n
    BY <1>2, <1>8
  <2>3. Cardinality(p) <= Cardinality(ahead)
    BY <2>1, <1>6, FS_Subset
  <2>4. ~(Cardinality(ahead) < n)
    BY <2>2, <2>3, <1>6
  <2> QED BY <2>1, <2>2, <2>4, <1>6, <1>8
<1> QED BY <1>7, <1>8

\* A page of matches holds the rows whose rank is between two offsets.
LEMMA MatchPageByRank ==
  ASSUME PagesAssumption, PagesTypeOK, list = "matches", NEW n \in Nat,
         NEW skipped \in FirstRows(n, Listed), NEW p \in FirstRows(limit, Listed \ skipped),
         NEW r \in Listed, ~Tied(r)
  PROVE  /\ Cardinality(Preceding(r)) \in Nat /\ Cardinality(Preceding(r)) < Cardinality(Listed)
         /\ r \in p <=> n <= Cardinality(Preceding(r)) /\ Cardinality(Preceding(r)) < n + limit
<1> DEFINE rank == Cardinality(Preceding(r))
<1>1. limit \in Nat /\ Listed \in SUBSET Listed /\ Preceding(r) \cap Listed = Preceding(r)
  BY PageTypes DEF Preceding
<1>2. /\ r \in skipped <=> rank < n
      /\ r \notin skipped => skipped \subseteq Preceding(r) /\ Cardinality(skipped) = n
      /\ IsFiniteSet(Preceding(r)) /\ rank \in Nat
  BY <1>1, FirstByRank
<1>3. rank < Cardinality(Listed)
  <2>1. IsFiniteSet(Listed)
    BY FS_Subset, PageTypes
  <2>2. r \notin Preceding(r)
    <3>1. stamp[r] \in Nat /\ key[r] \in Nat
      BY PageTypes
    <3> QED BY <3>1 DEF Preceding, Before, Newer
  <2>3. Preceding(r) \in SUBSET (Listed \ {r})
    BY <2>2 DEF Preceding
  <2>4. IsFiniteSet(Listed \ {r}) /\ Cardinality(Listed \ {r}) = Cardinality(Listed) - 1
    BY <2>1, FS_RemoveElement
  <2>5. rank <= Cardinality(Listed) - 1
    BY <2>3, <2>4, FS_Subset
  <2>6. Cardinality(Listed) \in Nat
    BY <2>1, FS_CardinalityType
  <2> QED BY <2>5, <2>6, <1>2
<1>4. p \subseteq Listed \ skipped
  BY DEF FirstRows
<1>5. CASE r \in skipped
  BY <1>2, <1>3, <1>4, <1>5
<1>6. CASE r \notin skipped
  <2> DEFINE rest == Preceding(r) \cap (Listed \ skipped)
  <2>1. r \in p <=> Cardinality(rest) < limit
    BY <1>1, <1>6, FirstByRank
  <2>2. rest = Preceding(r) \ skipped /\ Preceding(r) \cap skipped = skipped
    BY <1>2, <1>6 DEF Preceding
  <2>3. Cardinality(rest) = rank - n
    <3>1. Cardinality(Preceding(r) \ skipped) =
            Cardinality(Preceding(r)) - Cardinality(Preceding(r) \cap skipped)
      BY <1>2, FS_Difference
    <3> QED BY <3>1, <2>2, <1>2, <1>6
  <2> HIDE DEF rest
  <2> QED BY <2>1, <2>3, <1>1, <1>2, <1>3, <1>6
<1> QED BY <1>5, <1>6
-----------------------------------------------------------------------------
(* Reading a page *)

\* What does not depend on the walk is as it was.
SameList ==
  /\ UNCHANGED <<list, limit, key, stamp, clock>>
  /\ Listed' = Listed /\ (\A r \in Row : Tied(r)' <=> Tied(r))
  /\ \A r \in Row : Preceding(r)' = Preceding(r)

\* A page is read: one of matches, one that is full, or the last one.
PageRead(page) ==
  /\ ~finished /\ page \subseteq Row
  /\ \/ /\ list = "matches"
        /\ \E skipped \in FirstRows(IF cursor = NoCursor THEN 0 ELSE cursor.key, Listed) :
             page \in FirstRows(limit, Listed \ skipped)
        /\ cursor' = IF Offset < Cardinality(Listed) THEN [key |-> Offset, row |-> -1] ELSE NoCursor
     \/ /\ list # "matches" /\ page \in FirstRows(limit, After(cursor))
        /\ \/ \E x \in LastRows(page) : cursor' = CursorAt(x)
           \/ page = After(cursor) /\ cursor' = NoCursor
  /\ finished' = (cursor' = NoCursor)
  /\ pages' = pages + 1 /\ pages < MaxPages
  /\ got' = [r \in Row |-> IF r \in page /\ got[r] < 2 THEN got[r] + 1 ELSE got[r]]
  /\ exempt' = IF pages = 0 THEN {r \in Row : r \notin Listed \/ Tied(r)} ELSE exempt

LEMMA ReadPageReads ==
  ASSUME PagesAssumption, PagesTypeOK, ReadPage
  PROVE  SameList /\ \E page \in SUBSET Row : PageRead(page)
<1>1. PICK page \in SUBSET Row :
        /\ ~finished /\ pages < MaxPages
        /\ PageOf(cursor, page)
        /\ cursor' \in NextCursors(page)
        /\ finished' = (cursor' = NoCursor)
        /\ pages' = pages + 1
        /\ got' = [r \in Row |-> IF r \in page /\ got[r] < 2 THEN got[r] + 1 ELSE got[r]]
        /\ exempt' = IF pages = 0 THEN {r \in Row : r \notin Listed \/ Tied(r)} ELSE exempt
        /\ UNCHANGED <<list, limit, key, stamp, clock>>
  BY DEF ReadPage
<1>2. SameList
  BY <1>1 DEF SameList, Listed, Tied, Preceding, Before, Newer
<1>3. ASSUME list = "matches"  PROVE PageRead(page)
  <2>1. \E skipped \in FirstRows(IF cursor = NoCursor THEN 0 ELSE cursor.key, Listed) :
          page \in FirstRows(limit, Listed \ skipped)
    BY <1>1, <1>3 DEF PageOf
  <2>2. cursor' = IF Offset < Cardinality(Listed) THEN [key |-> Offset, row |-> -1] ELSE NoCursor
    BY <1>1, <1>3 DEF NextCursors
  <2> QED BY <1>1, <1>3, <2>1, <2>2 DEF PageRead
<1>4. ASSUME list # "matches"  PROVE PageRead(page)
  <2>1. page \in FirstRows(limit, After(cursor))
    BY <1>1, <1>4 DEF PageOf
  <2>2. limit \in Nat /\ After(cursor) \in SUBSET Row
    BY PageTypes
  <2>3. Cardinality(page) # limit => page = After(cursor)
    BY <2>1, <2>2, FirstRowsSize
  <2>4. \/ \E x \in LastRows(page) : cursor' = CursorAt(x)
        \/ page = After(cursor) /\ cursor' = NoCursor
    BY <1>1, <1>4, <2>3 DEF NextCursors
  <2> QED BY <1>1, <1>4, <2>1, <2>4 DEF PageRead
<1> QED BY <1>2, <1>3, <1>4

\* What is returned is counted.
LEMMA GotCounts ==
  ASSUME PagesTypeOK, NEW page \in SUBSET Row, PageRead(page), NEW r \in Row
  PROVE  /\ got[r] \in 0..2 /\ got'[r] \in 0..2 /\ got'[r] >= got[r]
         /\ r \in page => got'[r] >= 1 /\ (got[r] = 0 => got'[r] = 1)
         /\ r \notin page => got'[r] = got[r]
<1>1. got[r] \in 0..2
  BY DEF PagesTypeOK
<1>2. got'[r] = IF r \in page /\ got[r] < 2 THEN got[r] + 1 ELSE got[r]
  BY DEF PageRead
<1> QED BY <1>1, <1>2

\* A walk that has derailed stays so.
LEMMA DerailsStays ==
  ASSUME PagesTypeOK, NEW page \in SUBSET Row, PageRead(page), SameList
  PROVE  /\ Derails => Derails'
         /\ ~Derails' => list # "statuses" /\ \A r \in page : Clean(r)
<1>1. list' = list /\ key' = key
  BY DEF SameList
<1>2. \A r \in Row : got'[r] >= got[r] /\ got[r] \in 0..2 /\ got'[r] \in 0..2
                    /\ (r \in page => got'[r] >= 1)
  BY GotCounts
<1>3. ASSUME Derails  PROVE Derails'
  BY <1>1, <1>2, <1>3 DEF Derails
<1>4. ASSUME ~Derails', NEW r \in page  PROVE Clean(r)
  <2>1. r \in Row /\ got'[r] > 0
    BY <1>2
  <2> QED BY <1>1, <1>4, <2>1 DEF Derails, Clean
<1>5. ~Derails' => list # "statuses"
  BY <1>1 DEF Derails
<1> QED BY <1>3, <1>4, <1>5

LEMMA CursorTyped ==
  ASSUME PagesAssumption, PagesTypeOK, NEW x \in Row
  PROVE  CursorAt(x) \in [key : Int, row : Row \cup {-1}]
         /\ (list \in {"latest", "applications"} => CursorAt(x).key <= clock)
<1>1. stamp[x] \in Nat /\ key[x] \in Nat /\ stamp[x] <= clock
  BY PageTypes
<1> DEFINE k == IF list # "named" THEN stamp[x] ELSE IF key[x] \in Piped THEN key[x] - 1 ELSE key[x]
<1>2. k \in Int /\ (list # "named" => k <= clock)
  BY <1>1
<1>3. CursorAt(x) = [key |-> k, row |-> x]
  BY DEF CursorAt
<1> HIDE DEF k
<1> QED BY <1>2, <1>3
\* A page of matches has an offset that is the number of rows before it.
LEMMA OffsetTyped ==
  ASSUME PagesAssumption, PagesInv, list = "matches", ~finished
  PROVE  LET n == IF cursor = NoCursor THEN 0 ELSE cursor.key IN
         /\ n \in Nat /\ Offset = n + limit /\ Offset \in Nat /\ pages <= n
         /\ (~Begun => n = 0) /\ (Begun => n = cursor.key)
<1> DEFINE n == IF cursor = NoCursor THEN 0 ELSE cursor.key
<1>1. limit \in Nat /\ limit > 0 /\ pages \in Nat /\ cursor.key \in Int
  BY PageTypes DEF PagesInv
<1>2. CASE ~Begun
  <2>1. n = 0 /\ pages = 0
    BY <1>1, <1>2 DEF PagesInv, WalkBegins, Begun
  <2> QED BY <2>1, <1>1, <1>2 DEF Offset
<1>3. CASE Begun
  <2>1. cursor # NoCursor
    BY <1>3 DEF PagesInv, WalkBegins
  <2>2. ~Derails
    BY DEF Derails
  <2>3. pages <= cursor.key
    BY <1>3, <2>2 DEF PagesInv, WalkShrinks
  <2> QED BY <2>1, <2>3, <1>1, <1>3 DEF Offset
<1> QED BY <1>2, <1>3

LEMMA ReadingKeepsTypes ==
  ASSUME PagesAssumption, PagesInv, NEW page \in SUBSET Row, PageRead(page), SameList
  PROVE  PagesTypeOK' /\ WalkBegins'
<1>0. PagesTypeOK /\ Cardinality(Row) \in Nat /\ pages \in Nat /\ clock \in Nat
  BY PageTypes DEF PagesInv
<1>1. /\ cursor' \in [key : Int, row : Row \cup {-1}]
      /\ list \in {"latest", "applications"} => cursor'.key <= clock
  <2> DEFINE C == [key : Int, row : Row \cup {-1}]
  <2>1. NoCursor \in C /\ NoCursor.key <= clock
    BY <1>0 DEF NoCursor
  <2>2. CASE list = "matches"
    <3>1. Offset \in Int
      BY <1>0, OffsetTyped, <2>2 DEF PageRead
    <3>2. [key |-> Offset, row |-> -1] \in C
      BY <3>1
    <3>3. cursor' = [key |-> Offset, row |-> -1] \/ cursor' = NoCursor
      BY <2>2 DEF PageRead
    <3>4. cursor' \in C
      BY <2>1, <3>2, <3>3
    <3> HIDE DEF C
    <3> QED BY <2>2, <3>4 DEF C
  <2>3. CASE list # "matches"
    <3>1. cursor' = NoCursor \/ \E x \in Row : cursor' = CursorAt(x)
      BY <2>3 DEF PageRead, LastRows
    <3> QED BY <1>0, <2>1, <3>1, CursorTyped
  <2> QED BY <2>2, <2>3
<1>2. got' \in [Row -> 0..2]
  <2>1. DOMAIN got' = Row /\ got' = [r \in Row |-> got'[r]]
    BY DEF PageRead
  <2>2. \A r \in Row : got'[r] \in 0..2
    BY <1>0, GotCounts
  <2> QED BY <2>1, <2>2
<1>3. pages' \in 0..MaxPages /\ pages' > 0 /\ finished' \in BOOLEAN /\ finished' = (cursor' = NoCursor)
  BY <1>0 DEF PageRead, MaxPages
<1>4. exempt' \subseteq Row
  BY <1>0 DEF PageRead, PagesTypeOK
<1>5. PagesTypeOK'
  BY <1>0, <1>1, <1>2, <1>3, <1>4 DEF PagesTypeOK, SameList, MaxPages
<1>6. WalkBegins'
  BY <1>1, <1>3 DEF WalkBegins, Begun, SameList
<1> QED BY <1>5, <1>6

\* The rows that a walk promises were promised before, or are found first now.
LEMMA PromisedNow ==
  ASSUME PagesAssumption, PagesInv, NEW page \in SUBSET Row, PageRead(page), SameList,
         NEW r \in Row \ exempt'
  PROVE  /\ r \in Listed /\ ~Tied(r)
         /\ Begun => r \in Row \ exempt
         /\ ~Begun => got[r] = 0 /\ cursor = NoCursor
<1>1. pages \in Nat
  BY PageTypes DEF PagesInv
<1>2. CASE Begun
  <2>1. r \in Row \ exempt
    BY <1>1, <1>2 DEF Begun, PageRead
  <2> QED BY <1>2, <2>1 DEF PagesInv, PromisedAreApart
<1>3. CASE ~Begun
  <2>1. pages = 0
    BY <1>1, <1>3 DEF Begun
  <2> QED BY <1>3, <2>1 DEF PageRead, PagesInv, WalkBegins
<1> QED BY <1>2, <1>3

LEMMA ReadingKeepsOrder ==
  ASSUME PagesAssumption, PagesInv, NEW page \in SUBSET Row, PageRead(page), SameList
  PROVE  PromisedAreApart' /\ WalkIsOrdered'
<1>0. PagesTypeOK
  BY DEF PagesInv
<1>1. PromisedAreApart'
  BY PromisedNow DEF PromisedAreApart, SameList
<1>2. WalkIsOrdered'
  <2> SUFFICES ASSUME list' # "matches", NEW r \in Row \ exempt'
               PROVE  /\ finished' \/ r \notin After(cursor)' => got'[r] >= 1
                      /\ ~Derails' => got'[r] <= 1 /\ (~finished' /\ r \in After(cursor)' => got'[r] = 0)
    BY DEF WalkIsOrdered
  <2>1. list # "matches" /\ After(cursor)' = After(cursor')
    BY DEF SameList, After
  <2>2. /\ r \in Listed /\ ~Tied(r)
        /\ Begun => r \in Row \ exempt
        /\ ~Begun => got[r] = 0 /\ cursor = NoCursor
    BY PromisedNow
  <2>3. /\ got[r] \in 0..2 /\ got'[r] \in 0..2 /\ got'[r] >= got[r]
        /\ r \in page => got'[r] >= 1 /\ (got[r] = 0 => got'[r] = 1)
        /\ r \notin page => got'[r] = got[r]
    BY <1>0, GotCounts
  <2>4. Derails => Derails'
    BY <1>0, DerailsStays
  <2>5. page \in FirstRows(limit, After(cursor)) /\ page \subseteq After(cursor)
    BY <2>1 DEF PageRead, FirstRows
  <2>6. /\ r \notin After(cursor) => got[r] >= 1
        /\ ~Derails' => got[r] <= 1 /\ (r \in After(cursor) => got[r] = 0)
    <3>1. CASE Begun
      <4>1. ~finished
        BY DEF PageRead
      <4>2. /\ r \notin After(cursor) => got[r] >= 1
            /\ ~Derails => got[r] <= 1 /\ (r \in After(cursor) => got[r] = 0)
        BY <2>1, <2>2, <3>1, <4>1 DEF PagesInv, WalkIsOrdered
      <4> QED BY <4>2, <2>4
    <3>2. CASE ~Begun
      <4>1. After(cursor) = Listed
        BY <2>2, <3>2 DEF After
      <4> QED BY <4>1, <2>2, <3>2
    <3> QED BY <3>1, <3>2
  <2>7. ~Derails' => got'[r] <= 1
    BY <2>3, <2>5, <2>6
  <2>8. CASE page = After(cursor) /\ cursor' = NoCursor
    <3>1. got'[r] >= 1
      BY <2>3, <2>6, <2>8
    <3>2. finished'
      BY <2>8 DEF PageRead
    <3> QED BY <2>7, <3>1, <3>2
  <2>9. ASSUME NEW x \in LastRows(page), cursor' = CursorAt(x)
        PROVE  /\ finished' \/ r \notin After(cursor') => got'[r] >= 1
               /\ ~Derails' /\ r \in After(cursor') => got'[r] = 0
    <3>0. x \in page /\ x \in Row
      BY DEF LastRows
    <3>1. cursor' # NoCursor
      BY <1>0, <2>1, <2>9, <3>0, AfterRow
    <3>2. ~finished'
      BY <3>1 DEF PageRead
    <3>3. /\ r \in After(cursor) \ page => r \in After(CursorAt(x))
          /\ Clean(x) => (r \in page \/ r \notin After(cursor) => r \notin After(CursorAt(x)))
      BY <1>0, <2>1, <2>2, <2>5, FullPage
    <3>4. ~Derails' => Clean(x)
      BY <1>0, <3>0, DerailsStays
    <3>5. r \notin After(cursor') => got'[r] >= 1
      BY <2>3, <2>6, <2>9, <3>3
    <3>6. ~Derails' /\ r \in After(cursor') => got'[r] = 0
      BY <2>3, <2>5, <2>6, <2>9, <3>3, <3>4
    <3> QED BY <3>2, <3>5, <3>6
  <2>10. (\E x \in LastRows(page) : cursor' = CursorAt(x)) \/ (page = After(cursor) /\ cursor' = NoCursor)
    BY <2>1 DEF PageRead
  <2> QED BY <2>1, <2>7, <2>8, <2>9, <2>10
<1> QED BY <1>1, <1>2
LEMMA ReadingKeepsRanks ==
  ASSUME PagesAssumption, PagesInv, NEW page \in SUBSET Row, PageRead(page), SameList
  PROVE  OffsetIsRank'
<1>0. PagesTypeOK
  BY DEF PagesInv
<1> SUFFICES ASSUME list' = "matches", NEW r \in Row \ exempt'
             PROVE  /\ got'[r] <= 1 /\ (finished' => got'[r] = 1)
                    /\ ~finished' => (got'[r] = 1 <=> Cardinality(Preceding(r)') < cursor'.key)
  BY DEF OffsetIsRank
<1>1. list = "matches" /\ ~finished /\ Preceding(r)' = Preceding(r) /\ r \in Row
  BY DEF SameList, PageRead
<1> DEFINE rank == Cardinality(Preceding(r))
           n == IF cursor = NoCursor THEN 0 ELSE cursor.key
<1>2. /\ r \in Listed /\ ~Tied(r)
      /\ Begun => r \in Row \ exempt
      /\ ~Begun => got[r] = 0
  BY PromisedNow
<1>3. /\ n \in Nat /\ Offset = n + limit /\ Offset \in Nat
      /\ (~Begun => n = 0) /\ (Begun => n = cursor.key)
  BY <1>1, OffsetTyped
<1>4. PICK skipped \in FirstRows(n, Listed) : page \in FirstRows(limit, Listed \ skipped)
  BY <1>1 DEF PageRead
<1> HIDE DEF n
<1>5. /\ rank \in Nat /\ rank < Cardinality(Listed)
      /\ r \in page <=> n <= rank /\ rank < n + limit
  BY <1>0, <1>1, <1>2, <1>3, <1>4, MatchPageByRank
<1> HIDE DEF rank
<1>6. /\ got[r] \in 0..2
      /\ r \in page => (got[r] = 0 => got'[r] = 1)
      /\ r \notin page => got'[r] = got[r]
  BY <1>0, <1>1, GotCounts
<1>7. got[r] <= 1 /\ (got[r] = 1 <=> rank < n)
  <2>1. CASE Begun
    BY <2>1, <1>1, <1>2, <1>3 DEF PagesInv, OffsetIsRank, rank
  <2>2. CASE ~Begun
    BY <2>2, <1>2, <1>3, <1>5
  <2> QED BY <2>1, <2>2
<1>8. limit \in Nat /\ limit > 0
  BY <1>0, PageTypes
<1>9. got'[r] <= 1 /\ (got'[r] = 1 <=> rank < Offset)
  <2>1. CASE r \in page
    BY <2>1, <1>3, <1>5, <1>6, <1>7, <1>8
  <2>2. CASE r \notin page
    BY <2>2, <1>3, <1>5, <1>6, <1>7, <1>8
  <2> QED BY <2>1, <2>2
<1>10. CASE Offset < Cardinality(Listed)
  <2>1. cursor' = [key |-> Offset, row |-> -1]
    BY <1>1, <1>10 DEF PageRead
  <2>2. cursor' # NoCursor /\ cursor'.key = Offset
    BY <2>1, <1>3 DEF NoCursor
  <2>3. ~finished'
    BY <2>2 DEF PageRead
  <2> QED BY <1>1, <1>9, <2>2, <2>3 DEF rank
<1>11. CASE ~(Offset < Cardinality(Listed))
  <2>1. cursor' = NoCursor
    BY <1>1, <1>11 DEF PageRead
  <2>2. finished'
    BY <2>1 DEF PageRead
  <2>3. Cardinality(Listed) \in Nat
    BY <1>0, PageTypes, FS_Subset, FS_CardinalityType
  <2>4. got'[r] = 1
    BY <1>3, <1>5, <1>9, <1>11, <2>3
  <2> QED BY <1>9, <2>2, <2>4
<1> QED BY <1>10, <1>11

LEMMA ReadingShrinks ==
  ASSUME PagesAssumption, PagesInv, NEW page \in SUBSET Row, PageRead(page), SameList
  PROVE  WalkShrinks' /\ WalksEnd'
<1>0. /\ PagesTypeOK /\ pages \in Nat /\ pages' = pages + 1 /\ ~finished
      /\ limit \in Nat /\ limit > 0
      /\ IsFiniteSet(Row) /\ Cardinality(Row) \in Nat /\ Listed \subseteq Row
  BY PageTypes DEF PagesInv, PageRead
<1> SUFFICES ASSUME ~Derails'
             PROVE  /\ pages' <= Cardinality(Row) + 1
                    /\ ~finished' =>
                         IF list' = "matches" THEN pages' <= cursor'.key /\ cursor'.key < Cardinality(Row)
                         ELSE pages' + Cardinality(Ahead') <= Cardinality(Row)
  BY DEF WalkShrinks, WalksEnd
<1>1. list' = list /\ ~Derails
  BY <1>0, DerailsStays DEF SameList
<1>2. CASE list = "matches"
  <2> DEFINE n == IF cursor = NoCursor THEN 0 ELSE cursor.key
  <2>1. n \in Nat /\ Offset = n + limit /\ pages <= n /\ (~Begun => n = 0) /\ (Begun => n = cursor.key)
    BY <1>0, <1>2, OffsetTyped
  <2> HIDE DEF n
  <2>2. n <= Cardinality(Row)
    <3>1. CASE Begun
      BY <3>1, <1>0, <1>1, <1>2, <2>1 DEF PagesInv, WalkShrinks
    <3>2. CASE ~Begun
      BY <3>2, <1>0, <2>1
    <3> QED BY <3>1, <3>2
  <2>3. pages' <= Cardinality(Row) + 1
    BY <1>0, <2>1, <2>2
  <2>4. ASSUME ~finished'  PROVE pages' <= cursor'.key /\ cursor'.key < Cardinality(Row)
    <3>1. cursor' # NoCursor
      BY <2>4 DEF PageRead
    <3>2. Offset < Cardinality(Listed) /\ cursor' = [key |-> Offset, row |-> -1]
      BY <1>2, <3>1 DEF PageRead
    <3>3. Cardinality(Listed) \in Nat /\ Cardinality(Listed) <= Cardinality(Row)
      BY <1>0, FS_Subset, FS_CardinalityType
    <3>4. cursor'.key = Offset
      BY <3>2
    <3> QED BY <1>0, <2>1, <3>2, <3>3, <3>4
  <2> QED BY <1>1, <1>2, <2>3, <2>4
<1>3. CASE list # "matches"
  <2> DEFINE ahead == IF cursor = NoCursor THEN Row ELSE Ahead
  <2>1. ahead \subseteq Row /\ pages + Cardinality(ahead) <= Cardinality(Row)
    <3>1. CASE Begun
      <4>1. cursor # NoCursor
        BY <1>0, <3>1 DEF PagesInv, WalkBegins
      <4>2. pages + Cardinality(Ahead) <= Cardinality(Row)
        BY <1>0, <1>1, <1>3, <3>1 DEF PagesInv, WalkShrinks
      <4>3. Ahead \subseteq Row
        BY <1>0, PageTypes DEF Ahead
      <4> QED BY <4>1, <4>2, <4>3
    <3>2. CASE ~Begun
      <4>1. cursor = NoCursor /\ pages = 0
        BY <1>0, <3>2 DEF PagesInv, WalkBegins, Begun
      <4> QED BY <1>0, <4>1
    <3> QED BY <3>1, <3>2
  <2> HIDE DEF ahead
  <2>2. IsFiniteSet(ahead) /\ Cardinality(ahead) \in Nat
    BY <1>0, <2>1, FS_Subset, FS_CardinalityType
  <2>3. pages' <= Cardinality(Row) + 1
    BY <1>0, <2>1, <2>2
  <2>4. ASSUME ~finished'  PROVE pages' + Cardinality(Ahead') <= Cardinality(Row)
    <3>1. cursor' # NoCursor
      BY <2>4 DEF PageRead
    <3>2. PICK x \in LastRows(page) : cursor' = CursorAt(x)
      BY <1>3, <3>1 DEF PageRead
    <3>3. Clean(x) /\ x \in Row /\ list # "statuses"
      BY <1>0, DerailsStays DEF LastRows
    <3> DEFINE next == IF list = "named"
                       THEN {q \in Row : key[q] > key[x] \/ (key[q] = key[x] /\ q > x)}
                       ELSE After(CursorAt(x))
    <3>4. Ahead' = next
      <4>1. CASE list = "named"
        <5>1. CursorAt(x).key = key[x] /\ CursorAt(x).row = x
          BY <3>3, <4>1 DEF CursorAt, Clean
        <5> QED BY <5>1, <3>2, <4>1, <1>1 DEF Ahead, SameList
      <4>2. CASE list # "named"
        BY <3>2, <4>2, <1>1 DEF Ahead, After, SameList
      <4> QED BY <4>1, <4>2
    <3>5. next \subseteq ahead \ {x} /\ x \in ahead
      <4>1. page \in FirstRows(limit, After(cursor))
        BY <1>3 DEF PageRead
      <4>2. ahead = IF cursor = NoCursor THEN Row ELSE Ahead
        BY DEF ahead
      <4>3. next = IF list = "named"
                   THEN {q \in Row : key[q] > key[x] \/ (key[q] = key[x] /\ q > x)}
                   ELSE After(CursorAt(x))
        OBVIOUS
      <4> HIDE DEF next
      <4> QED BY <4>1, <4>2, <4>3, <1>0, <1>3, <3>2, <3>3, FullPageShrinks
    <3> HIDE DEF next
    <3>6. IsFiniteSet(ahead \ {x}) /\ Cardinality(ahead \ {x}) = Cardinality(ahead) - 1
      BY <2>2, <3>5, FS_RemoveElement
    <3>7. Cardinality(next) \in Nat /\ Cardinality(next) <= Cardinality(ahead) - 1
      BY <3>5, <3>6, FS_Subset, FS_CardinalityType
    <3> QED BY <1>0, <2>1, <2>2, <3>4, <3>7
  <2> QED BY <1>1, <1>3, <2>3, <2>4
<1> QED BY <1>2, <1>3
-----------------------------------------------------------------------------
(* Rows are saved and withdrawn *)

\* Rows are saved with a stamp that is new, or leave the list.
Restamped(rows) ==
  /\ rows \in SUBSET Row /\ ~finished
  /\ UNCHANGED <<list, limit, key, cursor, pages, finished, got>>
  /\ clock' \in clock..LastStamp
  /\ \E new \in {0, clock'} :
       /\ new = 0 \/ new > clock
       /\ stamp' = [r \in Row |-> IF r \in rows THEN new ELSE stamp[r]]
  /\ Disturb(rows)

LEMMA SavesRestamp ==
  ASSUME PagesAssumption, PagesTypeOK, NEW rows \in SUBSET Row, Save(rows) \/ Withdraw(rows)
  PROVE  Restamped(rows)
<1>1. clock \in Nat /\ LastStamp \in Nat /\ clock <= LastStamp
  BY PageTypes DEF PagesTypeOK, PagesAssumption
<1>2. CASE Save(rows)
  <2>1. clock' = clock + 1 /\ clock' \in clock..LastStamp /\ clock' > clock
    BY <1>1, <1>2 DEF Save
  <2>2. /\ ~finished /\ UNCHANGED <<list, limit, key, cursor, pages, finished, got>>
        /\ Disturb(rows)
        /\ stamp' = [r \in Row |-> IF r \in rows THEN clock' ELSE stamp[r]]
    BY <1>2 DEF Save
  <2> QED BY <2>1, <2>2 DEF Restamped
<1>3. CASE Withdraw(rows)
  <2>1. clock' = clock /\ clock' \in clock..LastStamp
    BY <1>1, <1>3 DEF Withdraw
  <2>2. /\ ~finished /\ UNCHANGED <<list, limit, key, cursor, pages, finished, got>>
        /\ Disturb(rows)
        /\ stamp' = [r \in Row |-> IF r \in rows THEN 0 ELSE stamp[r]]
    BY <1>3 DEF Withdraw
  <2> QED BY <2>1, <2>2 DEF Restamped
<1> QED BY <1>2, <1>3

LEMMA RestampingKeepsTypes ==
  ASSUME PagesAssumption, PagesInv, NEW rows \in SUBSET Row, Restamped(rows)
  PROVE  PagesTypeOK' /\ WalkBegins'
<1>0. PagesTypeOK /\ clock \in Nat /\ pages \in Nat /\ cursor.key \in Int
      /\ \A r \in Row : stamp[r] \in Nat /\ stamp[r] <= clock
  BY PageTypes DEF PagesInv
<1>1. clock' \in Nat /\ clock <= clock' /\ clock' <= LastStamp /\ FirstStamp <= clock
      /\ LastStamp \in Nat /\ FirstStamp \in Nat
  BY <1>0 DEF Restamped, PagesTypeOK, PagesAssumption
<1>2. stamp' \in [Row -> 0..clock']
  <2>1. PICK new \in {0, clock'} :
          stamp' = [r \in Row |-> IF r \in rows THEN new ELSE stamp[r]]
    BY DEF Restamped
  <2>2. new \in 0..clock' /\ \A r \in Row : stamp[r] \in 0..clock'
    BY <1>0, <1>1
  <2> QED BY <2>1, <2>2
<1>3. exempt' \subseteq Row /\ (~Begun => exempt' = {})
  <2>1. rows \subseteq Row /\ exempt \subseteq Row /\ exempt' \in {{}, Row, exempt \cup rows}
    BY <1>0 DEF Restamped, Disturb, PagesTypeOK
  <2>2. ASSUME ~Begun  PROVE exempt' = {}
    <3>1. pages = 0
      BY <1>0, <2>2 DEF Begun
    <3> QED BY <3>1 DEF Restamped, Disturb
  <2> QED BY <2>1, <2>2
<1>4. clock' \in FirstStamp..LastStamp
  <2>1. clock' \in Int /\ FirstStamp <= clock'
    BY <1>0, <1>1
  <2> QED BY <1>1, <2>1
<1>5. PagesTypeOK'
  BY <1>0, <1>2, <1>3, <1>4 DEF PagesTypeOK, Restamped, MaxPages
<1>6. WalkBegins'
  BY <1>0, <1>1, <1>3 DEF PagesInv, WalkBegins, Begun, Restamped
<1> QED BY <1>5, <1>6

\* A row that is still promised has been left alone.
LEMMA StillPromised ==
  ASSUME PagesAssumption, PagesInv, NEW rows \in SUBSET Row, Restamped(rows), Begun,
         NEW r \in Row \ exempt'
  PROVE  /\ r \in Row \ exempt /\ r \notin rows /\ list # "matches"
         /\ stamp'[r] = stamp[r] /\ r \in Listed /\ r \in Listed'
<1>1. pages # 0 /\ pages \in Nat
  BY PageTypes DEF Begun, PagesInv
<1>2. r \in Row \ exempt /\ r \notin rows /\ list # "matches"
  BY <1>1 DEF Restamped, Disturb
<1>3. stamp'[r] = stamp[r] /\ r \in Listed
  BY <1>2 DEF Restamped, PagesInv, PromisedAreApart
<1> QED BY <1>2, <1>3 DEF Listed

LEMMA RestampingKeepsOrder ==
  ASSUME PagesAssumption, PagesInv, NEW rows \in SUBSET Row, Restamped(rows)
  PROVE  PromisedAreApart' /\ WalkIsOrdered' /\ OffsetIsRank'
<1>0. /\ PagesTypeOK /\ clock \in Nat
      /\ \A q \in Row : stamp[q] \in Nat /\ stamp[q] <= clock
      /\ UNCHANGED <<list, limit, key, cursor, pages, finished, got>> /\ ~finished
  BY PageTypes DEF PagesInv, Restamped
<1>1. PICK new \in {0, clock'} :
        /\ new = 0 \/ new > clock
        /\ stamp' = [q \in Row |-> IF q \in rows THEN new ELSE stamp[q]]
  BY DEF Restamped
<1>2. PromisedAreApart'
  <2> SUFFICES ASSUME Begun', NEW r \in Row \ exempt'
               PROVE  r \in Listed' /\ ~Tied(r)'
    BY DEF PromisedAreApart
  <2>1. Begun
    BY <1>0 DEF Begun
  <2>2. /\ r \in Row \ exempt /\ r \notin rows
        /\ stamp'[r] = stamp[r] /\ r \in Listed /\ r \in Listed'
    BY <2>1, StillPromised
  <2>3. ~Tied(r)
    BY <2>1, <2>2 DEF PagesInv, PromisedAreApart
  <2>4. ASSUME NEW q \in Listed' \ {r}, stamp'[q] = stamp'[r]
        PROVE  q \in Listed \ {r} /\ stamp[q] = stamp[r]
    <3>1. q \in Row /\ stamp'[q] # 0
      BY DEF Listed
    <3>2. q \notin rows
      <4> SUFFICES ASSUME q \in rows PROVE FALSE
        OBVIOUS
      <4>1. stamp'[q] = new
        BY <1>1, <3>1
      <4>2. new > clock
        BY <1>1, <3>1, <4>1
      <4>3. stamp[r] <= clock /\ stamp[r] \in Nat
        BY <1>0
      <4> QED BY <4>1, <4>2, <4>3, <2>2, <2>4, <1>0
    <3>3. stamp'[q] = stamp[q]
      BY <1>1, <3>1, <3>2
    <3> QED BY <3>1, <3>3, <2>2, <2>4 DEF Listed
  <2>5. ~Tied(r)'
    BY <2>3, <2>4, <1>0 DEF Tied
  <2> QED BY <2>2, <2>5
<1>3. WalkIsOrdered'
  <2> SUFFICES ASSUME Begun', NEW r \in Row \ exempt'
               PROVE  /\ finished' \/ r \notin After(cursor)' => got'[r] >= 1
                      /\ ~Derails' => got'[r] <= 1 /\ (~finished' /\ r \in After(cursor)' => got'[r] = 0)
    BY DEF WalkIsOrdered
  <2>1. Begun
    BY <1>0 DEF Begun
  <2>2. /\ r \in Row \ exempt /\ list # "matches"
        /\ stamp'[r] = stamp[r] /\ r \in Listed /\ r \in Listed'
    BY <2>1, StillPromised
  <2>3. r \in After(cursor)' <=> r \in After(cursor)
    BY <2>2, <1>0 DEF After
  <2>4. Derails' <=> Derails
    BY <1>0 DEF Derails
  <2> QED BY <2>1, <2>2, <2>3, <2>4, <1>0 DEF PagesInv, WalkIsOrdered
<1>4. OffsetIsRank'
  BY <1>0, StillPromised DEF OffsetIsRank, Begun
<1> QED BY <1>2, <1>3, <1>4

LEMMA RestampingShrinks ==
  ASSUME PagesAssumption, PagesInv, NEW rows \in SUBSET Row, Restamped(rows)
  PROVE  WalkShrinks' /\ WalksEnd'
<1>0. /\ PagesTypeOK /\ clock \in Nat /\ cursor.key \in Int /\ pages \in Nat
      /\ IsFiniteSet(Row) /\ Cardinality(Row) \in Nat /\ Ahead \subseteq Row
      /\ \A q \in Row : stamp[q] \in Nat /\ stamp[q] <= clock
      /\ UNCHANGED <<list, limit, key, cursor, pages, finished, got>> /\ ~finished
  BY PageTypes DEF PagesInv, Restamped, Ahead
<1>1. (Derails' <=> Derails) /\ (Begun' <=> Begun)
  BY <1>0 DEF Derails, Begun
<1>2. WalksEnd'
  BY <1>0, <1>1 DEF PagesInv, WalksEnd
<1>3. ASSUME Begun, ~Derails, list # "matches"
      PROVE  pages + Cardinality(Ahead') <= Cardinality(Row)
  <2>1. cursor # NoCursor /\ list \in {"latest", "applications", "named"}
        /\ (list # "named" => cursor.key <= clock)
    BY <1>0, <1>3 DEF PagesInv, WalkBegins, PagesTypeOK, List, Derails
  <2>2. Ahead' \subseteq Ahead
    <3>1. CASE list = "named"
      BY <1>0, <3>1 DEF Ahead
    <3>2. CASE list # "named"
      <4>1. Ahead = {q \in Listed : stamp[q] < cursor.key \/ (stamp[q] = cursor.key /\ q < cursor.row)}
        BY <2>1, <3>2 DEF Ahead, After
      <4>2. Ahead' = {q \in Listed' : stamp'[q] < cursor.key \/ (stamp'[q] = cursor.key /\ q < cursor.row)}
        BY <2>1, <3>2, <1>0 DEF Ahead, After
      <4>3. PICK new \in {0, clock'} :
              /\ new = 0 \/ new > clock
              /\ stamp' = [q \in Row |-> IF q \in rows THEN new ELSE stamp[q]]
        BY DEF Restamped
      <4>4. ASSUME NEW q \in Ahead'  PROVE q \in Ahead
        <5>1. q \in Row /\ stamp'[q] # 0 /\ stamp'[q] <= cursor.key
          <6>1. q \in Row /\ stamp'[q] # 0
            BY <4>2 DEF Listed
          <6>2. stamp'[q] < cursor.key \/ stamp'[q] = cursor.key
            BY <4>2
          <6>3. clock' \in Nat
            BY <1>0 DEF Restamped, PagesTypeOK, PagesAssumption
          <6>4. stamp'[q] = new \/ stamp'[q] = stamp[q]
            BY <4>3, <6>1
          <6>5. stamp'[q] \in Int
            BY <6>1, <6>3, <6>4, <4>3, <1>0
          <6> QED BY <6>1, <6>2, <6>5, <1>0
        <5>2. q \notin rows
          <6> SUFFICES ASSUME q \in rows PROVE FALSE
            OBVIOUS
          <6>1. stamp'[q] = new /\ new > clock
            BY <4>3, <5>1
          <6>2. clock' \in Nat /\ new \in Int
            BY <1>0 DEF Restamped, PagesTypeOK, PagesAssumption
          <6> QED BY <6>1, <6>2, <5>1, <2>1, <3>2, <1>0
        <5>3. stamp'[q] = stamp[q]
          BY <4>3, <5>1, <5>2
        <5> QED BY <4>1, <4>2, <5>1, <5>3 DEF Listed
      <4> QED BY <4>4
    <3> QED BY <3>1, <3>2
  <2>3. IsFiniteSet(Ahead)
    BY <1>0, FS_Subset
  <2>4. Cardinality(Ahead') <= Cardinality(Ahead) /\ Cardinality(Ahead) \in Nat /\ Cardinality(Ahead') \in Nat
    BY <2>2, <2>3, FS_Subset, FS_CardinalityType
  <2>5. pages + Cardinality(Ahead) <= Cardinality(Row)
    BY <1>0, <1>3 DEF PagesInv, WalkShrinks
  <2> QED BY <2>4, <2>5, <1>0
<1>4. ASSUME Begun, ~Derails, list = "matches"
      PROVE  pages <= cursor.key /\ cursor.key < Cardinality(Row)
  BY <1>0, <1>4 DEF PagesInv, WalkShrinks
<1>5. WalkShrinks'
  BY <1>0, <1>1, <1>3, <1>4 DEF WalkShrinks
<1> QED BY <1>2, <1>5
-----------------------------------------------------------------------------
(* Every walk keeps the invariant *)

LEMMA PagesInvInit ==
  ASSUME PagesAssumption, PagesInit
  PROVE  PagesInv
<1>1. IsFiniteSet(Row) /\ Cardinality(Row) \in Nat /\ FirstStamp \in Nat /\ LastStamp \in Nat
      /\ FirstStamp <= LastStamp
  BY FS_CardinalityType DEF PagesAssumption
<1>2. /\ pages = 0 /\ finished = FALSE /\ cursor = NoCursor /\ exempt = {}
      /\ clock = FirstStamp /\ stamp \in [Row -> 0..clock] /\ got = [r \in Row |-> 0]
  BY DEF PagesInit
<1>3. key \in [Row -> Key]
  <2>1. (CHOOSE k \in Key : TRUE) \in Key
    BY DEF PagesAssumption
  <2> QED BY <2>1 DEF PagesInit
<1>4. NoCursor \in [key : Int, row : Row \cup {-1}]
  BY DEF NoCursor
<1>5. got \in [Row -> 0..2] /\ \A r \in Row : got[r] = 0
  BY <1>2
<1>6. clock \in FirstStamp..LastStamp /\ pages \in 0..MaxPages
  BY <1>1, <1>2 DEF MaxPages
<1>7. PagesTypeOK
  BY <1>2, <1>3, <1>4, <1>5, <1>6 DEF PagesTypeOK, PagesInit
<1>8. ~Begun
  BY <1>2 DEF Begun
<1>9. WalksEnd
  BY <1>1, <1>2 DEF WalksEnd
<1> QED BY <1>2, <1>5, <1>7, <1>8, <1>9
        DEF PagesInv, WalkBegins, PromisedAreApart, WalkIsOrdered, OffsetIsRank, WalkShrinks

LEMMA PagesInvStep ==
  ASSUME PagesAssumption, PagesInv, [PagesNext]_pagesVars
  PROVE  PagesInv'
<1>1. CASE ReadPage
  <2>1. SameList /\ \E page \in SUBSET Row : PageRead(page)
    BY <1>1, ReadPageReads DEF PagesInv
  <2>2. PICK page \in SUBSET Row : PageRead(page)
    BY <2>1
  <2>3. PagesTypeOK' /\ WalkBegins'
    BY <2>1, <2>2, ReadingKeepsTypes
  <2>4. PromisedAreApart' /\ WalkIsOrdered'
    BY <2>1, <2>2, ReadingKeepsOrder
  <2>5. OffsetIsRank'
    BY <2>1, <2>2, ReadingKeepsRanks
  <2>6. WalkShrinks' /\ WalksEnd'
    BY <2>1, <2>2, ReadingShrinks
  <2> QED BY <2>3, <2>4, <2>5, <2>6 DEF PagesInv
<1>2. ASSUME NEW rows \in SUBSET Row \ {{}}, Save(rows) \/ Withdraw(rows)
      PROVE  PagesInv'
  <2>1. Restamped(rows)
    BY <1>2, SavesRestamp DEF PagesInv
  <2>2. PagesTypeOK' /\ WalkBegins'
    BY <2>1, RestampingKeepsTypes
  <2>3. PromisedAreApart' /\ WalkIsOrdered' /\ OffsetIsRank'
    BY <2>1, RestampingKeepsOrder
  <2>4. WalkShrinks' /\ WalksEnd'
    BY <2>1, RestampingShrinks
  <2> QED BY <2>2, <2>3, <2>4 DEF PagesInv
<1>3. CASE UNCHANGED pagesVars
  <2>1. /\ list' = list /\ limit' = limit /\ key' = key /\ stamp' = stamp /\ clock' = clock
        /\ cursor' = cursor /\ pages' = pages /\ finished' = finished
        /\ got' = got /\ exempt' = exempt
    BY <1>3 DEF pagesVars
  <2>2. Listed' = Listed /\ (Derails' <=> Derails) /\ (Begun' <=> Begun)
    BY <2>1 DEF Listed, Derails, Begun
  <2>3. After(cursor)' = After(cursor)
    BY <2>1, <2>2 DEF After
  <2>4. Ahead' = Ahead
    BY <2>1, <2>3 DEF Ahead
  <2>5. \A r : (Tied(r)' <=> Tied(r)) /\ Preceding(r)' = Preceding(r)
    BY <2>1, <2>2 DEF Tied, Preceding, Before, Newer
  <2>6. PagesTypeOK' /\ WalkBegins' /\ WalksEnd'
    BY <2>1, <2>2 DEF PagesInv, PagesTypeOK, MaxPages, WalkBegins, WalksEnd
  <2>7. PromisedAreApart'
    BY <2>1, <2>2, <2>5 DEF PagesInv, PromisedAreApart
  <2>8. WalkIsOrdered'
    BY <2>1, <2>2, <2>3 DEF PagesInv, WalkIsOrdered
  <2>9. OffsetIsRank'
    BY <2>1, <2>2, <2>5 DEF PagesInv, OffsetIsRank
  <2>10. WalkShrinks'
    BY <2>1, <2>2, <2>4 DEF PagesInv, WalkShrinks
  <2> QED BY <2>6, <2>7, <2>8, <2>9, <2>10 DEF PagesInv
<1> QED BY <1>1, <1>2, <1>3 DEF PagesNext

LEMMA ExactFromInv ==
  ASSUME PagesInv
  PROVE  WalksAreExact
<1> SUFFICES ASSUME NEW r \in Row \ exempt, pages > 0
             PROVE  (finished => got[r] >= 1) /\ (got[r] > 1 => Derails)
  BY DEF WalksAreExact
<1>1. Begun /\ got[r] \in 0..2
  BY DEF Begun, PagesInv, PagesTypeOK
<1>2. CASE list = "matches"
  <2>1. got[r] <= 1 /\ (finished => got[r] = 1)
    BY <1>1, <1>2 DEF PagesInv, OffsetIsRank
  <2> QED BY <1>1, <2>1
<1>3. CASE list # "matches"
  <2>1. (finished => got[r] >= 1) /\ (~Derails => got[r] <= 1)
    BY <1>1, <1>3 DEF PagesInv, WalkIsOrdered
  <2> QED BY <1>1, <2>1
<1> QED BY <1>2, <1>3

\* The cursor of a walk separates what it has returned from what it has not.
THEOREM PagesInvariant == PagesSpec => []PagesInv
<1>1. PagesInit => PagesInv
  BY PagesInvInit, PagesAssumption
<1>2. PagesInv /\ [PagesNext]_pagesVars => PagesInv'
  BY PagesInvStep, PagesAssumption
<1> QED BY <1>1, <1>2, PTL DEF PagesSpec

\* Every row that stays as it was is returned by a walk, once, whatever is saved
\* and withdrawn around it (database.py:2573, 2886, 3011), for any number of
\* rows, of keys and of time stamps and every page size.
THEOREM WalksReturnAllOnce == PagesSpec => []WalksAreExact
BY PagesInvariant, ExactFromInv, PTL

\* A walk that follows its cursors reads at most one page more than there are
\* rows, whatever is saved meanwhile (database.py:2609).
THEOREM WalksComeToAnEnd == PagesSpec => []WalksEnd
BY PagesInvariant, PTL DEF PagesInv

-----------------------------------------------------------------------------
(* Preferences *)

EligibilityInv == EligibilityTypeOK /\ PossiblePosting(posting)

LEMMA EligibilityInvInit ==
  ASSUME EligibilityAssumption, EligibilityInit
  PROVE  EligibilityInv
<1>1. posting \in PostingSignals /\ PossiblePosting(posting)
  BY DEF EligibilityInit
<1>2. persona \in [locations : SUBSET Place, roles : SUBSET Role]
  BY DEF EligibilityInit, EligibilityAssumption
<1>3. wish \in Preferences
  BY DEF EligibilityInit, Preferences, Choice
<1> QED BY <1>1, <1>2, <1>3 DEF EligibilityInv, EligibilityTypeOK

\* An update that stores preferences of their kinds keeps the rest.
LEMMA EligibilityInvUpdate ==
  ASSUME EligibilityInv, NEW m \in Choice, NEW ls \in SUBSET Place, NEW rs \in SUBSET Role,
         Update(m, ls, rs)
  PROVE  EligibilityInv'
BY DEF Update, EligibilityInv, EligibilityTypeOK, Preferences

LEMMA EligibilityInvStep ==
  ASSUME EligibilityAssumption, EligibilityInv, [EligibilityNext]_eligibilityVars
  PROVE  EligibilityInv'
<1>1. /\ wish.mode \in Choice /\ wish.locations \in SUBSET Place
      /\ ShownRoles \in SUBSET Role
  BY DEF EligibilityInv, EligibilityTypeOK, Preferences, ShownRoles, TargetRoles
<1>2. ASSUME NEW m \in Choice, ChooseMode(m)  PROVE EligibilityInv'
  BY <1>1, <1>2, EligibilityInvUpdate DEF ChooseMode
<1>3. ASSUME NEW l \in Wanted, ToggleLocation(l)  PROVE EligibilityInv'
  <2>1. Toggle(l, wish.locations) \in SUBSET Place
    BY <1>1 DEF Toggle, EligibilityAssumption
  <2> QED BY <1>1, <1>3, <2>1, EligibilityInvUpdate DEF ToggleLocation
<1>4. ASSUME NEW r \in Role, ToggleRole(r)  PROVE EligibilityInv'
  <2>1. Toggle(r, ShownRoles) \in SUBSET Role
    BY <1>1 DEF Toggle
  <2> QED BY <1>1, <1>4, <2>1, EligibilityInvUpdate DEF ToggleRole
<1>5. CASE UNCHANGED eligibilityVars
  BY <1>5 DEF eligibilityVars, EligibilityInv, EligibilityTypeOK
<1> QED BY <1>2, <1>3, <1>4, <1>5 DEF EligibilityNext

\* What is said to be open to candidates in India is, or names other countries,
\* or has an office and names India by an abbreviation.
LEMMA OpenFromInv ==
  ASSUME EligibilityAssumption, EligibilityInv
  PROVE  ShownAsOpenIsOpen
<1> SUFFICES ASSUME "India" \in wish.locations, IndiaEligible(posting) = "yes",
                    ~NamesOthers(posting), ~AbbreviatesIndia(posting)
             PROVE  LocationSuits(posting, wish.locations)
  BY DEF ShownAsOpenIsOpen
<1> DEFINE countries == RemoteCountries(posting)
<1>1. /\ countries \subseteq posting.countries /\ IsFiniteSet(posting.countries)
      /\ posting.worldwide \/ countries = posting.countries
  BY DEF RemoteCountries, EligibilityInv, EligibilityTypeOK, PostingSignals,
         EligibilityAssumption
<1>2. WorkMode(posting) \in {"unknown", "hybrid", "onsite", "remote"}
  BY DEF WorkMode, ModeOfWords
<1>3. CASE WorkMode(posting) \in {"hybrid", "onsite"}
  <2>1. "India" \in posting.places
    BY <1>3 DEF AbbreviatesIndia
  <2> QED BY <1>3, <2>1 DEF LocationSuits, MatchesPlace
<1>4. CASE WorkMode(posting) = "remote"
  <2>1. \/ posting.worldwide \/ "India" \in countries \/ "Asia" \in posting.regions
        \/ ~(Cardinality(countries) = 1) /\ ~(Cardinality(countries) > 2)
    BY <1>4 DEF IndiaEligible
  <2>2. CASE posting.worldwide
    BY <1>4, <2>2 DEF LocationSuits, MatchesApplicant, RemoteScope
  <2>3. CASE "India" \in countries
    <3>1. Applies(posting, wish.locations)
      BY <2>3 DEF Applies, EligibilityAssumption
    <3> QED BY <1>4, <3>1 DEF LocationSuits, MatchesApplicant
  <2>4. CASE countries = {}
    BY <1>4, <2>4 DEF LocationSuits, MatchesApplicant
  <2>5. CASE ~posting.worldwide /\ "India" \notin countries /\ countries # {}
    <3>1. countries = posting.countries
      BY <1>1, <2>5
    <3>2. "Asia" \notin posting.regions /\ Cardinality(countries) # 2
      BY <2>5, <3>1 DEF NamesOthers
    <3>3. Cardinality(countries) \in Nat /\ Cardinality(countries) # 0
      <4>1. IsFiniteSet(countries)
        BY <1>1, FS_Subset
      <4> QED BY <2>5, <4>1, FS_CardinalityType, FS_EmptySet
    <3>4. Cardinality(countries) > 2 \/ Cardinality(countries) = 1
      <4> DEFINE n == Cardinality(countries)
      <4> HIDE DEF n
      <4>1. n \in Nat /\ n # 0 /\ n # 2
        BY <3>2, <3>3 DEF n
      <4>2. n > 2 \/ n = 1
        BY <4>1
      <4> QED BY <4>2 DEF n
    <3> QED BY <2>1, <2>5, <3>2, <3>4
  <2> QED BY <2>2, <2>3, <2>4, <2>5
<1>5. CASE WorkMode(posting) = "unknown"
  BY <1>5 DEF IndiaEligible
<1> QED BY <1>2, <1>3, <1>4, <1>5

\* Accepting more arrangements, places or roles keeps what was let through.
LEMMA WiderKeeps ==
  ASSUME NEW p, NEW who, NEW v, NEW w, Wider(who, v, w), IsTarget(p, who, v)
  PROVE  IsTarget(p, who, w)
<1>1. ModeSuits(p, w.mode)
  BY DEF Wider, IsTarget, LocationEligible, ModeSuits
<1>2. LocationSuits(p, w.locations)
  <2> SUFFICES ASSUME w.locations # {}
               PROVE  IF WorkMode(p) = "remote" THEN MatchesApplicant(p, w.locations)
                                                ELSE MatchesPlace(p, w.locations)
    BY DEF LocationSuits
  <2>1. v.locations # {} /\ v.locations \subseteq w.locations
    BY DEF Wider
  <2>2. IF WorkMode(p) = "remote" THEN MatchesApplicant(p, v.locations)
                                  ELSE MatchesPlace(p, v.locations)
    BY <2>1 DEF IsTarget, LocationEligible, LocationSuits
  <2>3. ASSUME MatchesApplicant(p, v.locations)  PROVE MatchesApplicant(p, w.locations)
    BY <2>1, <2>3 DEF MatchesApplicant, Applies
  <2>4. ASSUME MatchesPlace(p, v.locations)  PROVE MatchesPlace(p, w.locations)
    BY <2>1, <2>4 DEF MatchesPlace
  <2> QED BY <2>2, <2>3, <2>4
<1>3. CASE TargetRoles(v, who) = {}
  <2>1. TargetRoles(w, who) = {} \/ who.roles \subseteq TargetRoles(w, who)
    BY <1>3 DEF Wider
  <2>2. ProfileMatches(p, who)
    BY <1>3 DEF IsTarget
  <2>3. TargetRoles(w, who) # {} => RoleSuits(p, TargetRoles(w, who))
    BY <2>1, <2>2 DEF ProfileMatches, RoleSuits
  <2> QED BY <1>1, <1>2, <2>2, <2>3 DEF IsTarget, LocationEligible
<1>4. CASE TargetRoles(v, who) # {}
  <2>1. TargetRoles(v, who) \subseteq TargetRoles(w, who)
    BY <1>4 DEF Wider
  <2>2. RoleSuits(p, TargetRoles(w, who))
    BY <1>4, <2>1 DEF IsTarget, RoleSuits
  <2> QED BY <1>1, <1>2, <1>4, <2>1, <2>2 DEF IsTarget, LocationEligible
<1> QED BY <1>3, <1>4

\* Postings, profiles and preferences stay of their kinds, and only postings
\* without words of their own are known by a board that lists remote jobs.
THEOREM EligibilityInvariant == EligibilitySpec => []EligibilityInv
<1>1. EligibilityInit => EligibilityInv
  BY EligibilityInvInit, EligibilityAssumption
<1>2. EligibilityInv /\ [EligibilityNext]_eligibilityVars => EligibilityInv'
  BY EligibilityInvStep, EligibilityAssumption
<1> QED BY <1>1, <1>2, PTL DEF EligibilitySpec

\* A job that is labelled as open to candidates in India passes the location
\* filter of those who look there (work_arrangement.py:239, 365, 431), for every
\* posting but remote ones that name other countries, and Asia or two of them,
\* and those with an office that name India by an abbreviation only.  What a
\* posting spells out and the countries found in it are independent.
THEOREM OpenIsOpen == EligibilitySpec => []ShownAsOpenIsOpen
<1>1. EligibilityInv => ShownAsOpenIsOpen
  BY OpenFromInv, EligibilityAssumption
<1> QED BY <1>1, EligibilityInvariant, PTL

\* A user who accepts more than before loses no job (work_arrangement.py:397,
\* filter_jobs.py:211, database.py:1366), whatever the posting, the profile and
\* the preferences, and whether roles were ever set.
THEOREM WiderWishesLoseNothing == EligibilitySpec => WiderWishesKeepJobs
<1>1. [EligibilityNext]_eligibilityVars =>
        [Wider(persona, wish, wish') /\ IsTarget(posting, persona, wish)
           => IsTarget(posting, persona, wish')]_eligibilityVars
  BY WiderKeeps
<1> QED BY <1>1, PTL DEF EligibilitySpec, WiderWishesKeepJobs

-----------------------------------------------------------------------------
(* The services together *)

\* Every part of the services behaves as it does alone, so that what is proved of
\* it holds of the services.
THEOREM ServicesAreTheirParts ==
  ServicesSpec => WorkspacesSpec /\ CorpusSpec /\ PagesSpec /\ EligibilitySpec
<1>1. ServicesInit => WorkspacesInit /\ CorpusInit /\ PagesInit /\ EligibilityInit
  BY DEF ServicesInit
<1>2. [ServicesNext]_servicesVars =>
        /\ [WorkspacesNext]_workspaceVars
        /\ [CorpusNext]_corpusVars
        /\ [PagesNext]_pagesVars
        /\ [EligibilityNext]_eligibilityVars
  BY DEF ServicesNext, servicesVars
<1> QED BY <1>1, <1>2, PTL DEF ServicesSpec, WorkspacesSpec, CorpusSpec, PagesSpec, EligibilitySpec

\* Everything the services keep is of its kind, whichever part is in action.
THEOREM ServicesTypesAreKept == ServicesSpec => []ServicesTypeOK
<1>1. ServicesInit => part \in Parts
  BY DEF ServicesInit
<1>2. part \in Parts /\ [ServicesNext]_servicesVars => (part \in Parts)'
  BY DEF ServicesNext, servicesVars
<1>3. /\ part \in Parts /\ WorkspacesTypeOK /\ CorpusTypeOK /\ PagesInv /\ EligibilityInv
      => ServicesTypeOK
  BY ServicesAssumption DEF ServicesTypeOK, PagesInv, EligibilityInv
<1> QED
  BY <1>1, <1>2, <1>3, ServicesAreTheirParts, WorkspacesTypesAreKept, CorpusTypesAreKept,
     PagesInvariant, EligibilityInvariant, PTL DEF ServicesSpec

\* What is checked of the services on an instance holds of them for any number of
\* users, workspaces, executors, postings and rows.
THEOREM ServicesAreSafe ==
  ServicesSpec => /\ [](OneActive /\ MatchesStayHome /\ MatchingLeavesNoGaps /\ ResumesStayHome)
                  /\ [](AvailableIffListed /\ JobsAreDistinct) /\ MissesAreConsecutive
                  /\ [](WalksAreExact /\ WalksEnd)
                  /\ []ShownAsOpenIsOpen /\ WiderWishesKeepJobs
BY ServicesAreTheirParts, OneIsActive, MatchesAreOwn, NoPostingIsSkipped, ResumesAreOwn,
   OfferedIffListed, RolesAreDistinct, ClosedByConsecutiveMisses, WalksReturnAllOnce,
   WalksComeToAnEnd, OpenIsOpen, WiderWishesLoseNothing, PTL
=============================================================================
