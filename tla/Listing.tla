------------------------------ MODULE Listing ------------------------------
(***************************************************************************)
(* Browsing the list page by page while requests are created and reviewed. *)
(* One page is two queries, the rows (ordered, cut by offset) and the      *)
(* count, and each sees the database of its own moment. With a pool of one *)
(* connection the rows always come first.                                  *)
(***************************************************************************)
EXTENDS Naturals, FiniteSets

CONSTANTS
  MaxRows,    \* bound: rows ever created
  MaxTime,    \* instants that createdAt can have; rows of one instant tie
  PageSize,   \* 1..100 in the schema of the query
  PoolMax     \* DB_POOL_MAX: 1, or more for queries that run side by side

VARIABLES
  at,         \* at[r]: createdAt of row r, or 0 while it does not exist
  dropped,    \* rows a review took out of the filter
  page,       \* the page asked for
  got,        \* the queries of the call in flight that have run
  items,      \* the rows of the page
  total,      \* the count
  call,       \* "asked" or "answered"
  seen,       \* seen[r]: on how many pages of this walk row r was shown
  start,      \* the matching rows when the walk began
  created,    \* history: the rows created since then
  reviewed    \* history: the rows reviewed since then

answer == <<items, total>>
vars == <<at, dropped, page, got, answer, call, seen, start, created, reviewed>>

Rows == 1..MaxRows
Matching == {r \in Rows : at[r] > 0 /\ r \notin dropped}

\* Mutant: without the id the rows of one instant have no order of their own.
Before_ByTimeOnly(r, s) ==
  \/ at[r] > at[s]
  \/ at[r] = at[s] /\ IF page = 1 THEN r > s ELSE s > r

\* orderBy(desc(createdAt), desc(id)): newest first, the id breaks ties.
Before(r, s) ==
  \/ at[r] > at[s]
  \/ at[r] = at[s] /\ r > s

Position(r) == Cardinality({s \in Matching : Before(s, r)})

Offset == (page - 1) * PageSize

\* Mutant: one row too many is fetched.
PageRows_OneMore == {r \in Matching : Position(r) \in Offset .. (Offset + PageSize)}

\* LIMIT pageSize OFFSET offset.
PageRows == {r \in Matching : Position(r) \in Offset .. (Offset + PageSize - 1)}

\* Math.max(Math.ceil(total / pageSize), 1).
TotalPages == IF total = 0 THEN 1 ELSE (total + PageSize - 1) \div PageSize

Init ==
  /\ at \in [Rows -> 0..MaxTime]
  /\ dropped = {}
  /\ page = 1 /\ got = {} /\ items = {} /\ total = 0 /\ call = "asked"
  /\ seen = [r \in Rows |-> 0]
  /\ start = Matching /\ created = {} /\ reviewed = {}
-----------------------------------------------------------------------------
\* A transaction commits with the instant it began at: not always the newest.
Create(r) ==
  /\ at[r] = 0
  /\ \E t \in 1..MaxTime : at' = [at EXCEPT ![r] = t]
  /\ created' = created \cup {r}
  /\ UNCHANGED <<dropped, page, got, answer, call, seen, start, reviewed>>

\* A review changes the status, and the row no longer matches the filter.
Review(r) ==
  /\ r \in Matching
  /\ dropped' = dropped \cup {r}
  /\ reviewed' = reviewed \cup {r}
  /\ UNCHANGED <<at, page, got, answer, call, seen, start, created>>

\* The query of the rows.
SelectRows ==
  /\ call = "asked" /\ "rows" \notin got
  /\ items' = PageRows
  /\ got' = got \cup {"rows"}
  /\ UNCHANGED <<at, dropped, page, total, call, seen, start, created, reviewed>>

\* Mutant: the two queries run side by side on one connection too.
SelectCount_SideBySide ==
  /\ call = "asked" /\ "count" \notin got
  /\ total' = Cardinality(Matching)
  /\ got' = got \cup {"count"}
  /\ UNCHANGED <<at, dropped, page, items, call, seen, start, created, reviewed>>

\* The count; on one connection it waits for the rows.
SelectCount ==
  /\ call = "asked" /\ "count" \notin got
  /\ PoolMax > 1 \/ "rows" \in got
  /\ total' = Cardinality(Matching)
  /\ got' = got \cup {"count"}
  /\ UNCHANGED <<at, dropped, page, items, call, seen, start, created, reviewed>>

\* The page is shown.
Answer ==
  /\ call = "asked" /\ got = {"rows", "count"}
  /\ call' = "answered"
  /\ seen' = [r \in Rows |-> IF r \in items THEN seen[r] + 1 ELSE seen[r]]
  /\ UNCHANGED <<at, dropped, page, got, answer, start, created, reviewed>>

\* Mutant: `Proxima` is never disabled.
NextPage_NeverDisabled ==
  /\ call = "answered"
  /\ page' = page + 1 /\ got' = {} /\ call' = "asked"
  /\ UNCHANGED <<at, dropped, answer, seen, start, created, reviewed>>

\* `Proxima`, disabled on the last page of the answer shown.
NextPage ==
  /\ call = "answered" /\ page < TotalPages
  /\ page' = page + 1 /\ got' = {} /\ call' = "asked"
  /\ UNCHANGED <<at, dropped, answer, seen, start, created, reviewed>>

\* A filter or a page size sends the walk back to the first page.
FirstPage ==
  /\ call = "answered"
  /\ page' = 1 /\ got' = {} /\ call' = "asked"
  /\ seen' = [r \in Rows |-> 0] /\ start' = Matching /\ created' = {} /\ reviewed' = {}
  /\ UNCHANGED <<at, dropped, answer>>

Next ==
  \/ \E r \in Rows : Create(r) \/ Review(r)
  \/ SelectRows \/ SelectCount \/ Answer \/ NextPage \/ FirstPage

Spec == Init /\ [][Next]_vars
-----------------------------------------------------------------------------
TypeOK ==
  /\ at \in [Rows -> 0..MaxTime] /\ dropped \subseteq Rows
  /\ page \in 1..MaxRows
  /\ got \subseteq {"rows", "count"} /\ call \in {"asked", "answered"}
  /\ items \subseteq Rows /\ total \in 0..MaxRows
  /\ seen \in [Rows -> Nat] /\ start \subseteq Rows
  /\ created \subseteq Rows /\ reviewed \subseteq Rows

\* The walk is over: the last page of its last answer is on screen.
WalkEnds == call = "answered" /\ page >= TotalPages

\* While nothing changes, a walk to the end shows every request once: no tie of
\* createdAt puts one on two pages and none on the other (the comment on orderBy).
QuietWalkIsExact ==
  WalkEnds /\ created = {} /\ reviewed = {} =>
    \A r \in Rows : seen[r] = IF r \in start THEN 1 ELSE 0

\* Every request of the start that a walk to the end never shows has a review of its own
\* behind it, however many requests are created meanwhile: an offset loses at most one
\* row to each review, none to a creation. It needs the count after the rows.
SkipsNeedReviews ==
  WalkEnds => Cardinality({r \in start : seen[r] = 0}) <= Cardinality(reviewed)

\* Every request a walk shows twice has a creation of its own behind it, however many
\* are reviewed meanwhile: an offset repeats at most one row for each creation.
RepeatsNeedCreations == Cardinality({r \in Rows : seen[r] > 1}) <= Cardinality(created)

\* `firstItem-lastItem de total` counts the rows under it while nothing changes.
FirstItem == IF total = 0 THEN 0 ELSE Offset + 1
LastItem == IF page * PageSize < total THEN page * PageSize ELSE total
SummaryCountsRows ==
  call = "answered" /\ created = {} /\ reviewed = {} =>
    Cardinality(items) = IF total = 0 THEN 0 ELSE LastItem - FirstItem + 1

\* What a walk through the pages shows, by what happened meanwhile.
WalkShowsTheRows ==
  QuietWalkIsExact /\ SkipsNeedReviews /\ RepeatsNeedCreations /\ SummaryCountsRows
=============================================================================
