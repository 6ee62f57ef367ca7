----------------------------- MODULE ListScreen -----------------------------
(***************************************************************************)
(* The list of requests: its filters and its page live in the address, the *)
(* screen asks for every new address, and the answers of two questions may *)
(* come in any order. A person uses the controls, or the UI automation     *)
(* does and waits for the mark (data-query) that names what is on screen.  *)
(***************************************************************************)
EXTENDS Naturals, FiniteSets

CONSTANTS
  Statuses,   \* values of the filters with a list (status, priority)
  Texts,      \* what can be typed as the requester
  MaxPage,    \* bound: pages of an answer
  Sizes,      \* page sizes offered
  DefaultSize,\* one of them, which is left out of the address
  MaxLoads,   \* bound: questions asked
  None        \* no filter, no answer yet

VARIABLES
  addr,       \* the query in the address bar
  params,     \* the query the screen was last rendered with
  text,       \* the text in the requester field
  typing,     \* the field has the focus
  rows,       \* the answer on screen: the query it is for and its pages, or None
  loadedQuery,\* the query announced for those rows
  loading,
  error,      \* a failure is shown
  loads,      \* the questions under way
  asked,      \* how many questions were asked
  landed,     \* history: the question that was settled last and how
  test,       \* the automation: "off", "address", "query", "reading", "failed"
  before      \* the address the automation saw before its action

screen == <<rows, loadedQuery, loading, error, loads, asked, landed>>
vars == <<addr, params, text, typing, screen, test, before>>

Query == [status : Statuses \cup {None}, createdBy : Texts \cup {None},
          size : Sizes, page : 1..MaxPage]
NoQuery == [status |-> None, createdBy |-> None, size |-> DefaultSize, page |-> 1]
Result == [query : Query, pages : 0..MaxPage]

\* Every address is a legal start: filters and pages can be linked to. The
\* automation starts by waiting for its own query (RequestsListPage.goto).
Init ==
  /\ addr \in Query /\ params = addr
  /\ text = addr.createdBy /\ typing = FALSE
  /\ rows = None /\ loadedQuery = NoQuery
  /\ loading = TRUE /\ error = FALSE
  /\ loads = {[n |-> 1, query |-> addr]} /\ asked = 1
  /\ landed = [n |-> 0, ok |-> FALSE]
  /\ test \in {"off", "query"} /\ before = addr

\* The mark: empty while loading, and empty for the empty query.
Announced == IF loading THEN NoQuery ELSE loadedQuery
-----------------------------------------------------------------------------
\* RequestsFilters.update: from the rendered query, back on the first page.
Filter(field, v) == addr' = [params EXCEPT ![field] = v, !.page = 1]

\* RequestsPagination: the targets follow the answer on screen, the rest of
\* the query follows the last render.
PageTargets == {p \in 1..MaxPage : p <= rows.pages \/ p = rows.query.page - 1}
GoTo == rows # None /\ rows.pages > 1
        /\ \E p \in PageTargets : addr' = [params EXCEPT !.page = p]
ChangeSize(s) == rows # None /\ addr' = [params EXCEPT !.size = s, !.page = 1]

\* One control other than the requester field. `Limpar` leaves the field alone.
Press ==
  /\ ~typing /\ asked < MaxLoads
  /\ \/ \E s \in Statuses \cup {None} : Filter("status", s)
     \/ GoTo
     \/ \E s \in Sizes : ChangeSize(s)
     \/ addr' = NoQuery
  /\ UNCHANGED <<text, typing>>

Type(t) ==
  /\ asked < MaxLoads
  /\ text' = t /\ typing' = TRUE
  /\ UNCHANGED addr

\* The field filters when the focus leaves it, whether or not it changed.
Blur == typing /\ Filter("createdBy", text) /\ typing' = FALSE /\ UNCHANGED text

Use == Press \/ (\E t \in Texts \cup {None} : Type(t)) \/ Blur
-----------------------------------------------------------------------------
\* Mutant: the effect does not depend on the query.
Rerender_WithoutLoad ==
  /\ params # addr
  /\ params' = addr
  /\ UNCHANGED <<addr, text, typing, screen, test, before>>

\* The router notices the new address, and the effect asks for it.
Rerender ==
  /\ params # addr
  /\ params' = addr
  /\ asked' = asked + 1
  /\ loads' = loads \cup {[n |-> asked + 1, query |-> addr]}
  /\ loading' = TRUE /\ error' = FALSE
  /\ UNCHANGED <<addr, text, typing, rows, loadedQuery, landed, test, before>>

\* Mutant: the mark is read from the address, as an earlier version did.
Answer_MarksAddress(l) ==
  /\ \E k \in 0..MaxPage : rows' = [query |-> l.query, pages |-> k]
  /\ loadedQuery' = addr
  /\ loading' = FALSE
  /\ loads' = loads \ {l} /\ landed' = [n |-> l.n, ok |-> TRUE]
  /\ UNCHANGED <<addr, params, text, typing, error, asked, test, before>>

\* An answer comes: rows, mark and end of loading are one render.
Answer(l) ==
  /\ \E k \in 0..MaxPage : rows' = [query |-> l.query, pages |-> k]
  /\ loadedQuery' = l.query
  /\ loading' = FALSE
  /\ loads' = loads \ {l} /\ landed' = [n |-> l.n, ok |-> TRUE]
  /\ UNCHANGED <<addr, params, text, typing, error, asked, test, before>>

\* Mutant: without the finally, a failed question leaves the screen loading.
Failure_NoFinally(l) ==
  /\ error' = TRUE
  /\ loads' = loads \ {l} /\ landed' = [n |-> l.n, ok |-> FALSE]
  /\ UNCHANGED <<addr, params, text, typing, rows, loadedQuery, loading, asked, test,
                 before>>

\* The call fails or times out: the rows before it stay.
Failure(l) ==
  /\ error' = TRUE
  /\ loading' = FALSE
  /\ loads' = loads \ {l} /\ landed' = [n |-> l.n, ok |-> FALSE]
  /\ UNCHANGED <<addr, params, text, typing, rows, loadedQuery, asked, test, before>>

Settle == \E l \in loads : Answer(l) \/ Failure(l)
-----------------------------------------------------------------------------
\* aoMudarConsulta: remember the address, act, ...
TestActs ==
  /\ test = "reading" /\ Use
  /\ before' = addr
  /\ test' = IF typing' THEN "reading" ELSE "address"
  /\ UNCHANGED <<params, screen>>

\* ... poll until the address is another one, ...
TestSeesAddress ==
  /\ test = "address" /\ addr # before
  /\ test' = "query"
  /\ UNCHANGED <<addr, params, text, typing, screen, before>>

\* Mutant: the mark is not compared, the end of loading is enough.
TestSeesQuery_AnyQuery ==
  /\ test = "query" /\ ~loading
  /\ test' = "reading"
  /\ UNCHANGED <<addr, params, text, typing, screen, before>>

\* ... then until the mark is the query of the address.
TestSeesQuery ==
  /\ test = "query" /\ Announced = addr
  /\ test' = "reading"
  /\ UNCHANGED <<addr, params, text, typing, screen, before>>

\* The polls time out long after the last call has ended.
TestGivesUp ==
  /\ loads = {} /\ params = addr
  /\ \/ test = "address" /\ addr = before
     \/ test = "query" /\ Announced # addr
  /\ test' = "failed"
  /\ UNCHANGED <<addr, params, text, typing, screen, before>>

PersonUses == test = "off" /\ Use /\ UNCHANGED <<params, screen, test, before>>

TestWaits == TestSeesAddress \/ TestSeesQuery \/ TestGivesUp

Next == PersonUses \/ TestActs \/ TestWaits \/ Rerender \/ Settle

\* A render is never put off for good, every call ends (axios times out), and
\* the polls of the automation run until they hold or time out.
Spec == Init /\ [][Next]_vars /\ WF_vars(Rerender) /\ WF_vars(Settle) /\ WF_vars(TestWaits)
-----------------------------------------------------------------------------
TypeOK ==
  /\ {addr, params, loadedQuery, before} \subseteq Query
  /\ text \in Texts \cup {None} /\ typing \in BOOLEAN
  /\ rows \in Result \cup {None}
  /\ loading \in BOOLEAN /\ error \in BOOLEAN
  /\ asked \in 1..(MaxLoads + 1)   \* a blur may follow the last question
  /\ loads \subseteq [n : 1..asked, query : Query]
  /\ landed \in [n : 0..asked, ok : BOOLEAN]
  /\ test \in {"off", "address", "query", "reading", "failed"}

\* What the mark announces is what is on screen, whatever the address says by
\* now and whichever answers came late (the comment on data-query).
MarkNamesRows == Announced # NoQuery => rows # None /\ rows.query = Announced

\* Nothing is under way and the screen is rendered with its address.
Settled == loads = {} /\ params = addr

\* Once all is quiet the screen shows the outcome of its newest question, if
\* that was also the last to be settled: its rows, or the failure.
LastAnswerStays ==
  Settled /\ landed.n = asked =>
    /\ ~loading
    /\ landed.ok => rows # None /\ rows.query = addr
    /\ ~landed.ok => error

\* A wait of the automation that ends on a mark ends with the rows of that very
\* query on screen. Only the empty mark says nothing: it is that of a screen that
\* loads, too.
WaitEndsOnItsRows ==
  [][test = "query" /\ test' = "reading" /\ addr # NoQuery
       => rows # None /\ rows.query = addr]_vars

\* However many questions overlap, the list says of which one its rows are, and
\* whoever waits for its own gets them.
ListShowsItsAnswers == []MarkNamesRows /\ []LastAnswerStays /\ WaitEndsOnItsRows
=============================================================================
