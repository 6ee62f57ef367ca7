------------------------------- MODULE Screens -------------------------------
(***************************************************************************)
(* The backoffice as one tab shows it: one screen at a time, each with its *)
(* own state, its own calls and whoever drives it. A behaviour is that of  *)
(* the screen it starts with; the others stay as they are. "session" is    *)
(* the provider around all of them, alone in its tab.                      *)
(***************************************************************************)
EXTENDS Integers, Sequences, FiniteSets

CONSTANTS
  Statuses, Texts, MaxPage, Sizes, DefaultSize, MaxListLoads,         \* the list
  NRequests, PageSize, MaxQueueLoads,                                 \* the queue
  Fields, Drafts, Blank, LocalIssues, RouteIssues, MaxPosts, MaxForms,  \* the creation
  MaxReads,                                                           \* the detail
  Services, Auth, MaxRounds,                                          \* the status
  Tab, Tokens, Logouts, MaxOpens,                                     \* the session
  None        \* no request, no rows, no filter, no token, no call

VARIABLES
  screen,   \* the screen that is on
  addr, params, text, typing, listRows, loadedQuery, listLoading, listError,
  listLoads, listAsked, landed, listTest, before,
  pending, queuePage, queueRows, queueLoading, message, queueLoads, queueAsked,
  dialog, reviewing, answer, reload, acked, trouble, mark, seenGone,
  form, mounted, draft, fieldErrors, formError, created, submitting, posts,
  attempted,
  row, calls, detail, error, refreshing, timelineError, asked,
  service, statusAccess, round, reply, me, probes, identity, loading, shownRound,
  seen, test,
  stored, user, restoring, access, page, sent, doomed, strays, live, used, opens,
  causes

listVars == <<addr, params, text, typing, listRows, loadedQuery, listLoading, listError,
           listLoads, listAsked, landed, listTest, before>>
queueVars == <<pending, queuePage, queueRows, queueLoading, message, queueLoads, queueAsked,
           dialog, reviewing, answer, reload, acked, trouble, mark, seenGone>>
createVars == <<form, mounted, draft, fieldErrors, formError, created, submitting, posts,
           attempted>>
detailVars == <<row, calls, detail, error, refreshing, timelineError, asked>>
statusVars == <<service, statusAccess, round, reply, me, probes, identity, loading, shownRound,
           seen, test>>
sessionVars == <<stored, user, restoring, access, page, sent, doomed, strays, live, used, opens,
           causes>>
vars == <<screen, listVars, queueVars, createVars, detailVars, statusVars, sessionVars>>

\* The list of requests.
List == INSTANCE ListScreen WITH
  MaxLoads <- MaxListLoads,
  rows <- listRows, loading <- listLoading, error <- listError, loads <- listLoads,
  asked <- listAsked, test <- listTest

\* The review queue.
Queue == INSTANCE QueueScreen WITH
  MaxLoads <- MaxQueueLoads,
  page <- queuePage, rows <- queueRows, loading <- queueLoading, loads <- queueLoads,
  asked <- queueAsked, seen <- seenGone

\* The form of a new request.
Create == INSTANCE CreateScreen WITH MaxCalls <- MaxPosts, open <- mounted, calls <- posts

\* One request with its trail.
Detail == INSTANCE DetailScreen WITH MaxCalls <- MaxReads

\* The services and the identity.
Status == INSTANCE StatusScreen WITH access <- statusAccess

\* The session of one tab, which idles like any other.
Session == INSTANCE BrowserSession WITH Tabs <- {Tab}, Idle <- {Tab}, loading <- restoring

\* A query has a page and one of the sizes; None is no answer and no filter.
ASSUME ListSizes ==
  /\ MaxPage \in Nat \ {0} /\ DefaultSize \in Sizes
  /\ None \notin List!Result

\* A queue of some length, in pages of a row at least; None is no request and no rows.
ASSUME QueueSizes ==
  /\ NRequests \in Nat \ {0} /\ PageSize \in Nat \ {0} /\ MaxQueueLoads \in Nat
  /\ None \notin 1..NRequests /\ \A S \in SUBSET (1..NRequests) : None # S

\* What the two schemas say of a draft is about its fields.
ASSUME DraftIssues ==
  /\ Blank \in Drafts
  /\ LocalIssues \in [Drafts -> SUBSET Fields] /\ RouteIssues \in [Drafts -> SUBSET Fields]

\* A visit has room for a call, a form and a round; bliss-auth is a service.
ASSUME VisitSizes ==
  /\ MaxPosts \in Nat /\ MaxForms \in Nat \ {0} /\ MaxReads \in Nat \ {0}
  /\ Auth \in Services /\ MaxRounds \in Nat \ {0}

Screens == {"list", "queue", "create", "detail", "status", "session"}

\* The screens that are not on have one state only.
Init ==
  /\ screen \in Screens
  /\ List!Init /\ (screen # "list" => addr = List!NoQuery /\ listTest = "off")
  /\ Queue!Init /\ Create!Init /\ Session!Init
  /\ Detail!Init /\ (screen # "detail" => row = Detail!Undecided)
  /\ Status!Init /\ (screen # "status" => \A s \in DOMAIN service : service[s] = "ok")

Next ==
  \/ screen = "list" /\ List!Next
     /\ UNCHANGED <<screen, queueVars, createVars, detailVars, statusVars, sessionVars>>
  \/ screen = "queue" /\ Queue!Next
     /\ UNCHANGED <<screen, listVars, createVars, detailVars, statusVars, sessionVars>>
  \/ screen = "create" /\ Create!Next
     /\ UNCHANGED <<screen, listVars, queueVars, detailVars, statusVars, sessionVars>>
  \/ screen = "detail" /\ Detail!Next
     /\ UNCHANGED <<screen, listVars, queueVars, createVars, statusVars, sessionVars>>
  \/ screen = "status" /\ Status!Next
     /\ UNCHANGED <<screen, listVars, queueVars, createVars, detailVars, sessionVars>>
  \/ screen = "session" /\ Session!Next
     /\ UNCHANGED <<screen, listVars, queueVars, createVars, detailVars, statusVars>>

\* Each screen's own fairness, while it is on.
Fairness ==
  /\ WF_listVars(screen = "list" /\ List!Rerender)
  /\ WF_listVars(screen = "list" /\ List!Settle)
  /\ WF_listVars(screen = "list" /\ List!TestWaits)
  /\ WF_queueVars(screen = "queue" /\ Queue!Arrive)
  /\ \A k \in 1..MaxPosts :
       WF_createVars(screen = "create" /\ k \in DOMAIN posts /\ (Create!Answer(k) \/ Create!Lose(k)))
  /\ \A k \in 1..MaxReads : WF_detailVars(screen = "detail" /\ k \in Detail!Sent /\ Detail!Settle(k))
  /\ WF_statusVars(screen = "status" /\ Status!Show)
  /\ WF_statusVars(screen = "status" /\ Status!Me)
  /\ \A s \in Services : WF_statusVars(screen = "status" /\ Status!Probe(s))
  /\ \A op \in Session!Ops :
       /\ WF_sessionVars(screen = "session" /\ Session!Timeout(Tab, op))
       /\ WF_sessionVars(screen = "session" /\ Session!LogoutEnds(Tab, op))
  /\ WF_sessionVars(screen = "session" /\ Session!RestoreEnds(Tab))
  /\ WF_sessionVars(screen = "session" /\ Session!LoginEnds(Tab))

Spec == Init /\ [][Next]_vars /\ Fairness
-----------------------------------------------------------------------------
\* The list: it says of which question its rows are, the last answer stays, and a
\* wait of the automation ends on the rows it waits for.
ListShowsItsAnswers == List!ListShowsItsAnswers

\* The queue: what the dialog names is what is written, its row goes for good, and
\* a row that goes was written (what the automation takes its going for).
QueueShowsItsReviews == Queue!QueueShowsItsReviews

\* The creation: a confirmation is of a stored request, errors are of the last
\* submission, and two requests of one form mean a lost answer.
FormTellsItsOutcome == Create!FormTellsItsOutcome

\* The detail: a refresh brings the review with its event and takes nothing away.
RefreshOnlyAdds == Detail!RefreshOnlyAdds

\* The status: the test reads the round it waited for, and all of it.
TestReadsItsRound == Status!TestReadsItsRound

\* No screen says "Carregando" for good, however its calls end.
Loading ==
  CASE screen = "list" -> listLoading
    [] screen = "queue" -> queueLoading
    [] screen = "status" -> loading
    [] screen = "session" -> restoring[Tab]
    [] OTHER -> FALSE
LoadingEnds == Loading ~> ~Loading

\* Nothing that was begun stays begun: a confirmation, a submission, a refresh, a
\* logout, and a wait of the automation.
Busy ==
  CASE screen = "list" -> listTest \in {"address", "query"}
    [] screen = "queue" -> reviewing # None
    [] screen = "create" -> submitting /\ mounted
    [] screen = "detail" -> refreshing
    [] screen = "session" -> \E op \in Logouts : sent[Tab][op] # None
    [] OTHER -> FALSE
Free ==
  CASE screen = "list" -> listTest \in {"reading", "failed"}
    [] screen = "session" -> ~user[Tab]
    [] OTHER -> ~Busy
BusyEnds == Busy ~> Free

\* No screen waits for good, however its calls end.
NothingHangs == LoadingEnds /\ BusyEnds
=============================================================================
