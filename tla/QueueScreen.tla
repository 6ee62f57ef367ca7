---------------------------- MODULE QueueScreen ----------------------------
(***************************************************************************)
(* The review queue: pages of pending requests, a dialog that confirms one *)
(* review, the call, and the reload after it. Others review the same queue.*)
(* `mark` is the UI automation, which takes the disappearance of the row   *)
(* for the end of a review it confirmed.                                   *)
(***************************************************************************)
EXTENDS Integers, FiniteSets

CONSTANTS
  NRequests,  \* requests pending at first, 1..NRequests, newest first
  PageSize,   \* rows of a page, at least one
  MaxLoads,   \* bound: questions asked
  None        \* no request, no rows

VARIABLES
  pending,    \* what the database holds as pending
  page,       \* the page in the address
  rows,       \* the requests on screen, or None before the first answer
  loading,
  message,    \* the alert that is drawn: "none" or "load"
  loads,      \* the questions under way, with what the server listed
  asked,
  dialog,     \* the request the dialog names, or None
  reviewing,  \* the request whose review is under way, or None
  answer,     \* the review call: "none", "waiting", "ok", "refused"
  reload,     \* the question confirm waits for, or 0
  acked,      \* history: the requests whose review was confirmed to this screen
  trouble,    \* history: a call failed, questions crossed, or somebody else reviewed
  mark, seen  \* the automation waits for the row of `mark`; it saw `seen` go

screen == <<page, rows, loading, message, loads, asked>>
confirming == <<dialog, reviewing, answer, reload>>
history == <<acked, trouble, mark, seen>>
vars == <<pending, screen, confirming, history>>

Requests == 1..NRequests
Pages == 1..NRequests
PageOf(p) ==
  {r \in pending : Cardinality({x \in pending : x > r}) \in (p - 1) * PageSize .. p * PageSize - 1}

Init ==
  /\ pending = Requests /\ page = 1
  /\ rows = None
  /\ loading = TRUE /\ message = "none"
  /\ loads = {[n |-> 1, page |-> 1, silent |-> FALSE, items |-> None]} /\ asked = 1
  /\ dialog = None /\ reviewing = None /\ answer = "none" /\ reload = 0
  /\ acked = {} /\ trouble = FALSE
  /\ mark = None /\ seen = {}

\* The rows that are rendered: none while loading, or before the first answer.
Rendered == IF loading \/ rows = None THEN {} ELSE rows
-----------------------------------------------------------------------------
\* load: it clears the alert before anything else.
Load(p, silent) ==
  /\ asked' = asked + 1
  /\ loads' = loads \cup {[n |-> asked + 1, page |-> p, silent |-> silent, items |-> None]}
  /\ loading' = (loading \/ ~silent)
  /\ message' = "none"

\* The pagination is part of the rendered queue, and a modal dialog covers it.
ChangePage(p) ==
  /\ asked < MaxLoads
  /\ ~loading /\ rows # None /\ dialog = None /\ p # page
  /\ page' = p
  /\ Load(p, FALSE)
  /\ trouble' = (trouble \/ loads # {})
  /\ UNCHANGED <<pending, rows, confirming, acked, mark, seen>>

\* The API answers with the page as it is now.
List(l) ==
  /\ l.items = None
  /\ loads' = (loads \ {l}) \cup {[l EXCEPT !.items = PageOf(l.page)]}
  /\ UNCHANGED <<pending, page, rows, loading, message, asked, confirming, history>>

\* The end of the load that confirm awaits is the end of confirm.
Continue(l) ==
  IF l.n = reload THEN reload' = 0 /\ reviewing' = None
                  ELSE UNCHANGED <<reload, reviewing>>

\* The answer reaches the screen, or the call fails.
Settle(l) ==
  /\ \/ l.items # None /\ rows' = l.items /\ UNCHANGED <<message, trouble>>
     \/ message' = "load" /\ trouble' = TRUE /\ UNCHANGED rows
  /\ loading' = (loading /\ l.silent)
  /\ loads' = loads \ {l}
  /\ Continue(l)
  /\ UNCHANGED <<pending, page, asked, dialog, answer, acked, mark, seen>>
-----------------------------------------------------------------------------
\* `Revisar` or `Rejeitar`; showModal leaves only the dialog to click on.
OpenDialog(r) ==
  /\ dialog = None
  /\ r \in Rendered /\ reviewing # r
  /\ dialog' = r
  /\ UNCHANGED <<pending, screen, reviewing, answer, reload, history>>

\* Mutant: Esc closes the dialog although it is locked.
Cancel_Unlocked ==
  /\ dialog # None
  /\ dialog' = None
  /\ UNCHANGED <<pending, screen, reviewing, answer, reload, history>>

\* `Cancelar` or Esc; both are locked while a review is under way.
Cancel ==
  /\ dialog # None /\ reviewing = None
  /\ dialog' = None
  /\ UNCHANGED <<pending, screen, reviewing, answer, reload, history>>

\* Mutant: the row goes as soon as the review is confirmed in the dialog.
Confirm_Optimistic ==
  /\ dialog # None /\ reviewing = None /\ asked < MaxLoads
  /\ reviewing' = dialog /\ answer' = "waiting"
  /\ message' = "none"
  /\ mark' = dialog
  /\ rows' = rows \ {dialog}
  /\ UNCHANGED <<pending, page, loading, loads, asked, dialog, reload, acked,
                 trouble, seen>>

\* ConferenciaContent.confirm, up to the call.
Confirm ==
  /\ dialog # None /\ reviewing = None /\ asked < MaxLoads
  /\ reviewing' = dialog /\ answer' = "waiting"
  /\ message' = "none"
  /\ mark' = dialog
  /\ UNCHANGED <<pending, page, rows, loading, loads, asked, dialog, reload,
                 acked, trouble, seen>>

\* The API reviews a pending request and refuses any other (409).
Review ==
  /\ answer = "waiting"
  /\ IF reviewing \in pending
       THEN pending' = pending \ {reviewing} /\ answer' = "ok"
       ELSE answer' = "refused" /\ UNCHANGED pending
  /\ UNCHANGED <<screen, dialog, reviewing, reload, history>>

\* The answer is lost or times out, whatever the API does with the call: a
\* review of it that comes later is as good as another reviewer's.
LoseAnswer ==
  /\ answer \in {"waiting", "ok"}
  /\ answer' = "refused" /\ trouble' = TRUE
  /\ UNCHANGED <<pending, screen, dialog, reviewing, reload, acked, mark, seen>>

OtherReviews(r) ==
  /\ r \in pending
  /\ pending' = pending \ {r} /\ trouble' = TRUE
  /\ UNCHANGED <<screen, confirming, acked, mark, seen>>

\* Mutant: the row is left to the reload.
Reviewed_KeepsRow ==
  /\ answer = "ok"
  /\ answer' = "none" /\ dialog' = None
  /\ Load(page, TRUE) /\ reload' = asked + 1
  /\ acked' = acked \cup {reviewing}
  /\ UNCHANGED <<pending, page, rows, reviewing, trouble, mark, seen>>

\* Success: the row goes at once and a silent reload brings the next one.
Reviewed ==
  /\ answer = "ok"
  /\ answer' = "none" /\ dialog' = None
  /\ rows' = rows \ {reviewing}
  /\ Load(page, TRUE) /\ reload' = asked + 1
  /\ acked' = acked \cup {reviewing}
  /\ UNCHANGED <<pending, page, reviewing, trouble, mark, seen>>

\* Failure: the message is set, and the reload clears it before it is drawn.
Refused ==
  /\ answer = "refused"
  /\ answer' = "none" /\ dialog' = None
  /\ Load(page, FALSE) /\ reload' = asked + 1
  /\ UNCHANGED <<pending, page, rows, reviewing, history>>

\* ConferenciaPage.mark: the row is detached.
SeeRowGone ==
  /\ mark # None /\ mark \notin Rendered
  /\ seen' = seen \cup {mark} /\ mark' = None
  /\ UNCHANGED <<pending, screen, confirming, acked, trouble>>

Arrive == \/ \E l \in loads : List(l) \/ Settle(l)
          \/ Review \/ LoseAnswer \/ Reviewed \/ Refused
Next ==
  \/ Arrive \/ Cancel \/ Confirm \/ SeeRowGone
  \/ \E p \in Pages : ChangePage(p)
  \/ \E r \in Requests : OpenDialog(r) \/ OtherReviews(r)

\* Calls end: the API answers or axios times out.
Spec == Init /\ [][Next]_vars /\ WF_vars(Arrive)
-----------------------------------------------------------------------------
TypeOK ==
  /\ pending \subseteq Requests /\ page \in Pages
  /\ rows = None \/ rows \subseteq Requests
  /\ asked \in 1..(MaxLoads + 1)
  /\ loading \in BOOLEAN /\ message \in {"none", "load"}
  /\ \A l \in loads : /\ l.n \in 1..asked /\ l.page \in Pages /\ l.silent \in BOOLEAN
                      /\ l.items = None \/ l.items \subseteq Requests
  /\ {dialog, reviewing, mark} \subseteq Requests \cup {None}
  /\ answer \in {"none", "waiting", "ok", "refused"} /\ reload \in 0..asked
  /\ acked \subseteq Requests /\ trouble \in BOOLEAN /\ seen \subseteq Requests

\* While a review is under way the dialog names the request it is for, so what
\* is confirmed and what is written are the same (ConfirmDialog's `pending`).
DialogStaysLocked == answer # "none" => dialog = reviewing /\ reviewing # None

\* A row whose review was confirmed never comes back: no answer that the API
\* gave before the review can still reach the screen after it.
ConfirmedRowsStayGone == rows = None \/ acked \cap rows = {}

\* What the automation takes a vanished row for: as long as no call fails, nobody
\* else reviews and no page is changed while a question is under way, the row of a
\* confirmed dialog goes only when the API has confirmed that very review,
\* although each reload hides every row as well.
GoneMeansConfirmed == ~trouble => seen \subseteq acked

\* What is confirmed is what is written, what is written goes for good, and what
\* went was written.
QueueShowsItsReviews == DialogStaysLocked /\ ConfirmedRowsStayGone /\ GoneMeansConfirmed
=============================================================================
