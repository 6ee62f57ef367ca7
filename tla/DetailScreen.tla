---------------------------- MODULE DetailScreen ----------------------------
(***************************************************************************)
(* The screen of one request and its audit trail. bliss-requests answers   *)
(* the first load and bliss-reviews each refresh, both by two statements   *)
(* in no transaction, while somebody else may decide the request; answers  *)
(* may be lost or late.                                                    *)
(***************************************************************************)
EXTENDS Integers, Sequences

CONSTANTS MaxCalls    \* bound: calls of one visit

VARIABLES
  row,        \* what the tables hold: whether the request is decided; its trail has
              \* one event, and a second one when it is (see RequestLifecycle)
  calls,      \* each call: what it asks for, its two reads, and where it stands
  detail,     \* what the page shows: status and number of events, or Nothing
  error, refreshing, timelineError,   \* the state of the page
  asked       \* history: whether the request was decided when the refresh was sent

page == <<detail, error, refreshing, timelineError>>
vars == <<row, calls, detail, error, refreshing, timelineError, asked>>

Undecided == [decided |-> FALSE, events |-> 1]
Decided == [decided |-> TRUE, events |-> 2]
Nothing == [decided |-> FALSE, events |-> 0]

Call(what) == [what |-> what, step |-> "row", got |-> Nothing]

Init ==
  /\ row \in {Undecided, Decided}
  /\ calls = <<Call("load")>>
  /\ detail = Nothing /\ error = FALSE /\ refreshing = FALSE /\ timelineError = FALSE
  /\ asked = FALSE

DetailShown == ~error /\ detail # Nothing
Sent == {k \in DOMAIN calls : calls[k].step # "over"}
-----------------------------------------------------------------------------
\* Mutant: the button stays enabled.
RefreshTimeline_Enabled ==
  /\ DetailShown /\ Len(calls) < MaxCalls
  /\ refreshing' = TRUE /\ timelineError' = FALSE
  /\ calls' = Append(calls, Call("timeline"))
  /\ asked' = row.decided
  /\ UNCHANGED <<row, detail, error>>

\* "Recarregar trilha", disabled while a refresh is under way.
RefreshTimeline ==
  /\ DetailShown /\ ~refreshing /\ Len(calls) < MaxCalls
  /\ refreshing' = TRUE /\ timelineError' = FALSE
  /\ calls' = Append(calls, Call("timeline"))
  /\ asked' = row.decided
  /\ UNCHANGED <<row, detail, error>>

\* The review of somebody else: row and event in one transaction.
Review ==
  /\ row = Undecided /\ row' = Decided
  /\ UNCHANGED <<calls, page, asked>>

\* getById and getTimeline: the row first.
FindById(k) ==
  /\ calls[k].step = "row"
  /\ calls' = [calls EXCEPT ![k].step = "events", ![k].got.decided = row.decided]
  /\ UNCHANGED <<row, page, asked>>

\* Mutant: the events are read first.
FindEvents_First(k) ==
  /\ calls[k].step \in {"row", "events"}
  /\ calls' = [calls EXCEPT ![k].step = IF @ = "row" THEN "events" ELSE "answer",
                            ![k].got = IF calls[k].step = "row" THEN [@ EXCEPT !.events = row.events]
                                       ELSE [@ EXCEPT !.decided = row.decided]]
  /\ UNCHANGED <<row, page, asked>>

FindEvents(k) ==
  /\ calls[k].step = "events"
  /\ calls' = [calls EXCEPT ![k].step = "answer", ![k].got.events = row.events]
  /\ UNCHANGED <<row, page, asked>>

Over(k) == calls' = [calls EXCEPT ![k].step = "over"]

\* Mutant: the first detail stays.
Answer_KeepsFirst(k) ==
  /\ calls[k].step = "answer" /\ Over(k)
  /\ detail' = IF detail = Nothing THEN calls[k].got ELSE detail
  /\ refreshing' = (refreshing /\ calls[k].what # "timeline")
  /\ UNCHANGED <<row, error, timelineError, asked>>

\* setDetail, and the finally of a refresh.
Answer(k) ==
  /\ calls[k].step = "answer" /\ Over(k)
  /\ detail' = calls[k].got
  /\ refreshing' = (refreshing /\ calls[k].what # "timeline")
  /\ UNCHANGED <<row, error, timelineError, asked>>

\* Mutant: a failed refresh takes the place of the detail.
Failure_TakesThePage(k) ==
  /\ calls[k].step # "over" /\ Over(k)
  /\ error' = TRUE /\ refreshing' = FALSE
  /\ UNCHANGED <<row, detail, timelineError, asked>>

\* An error of any kind, or no answer in time: a load leaves the error in place of
\* the detail for good, a refresh a message under the trail it could not renew.
Failure(k) ==
  /\ calls[k].step # "over" /\ Over(k)
  /\ IF calls[k].what = "load" THEN error' = TRUE /\ UNCHANGED <<refreshing, timelineError>>
     ELSE timelineError' = TRUE /\ refreshing' = FALSE /\ UNCHANGED error
  /\ UNCHANGED <<row, detail, asked>>

Settle(k) == FindById(k) \/ FindEvents(k) \/ Answer(k) \/ Failure(k)

Next == RefreshTimeline \/ Review \/ \E k \in Sent : Settle(k)

\* Every call of the browser ends, by its timeout at the latest.
Spec == Init /\ [][Next]_vars /\ \A k \in 1..MaxCalls : WF_vars(k \in Sent /\ Settle(k))
-----------------------------------------------------------------------------
TypeOK ==
  /\ row \in {Undecided, Decided}
  /\ Len(calls) \in 1..MaxCalls
  /\ \A k \in DOMAIN calls :
       /\ calls[k].what \in {"load", "timeline"}
       /\ calls[k].step \in {"row", "events", "answer", "over"}
       /\ calls[k].got \in [decided : BOOLEAN, events : 0..2]
  /\ detail \in [decided : BOOLEAN, events : 0..2]
  /\ {error, refreshing, timelineError, asked} \subseteq BOOLEAN

\* A decision on screen has the event that explains it under it; the event may be
\* there before the decision, in the row that was read first.
DecisionHasItsEvent == detail.decided => detail.events = 2

\* "E esta chamada que traz o evento novo sem recarregar a pagina": a refresh that
\* was sent after the review shows it, decision and event, unless it says that it
\* failed.
RefreshBringsTheReview ==
  DetailShown /\ ~refreshing /\ asked /\ ~timelineError => detail = Decided

\* The trail on screen never loses an event it has shown.
TrailNeverShrinks == [][detail'.events >= detail.events]_vars

\* A detail once on screen stays: a refresh that fails leaves what was there.
DetailStays == [][DetailShown => DetailShown']_vars

\* In whatever order loads and refreshes are answered, the page only gains.
RefreshOnlyAdds ==
  []DecisionHasItsEvent /\ []RefreshBringsTheReview /\ TrailNeverShrinks /\ DetailStays
=============================================================================
