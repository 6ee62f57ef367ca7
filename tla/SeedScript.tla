----------------------------- MODULE SeedScript -----------------------------
(***************************************************************************)
(* The seed: one process that empties the tables and fills them again, one *)
(* statement at a time and in no transaction. It runs after every          *)
(* deployment, against an API that is already up, and any run of it may be *)
(* cut short.                                                              *)
(***************************************************************************)
EXTENDS Integers, Sequences, SequencesExt

CONSTANTS
  Runs,         \* processes that run the seed
  Items,        \* the status of each seeded request, in order
  MaxRows,      \* bound: rows ever inserted into requests
  Nobody        \* no run

VARIABLES
  accounts,  \* the run that inserted the rows of users, or Nobody: there are none
  requests,  \* the rows of requests in the order of their inserts, each with its
             \* status and its trail: its rows of request_events, oldest first
  pc,        \* what each run does next
  item, row, \* the item a run is at; where its row is, or 0 once it was deleted
  alone      \* history: nobody else has written since this run began

database == <<accounts, requests>>
script == <<item, row>>
vars == <<database, pc, script, alone>>

Event(type, from, to) == [type |-> type, from |-> from, to |-> to]
Created == Event("created", "none", "open")
isReviewed(s) == s \in {"reviewed", "rejected"}
Decided(s) == Event(IF isReviewed(s) THEN "reviewed" ELSE "status_changed", "open", s)

Running(s) == pc[s] \notin {"idle", "done", "failed"}
GoTo(s, where) == pc' = [pc EXCEPT ![s] = where]
Exit(s, how) == GoTo(s, how) /\ item' = [item EXCEPT ![s] = 1] /\ row' = [row EXCEPT ![s] = 0]
\* Whoever writes, the runs of the others are not alone any more.
WrittenBy(s) == alone' = [t \in Runs |-> alone[t] /\ t = s]

Init ==
  /\ accounts = Nobody /\ requests = <<>>
  /\ pc = [s \in Runs |-> "idle"]
  /\ item = [s \in Runs |-> 1] /\ row = [s \in Runs |-> 0]
  /\ alone = [s \in Runs |-> FALSE]
-----------------------------------------------------------------------------
\* A run begins, the first one or one more.
Start(s) ==
  /\ pc[s] \in {"idle", "done", "failed"}
  /\ GoTo(s, "clean_events")
  /\ alone' = [alone EXCEPT ![s] = \A t \in Runs \ {s} : ~Running(t)]
  /\ UNCHANGED <<database, script>>

DeleteEvents(s) ==
  /\ pc[s] = "clean_events"
  /\ requests' = [i \in DOMAIN requests |-> [requests[i] EXCEPT !.trail = <<>>]]
  /\ GoTo(s, "clean_requests") /\ WrittenBy(s)
  /\ UNCHANGED <<accounts, script>>

\* Mutant: only the users and the events are emptied.
DeleteRequests_Forgotten(s) ==
  /\ pc[s] = "clean_requests"
  /\ GoTo(s, "clean_users") /\ WrittenBy(s)
  /\ UNCHANGED <<database, script>>

\* The events of these requests go with them: the foreign key cascades.
DeleteRequests(s) ==
  /\ pc[s] = "clean_requests"
  /\ requests' = <<>> /\ row' = [t \in Runs |-> 0]
  /\ GoTo(s, "clean_users") /\ WrittenBy(s)
  /\ UNCHANGED <<accounts, item>>

DeleteUsers(s) ==
  /\ pc[s] = "clean_users"
  /\ accounts' = Nobody
  /\ GoTo(s, "users") /\ WrittenBy(s)
  /\ UNCHANGED <<requests, script>>

\* One statement for all the accounts; their e-mails are unique.
InsertUsers(s) ==
  /\ pc[s] = "users"
  /\ WrittenBy(s)
  /\ IF accounts = Nobody
     THEN accounts' = s /\ GoTo(s, "row") /\ UNCHANGED script
     ELSE Exit(s, "failed") /\ UNCHANGED accounts
  /\ UNCHANGED requests

\* The row has its final status at once; the events that explain it come later.
InsertRow(s) ==
  /\ pc[s] = "row" /\ Len(requests) < MaxRows
  /\ requests' = Append(requests, [status |-> Items[item[s]], trail |-> <<>>])
  /\ row' = [row EXCEPT ![s] = Len(requests) + 1]
  /\ GoTo(s, "created") /\ WrittenBy(s)
  /\ UNCHANGED <<accounts, item>>

\* The loop, after an item: main ends with closeDb when there are no more.
NextItem(s) ==
  IF item[s] = Len(Items) THEN Exit(s, "done")
  ELSE GoTo(s, "row") /\ item' = [item EXCEPT ![s] = @ + 1] /\ UNCHANGED row

\* An event of a request that is gone violates the foreign key.
InsertEvent(s, e) ==
  /\ WrittenBy(s)
  /\ requests' = IF row[s] = 0 THEN requests ELSE [requests EXCEPT ![row[s]].trail = Append(@, e)]
  /\ UNCHANGED accounts

InsertCreated(s) ==
  /\ pc[s] = "created"
  /\ InsertEvent(s, Created)
  /\ IF row[s] = 0 THEN Exit(s, "failed")
     ELSE IF Items[item[s]] = "open" THEN NextItem(s)
     ELSE GoTo(s, "decided") /\ UNCHANGED script

InsertDecided(s) ==
  /\ pc[s] = "decided"
  /\ InsertEvent(s, Decided(Items[item[s]]))
  /\ IF row[s] = 0 THEN Exit(s, "failed") ELSE NextItem(s)

\* The catch of main, exit 1; or the process is killed.
Stop(s) ==
  /\ Running(s)
  /\ Exit(s, "failed")
  /\ UNCHANGED <<database, alone>>
-----------------------------------------------------------------------------
\* POST /requests: row and event in one transaction.
ApiCreate ==
  /\ Len(requests) < MaxRows
  /\ requests' = Append(requests, [status |-> "open", trail |-> <<Created>>])
  /\ WrittenBy(Nobody)
  /\ UNCHANGED <<accounts, pc, script>>

\* PATCH /reviews/{id}, by a compare-and-set, and its event in one transaction.
ApiReview(i, to) ==
  /\ requests[i].status \in {"open", "in_review"}
  /\ requests' = [requests EXCEPT
       ![i] = [status |-> to, trail |-> Append(@.trail, Event("reviewed", @.status, to))]]
  /\ WrittenBy(Nobody)
  /\ UNCHANGED <<accounts, pc, script>>

Next ==
  \/ \E s \in Runs :
       \/ Start(s) \/ DeleteEvents(s) \/ DeleteRequests(s) \/ DeleteUsers(s)
       \/ InsertUsers(s) \/ InsertRow(s) \/ InsertCreated(s) \/ InsertDecided(s)
       \/ Stop(s)
  \/ ApiCreate
  \/ \E i \in DOMAIN requests, to \in {"reviewed", "rejected"} : ApiReview(i, to)

Spec == Init /\ [][Next]_vars
-----------------------------------------------------------------------------
TypeOK ==
  /\ accounts \in Runs \cup {Nobody}
  /\ Len(requests) <= MaxRows
  /\ pc \in [Runs -> {"idle", "clean_events", "clean_requests", "clean_users", "users", "row",
                      "created", "decided", "done", "failed"}]
  /\ item \in [Runs -> DOMAIN Items] /\ row \in [Runs -> {0} \cup DOMAIN requests]
  /\ alone \in [Runs -> BOOLEAN]

SeedTrail(s) == IF s = "open" THEN <<Created>> ELSE <<Created, Decided(s)>>

\* "Idempotente: rodar de novo recria o mesmo estado em vez de duplicar": a run
\* that succeeds with nobody else writing leaves exactly the seed, whatever was
\* there, and wherever earlier runs were cut short.
RerunRestoresTheSeed ==
  \A s \in Runs : pc[s] = "done" /\ alone[s] =>
    /\ accounts = s
    /\ requests = [n \in DOMAIN Items |-> [status |-> Items[n], trail |-> SeedTrail(Items[n])]]
=============================================================================
