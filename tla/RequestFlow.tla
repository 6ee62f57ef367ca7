----------------------------- MODULE RequestFlow -----------------------------
(***************************************************************************)
(* The calls that create, review and read requests, step by step, as the   *)
(* functions bliss-requests and bliss-reviews execute them side by side:   *)
(* each call runs in a Lambda container of its own, awaits every statement *)
(* it sends to Postgres, and any number of others may run between two of   *)
(* its statements. A statement sees committed rows only (READ COMMITTED);  *)
(* an UPDATE waits for the transaction that holds the row and then looks   *)
(* at the row again; a transaction publishes its row and its event at once *)
(* or not at all. A call may be cut off at any of its steps.               *)
(***************************************************************************)
EXTENDS RequestContracts, Naturals, Sequences

CONSTANTS
  Requests,  \* ids of requests
  Users,     \* people who open and review requests
  Calls,     \* HTTP calls, at most one use each; also their correlation ids
  Nobody,    \* the null of reviewed_by
  Seed,      \* the correlation id the seed script leaves behind
  None       \* no lock, no staged write, no event, no answer

ASSUME NoneIsNoCall == None \notin Calls
ASSUME SeedIsNoCall == Seed \notin Calls

VARIABLES
  status, reviewedBy, trail,  \* the committed tables, as in RequestLifecycle
  lock,      \* lock[r]: the call whose transaction holds row r, or None
  pc,        \* pc[i]: the statement that call i executes next
  call,      \* call[i]: what call i asks for
  seen,      \* seen[i]: the status of the row that call i read
  staged,    \* staged[i]: what the open transaction of call i will publish
  timeline,  \* timeline[i]: the events that call i read
  answer     \* answer[i]: the status or error code of the answer, or None

tables == <<status, reviewedBy, trail>>
vars == <<status, reviewedBy, trail, lock, pc, call, seen, staged, timeline, answer>>

LC == INSTANCE RequestLifecycle
Events == LC!Events

\* POST /requests, PATCH /reviews/{id}, and the two reads with the same body:
\* GET /requests/{id} and GET /reviews/{id}/timeline.
CreateCalls == [op : {"create"}, id : Requests, actor : Users]
ReviewCalls == [op : {"review"}, id : Requests, actor : Users, outcome : ReviewOutcomes]
DetailCalls == [op : {"detail"}, id : Requests]
CallSpace == CreateCalls \cup ReviewCalls \cup DetailCalls
StagedSpace == [status : REQUEST_STATUSES, reviewedBy : Users \cup {Nobody},
                event : Events \cup {None}]
Steps == {"insert", "find", "update", "event", "commit", "events"}

\* The answers. "FAILED" is a 500, a 503 or no answer at all: what the caller
\* knows is the same, that the call may or may not have taken effect.
Refusals == {"VALIDATION_ERROR", "REQUEST_NOT_FOUND",
             "REQUEST_ALREADY_REVIEWED", "INVALID_STATUS_TRANSITION"}
Answers == {"OK", "FAILED"} \cup Refusals

ASSUME NoneIsNoAnswer == None \notin Answers

Init ==
  /\ LC!Init
  /\ lock = [r \in Requests |-> None]
  /\ pc = [i \in Calls |-> "idle"]
  /\ call = [i \in Calls |-> None]
  /\ seen = [i \in Calls |-> Absent]
  /\ staged = [i \in Calls |-> None]
  /\ timeline = [i \in Calls |-> <<>>]
  /\ answer = [i \in Calls |-> None]

\* Call i is at step `step` of an operation of `ops`.
At(i, ops, step) == pc[i] = step /\ call[i].op \in ops

Goto(i, step) == pc' = [pc EXCEPT ![i] = step]

\* Call i ends with answer a.
Reply(i, a) ==
  /\ Goto(i, "done")
  /\ answer' = [answer EXCEPT ![i] = a]

\* Call i ends its transaction, if it has one.
Release(i) ==
  /\ lock' = [r \in Requests |-> IF lock[r] = i THEN None ELSE lock[r]]
  /\ staged' = [staged EXCEPT ![i] = None]
-----------------------------------------------------------------------------
\* A call passes the validation middleware. The id of a create call is the
\* fresh UUID its row will get; nobody else can have a statement on that row.
Receive(i, c) ==
  /\ pc[i] = "idle"
  /\ call' = [call EXCEPT ![i] = c]
  /\ IF c.op = "create"
       THEN /\ status[c.id] = Absent /\ lock[c.id] = None
            /\ lock' = [lock EXCEPT ![c.id] = i]
            /\ Goto(i, "insert")
       ELSE Goto(i, "find") /\ UNCHANGED lock
  /\ UNCHANGED <<tables, seen, staged, timeline, answer>>

\* A call with a malformed id, body or query is answered by the middleware.
RejectMalformed(i) ==
  /\ pc[i] = "idle"
  /\ Reply(i, "VALIDATION_ERROR")
  /\ UNCHANGED <<tables, lock, call, seen, staged, timeline>>

\* Mutant: an event type is written where the status belongs.
CreateInsert_EventTypeAsStatus(i) ==
  /\ At(i, {"create"}, "insert")
  /\ staged' = [staged EXCEPT ![i] =
                  [status |-> "created", reviewedBy |-> Nobody, event |-> None]]
  /\ Goto(i, "event")
  /\ UNCHANGED <<tables, lock, call, seen, timeline, answer>>

\* RequestsRepository.insert: BEGIN; INSERT INTO requests.
CreateInsert(i) ==
  /\ At(i, {"create"}, "insert")
  /\ staged' = [staged EXCEPT ![i] =
                  [status |-> "open", reviewedBy |-> Nobody, event |-> None]]
  /\ Goto(i, "event")
  /\ UNCHANGED <<tables, lock, call, seen, timeline, answer>>

\* Mutant: the creation event leaves from "open" and not from null.
CreateEvent_FromOpen(i) ==
  /\ At(i, {"create"}, "event")
  /\ staged' = [staged EXCEPT ![i].event =
                  RequestEvent("created", "open", "open", call[i].actor, i)]
  /\ Goto(i, "commit")
  /\ UNCHANGED <<tables, lock, call, seen, timeline, answer>>

\* RequestsRepository.insert: INSERT INTO request_events.
CreateEvent(i) ==
  /\ At(i, {"create"}, "event")
  /\ staged' = [staged EXCEPT ![i].event = LC!CreatedEvent(call[i].actor, i)]
  /\ Goto(i, "commit")
  /\ UNCHANGED <<tables, lock, call, seen, timeline, answer>>

\* Mutant: only "reviewed" is taken for final, and the table is not consulted.
ReviewRefusal_RejectedIsOpen(s, to) ==
  CASE s = Absent     -> "REQUEST_NOT_FOUND"
    [] s = "reviewed" -> "REQUEST_ALREADY_REVIEWED"
    [] OTHER          -> None

\* Why ReviewsService.review refuses to go on with a request it found in
\* status s, in the order of its checks; None when it goes on.
ReviewRefusal(s, to) ==
  CASE s = Absent            -> "REQUEST_NOT_FOUND"
    [] s \in ReviewOutcomes  -> "REQUEST_ALREADY_REVIEWED"
    [] s \in PENDING_REVIEW_STATUSES /\ ~canTransition(s, to)
                             -> "INVALID_STATUS_TRANSITION"
    [] OTHER                 -> None

\* ReviewsService.review: findById and the checks on what it found.
ReviewFind(i) ==
  /\ At(i, {"review"}, "find")
  /\ LET s == status[call[i].id]
         refusal == ReviewRefusal(s, call[i].outcome)
     IN /\ seen' = [seen EXCEPT ![i] = s]
        /\ IF refusal = None THEN Goto(i, "update") /\ UNCHANGED answer
                             ELSE Reply(i, refusal)
  /\ UNCHANGED <<tables, lock, call, staged, timeline>>

\* What the UPDATE of call i writes, once its transaction holds row r.
HoldAndStage(i, r, row) ==
  /\ lock' = [lock EXCEPT ![r] = i]
  /\ staged' = [staged EXCEPT ![i] = row]
  /\ Goto(i, "event")
  /\ UNCHANGED answer

ReviewedRow(i) ==
  [status |-> call[i].outcome, reviewedBy |-> call[i].actor, event |-> None]

\* Mutant: the UPDATE runs on the pool and not on the transaction.
ReviewUpdate_OutsideTransaction(i) ==
  LET r == call[i].id IN
  /\ At(i, {"review"}, "update")
  /\ \/ /\ status[r] = seen[i] /\ lock[r] = None
        /\ status' = [status EXCEPT ![r] = call[i].outcome]
        /\ reviewedBy' = [reviewedBy EXCEPT ![r] = call[i].actor]
        /\ HoldAndStage(i, r, ReviewedRow(i))
     \/ /\ status[r] # seen[i]
        /\ Reply(i, "REQUEST_ALREADY_REVIEWED")
        /\ UNCHANGED <<status, reviewedBy, lock, staged>>
  /\ UNCHANGED <<trail, call, seen, timeline>>

\* Mutant: the WHERE names the id only.
ReviewUpdate_NoFromStatus(i) ==
  LET r == call[i].id IN
  /\ At(i, {"review"}, "update")
  /\ lock[r] = None
  /\ HoldAndStage(i, r, ReviewedRow(i))
  /\ UNCHANGED <<tables, call, seen, timeline>>

\* Mutant: the event is inserted even if the UPDATE matched no row.
ReviewUpdate_NoRowCheck(i) ==
  LET r == call[i].id IN
  /\ At(i, {"review"}, "update")
  /\ lock[r] = None
  /\ HoldAndStage(i, r, IF status[r] = seen[i] THEN ReviewedRow(i)
                        ELSE [status |-> status[r], reviewedBy |-> reviewedBy[r],
                              event |-> None])
  /\ UNCHANGED <<tables, call, seen, timeline>>

\* Mutant: the service takes the null of a lost race for success.
ReviewUpdate_NullIsSuccess(i) ==
  LET r == call[i].id IN
  /\ At(i, {"review"}, "update")
  /\ \/ /\ status[r] = seen[i] /\ lock[r] = None
        /\ HoldAndStage(i, r, ReviewedRow(i))
     \/ /\ status[r] # seen[i]
        /\ Reply(i, "OK")
        /\ UNCHANGED <<lock, staged>>
  /\ UNCHANGED <<tables, call, seen, timeline>>

\* Mutant: a row that someone else holds counts as already reviewed.
ReviewUpdate_DoesNotWait(i) ==
  LET r == call[i].id IN
  /\ At(i, {"review"}, "update")
  /\ \/ /\ status[r] = seen[i] /\ lock[r] = None
        /\ HoldAndStage(i, r, ReviewedRow(i))
     \/ /\ status[r] # seen[i] \/ lock[r] # None
        /\ Reply(i, "REQUEST_ALREADY_REVIEWED")
        /\ UNCHANGED <<lock, staged>>
  /\ UNCHANGED <<tables, call, seen, timeline>>

\* ReviewsRepository.updateStatus: BEGIN; UPDATE ... WHERE id AND status =
\* fromStatus. It waits while another transaction holds the row that matches;
\* when no row matches, the call is answered 409.
ReviewUpdate(i) ==
  LET r == call[i].id IN
  /\ At(i, {"review"}, "update")
  /\ \/ /\ status[r] = seen[i] /\ lock[r] = None
        /\ HoldAndStage(i, r, ReviewedRow(i))
     \/ /\ status[r] # seen[i]
        /\ Reply(i, "REQUEST_ALREADY_REVIEWED")
        /\ UNCHANGED <<lock, staged>>
  /\ UNCHANGED <<tables, call, seen, timeline>>

\* ReviewsRepository.updateStatus: INSERT INTO request_events.
ReviewEvent(i) ==
  /\ At(i, {"review"}, "event")
  /\ staged' = [staged EXCEPT ![i].event =
                  LC!ReviewedEvent(seen[i], call[i].outcome, call[i].actor, i)]
  /\ Goto(i, "commit")
  /\ UNCHANGED <<tables, lock, call, seen, timeline, answer>>

\* Mutant: the transaction is rolled back and the call answers all the same.
Commit_RolledBack(i) ==
  /\ At(i, {"create", "review"}, "commit")
  /\ Release(i)
  /\ \E a \in {"OK", "FAILED"} : Reply(i, a)
  /\ UNCHANGED <<tables, call, seen, timeline>>

\* COMMIT: the row and its event become visible together. The acknowledgement
\* or the answer may still be lost.
Commit(i) ==
  LET r == call[i].id IN
  /\ At(i, {"create", "review"}, "commit")
  /\ status' = [status EXCEPT ![r] = staged[i].status]
  /\ reviewedBy' = [reviewedBy EXCEPT ![r] = staged[i].reviewedBy]
  /\ trail' = [trail EXCEPT ![r] = Append(@, staged[i].event)]
  /\ Release(i)
  /\ \E a \in {"OK", "FAILED"} : Reply(i, a)
  /\ UNCHANGED <<call, seen, timeline>>

\* Mutant: the events are queried before the row.
ReadDetail_EventsFirst(i) ==
  /\ \/ /\ At(i, {"detail"}, "find")
        /\ timeline' = [timeline EXCEPT ![i] = trail[call[i].id]]
        /\ Goto(i, "events")
        /\ UNCHANGED <<seen, answer>>
     \/ /\ At(i, {"detail"}, "events")
        /\ seen' = [seen EXCEPT ![i] = status[call[i].id]]
        /\ Reply(i, IF status[call[i].id] = Absent THEN "REQUEST_NOT_FOUND" ELSE "OK")
        /\ UNCHANGED timeline
  /\ UNCHANGED <<tables, lock, call, staged>>

\* RequestsService.getById and ReviewsService.getTimeline: two queries, the
\* row and then its events, each seeing what is committed when it runs.
ReadDetail(i) ==
  /\ \/ /\ At(i, {"detail"}, "find")
        /\ seen' = [seen EXCEPT ![i] = status[call[i].id]]
        /\ IF status[call[i].id] = Absent
             THEN Reply(i, "REQUEST_NOT_FOUND")
             ELSE Goto(i, "events") /\ UNCHANGED answer
        /\ UNCHANGED timeline
     \/ /\ At(i, {"detail"}, "events")
        /\ timeline' = [timeline EXCEPT ![i] = trail[call[i].id]]
        /\ Reply(i, "OK")
        /\ UNCHANGED seen
  /\ UNCHANGED <<tables, lock, call, staged>>

\* Mutant: a failed call leaves its transaction open.
Fail_KeepsTransaction(i) ==
  /\ pc[i] \in Steps
  /\ Reply(i, "FAILED")
  /\ UNCHANGED <<tables, lock, call, seen, staged, timeline>>

\* A statement fails, the function times out or its container dies: an open
\* transaction is rolled back, and the caller gets a 5xx or nothing.
Fail(i) ==
  /\ pc[i] \in Steps
  /\ Release(i)
  /\ Reply(i, "FAILED")
  /\ UNCHANGED <<tables, call, seen, timeline>>
-----------------------------------------------------------------------------
\* What the runtime does for a call it has received.
Step(i) ==
  \/ CreateInsert(i) \/ CreateEvent(i)
  \/ ReviewFind(i) \/ ReviewUpdate(i) \/ ReviewEvent(i)
  \/ Commit(i)
  \/ ReadDetail(i)

Next ==
  \E i \in Calls :
    \/ \E c \in CallSpace : Receive(i, c)
    \/ RejectMalformed(i)
    \/ Step(i)
    \/ Fail(i)

Spec == Init /\ [][Next]_vars

\* A call whose next statement can run does run it, unless it is cut off. No
\* call is fair in arriving or in failing, and the one that waits for a row is
\* not helped by a timeout of its own.
FairSpec == Spec /\ \A i \in Calls : WF_vars(Step(i))
-----------------------------------------------------------------------------
TypeOK ==
  /\ LC!TypeOK
  /\ lock \in [Requests -> Calls \cup {None}]
  /\ pc \in [Calls -> {"idle", "done"} \cup Steps]
  /\ call \in [Calls -> CallSpace \cup {None}]
  /\ seen \in [Calls -> RowStatuses]
  /\ staged \in [Calls -> StagedSpace \cup {None}]
  /\ timeline \in [Calls -> Seq(Events)]
  /\ answer \in [Calls -> Answers \cup {None}]

\* Row and trail never disagree, whatever interleaving or failure: a request
\* has a row exactly when it has a trail, and the latest event is the one that
\* gave the row its status (the transactions of insert and updateStatus).
TrailTellsStatus == LC!TrailTellsStatus

\* The trail is a walk through the permitted transitions, without gaps: every
\* event leaves from the status the one before it arrived at. A review decided
\* on a stale read would break the chain (the WHERE of updateStatus).
TrailIsLegalHistory == LC!TrailIsLegalHistory

\* However many people review the same request at once, its trail ends with the
\* only review event it has, by the person whom the row names.
ReviewedOnce == LC!ReviewedOnce

\* Call i was answered with success for operation op.
Confirmed(i, op) == answer[i] = "OK" /\ call[i].op = op

\* A confirmed call is on record, for good: a 201 is the first event of its
\* request; a 200 to a review is its last event and decided the row. So two
\* callers are never both told that their review won.
ConfirmedIsRecorded ==
  \A i \in Calls :
    /\ Confirmed(i, "create") => trail[call[i].id][1].traceId = i
    /\ Confirmed(i, "review") =>
         LET r == call[i].id IN
         /\ trail[r][Len(trail[r])].traceId = i
         /\ status[r] = call[i].outcome /\ reviewedBy[r] = call[i].actor

\* A 409 is true when it is given and stays true: the request was reviewed, and
\* by another call. In particular nobody is refused on account of a review that
\* is later rolled back.
ConflictHasAWinner ==
  \A i \in Calls :
    answer[i] = "REQUEST_ALREADY_REVIEWED" =>
      LET r == call[i].id IN
      status[r] \in ReviewOutcomes /\ trail[r][Len(trail[r])].traceId # i

\* A detail answer explains itself although it is read in two queries: the
\* timeline it shows is not empty, is how the trail began, and contains the
\* event that led to the status it shows.
DetailIsExplained ==
  \A i \in Calls : Confirmed(i, "detail") =>
    LET shown == timeline[i] full == trail[call[i].id] IN
    /\ Len(shown) \in 1 .. Len(full) /\ \A n \in 1 .. Len(shown) : shown[n] = full[n]
    /\ \E n \in 1 .. Len(shown) : shown[n].toStatus = seen[i]

\* A decision is final: no step changes the row or the trail of a request that
\* was reviewed or rejected (REQUEST_STATUS_TRANSITIONS gives it no way out).
DecisionIsFinal ==
  [][\A r \in Requests : status[r] \in ReviewOutcomes =>
       /\ status'[r] = status[r] /\ reviewedBy'[r] = reviewedBy[r]
       /\ trail'[r] = trail[r]]_tables

\* The two services together implement the abstract life cycle.
ImplementsLifecycle == LC!Spec

\* Every call that was received ends; none waits for a row for ever.
EveryCallEnds == \A i \in Calls : pc[i] \in Steps ~> pc[i] = "done"

\* When someone has found a request pending and tries to decide it, it gets
\* decided, by this call or by another one, unless this call is cut off.
PendingReviewIsDecided ==
  \A i \in Calls, r \in Requests :
    (At(i, {"review"}, "update") /\ call[i].id = r)
      ~> (status[r] \in ReviewOutcomes \/ answer[i] = "FAILED")
=============================================================================
