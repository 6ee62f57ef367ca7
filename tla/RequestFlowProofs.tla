-------------------------- MODULE RequestFlowProofs --------------------------
(***************************************************************************)
(* RequestFlow implements RequestLifecycle, for any number of requests,    *)
(* people and calls. The argument: a call that has reached its transaction *)
(* holds the lock of its row, so nobody else commits on that row, so what  *)
(* the call saw of the row before it wrote is still true when it commits.  *)
(* Then, that its answers are true: each one agrees with the tables when it*)
(* is given, and the tables only grow.                                     *)
(***************************************************************************)
EXTENDS RequestFlow, TLAPS

\* The steps at which a call is inside its transaction.
InTransaction == {"insert", "event", "commit"}

\* Each operation is only ever at a step of its own.
StepFitsCall(i) ==
  /\ pc[i] = "insert" => call[i] \in CreateCalls
  /\ pc[i] \in {"event", "commit"} => call[i] \in CreateCalls \cup ReviewCalls
  /\ pc[i] = "update" => call[i] \in ReviewCalls
  /\ pc[i] = "find" => call[i] \in ReviewCalls \cup DetailCalls
  /\ pc[i] = "events" => call[i] \in DetailCalls

\* What a call found out about its row is true while it holds the lock.
KnowsItsRow(i) ==
  pc[i] \in InTransaction =>
    /\ lock[call[i].id] = i
    /\ IF call[i].op = "create" THEN status[call[i].id] = Absent
                                ELSE status[call[i].id] = seen[i]

\* A review goes on to its UPDATE with a request that was pending.
SawPending(i) ==
  pc[i] \in {"update", "event", "commit"} /\ call[i].op = "review" =>
    seen[i] \in PENDING_REVIEW_STATUSES

\* An open transaction contains what its call asked for.
StagesItsRow(i) ==
  pc[i] \in {"event", "commit"} =>
    /\ staged[i] \in StagedSpace
    /\ call[i].op = "create" =>
         /\ staged[i].status = "open" /\ staged[i].reviewedBy = Nobody
         /\ pc[i] = "commit" => staged[i].event = LC!CreatedEvent(call[i].actor, i)
    /\ call[i].op = "review" =>
         /\ staged[i].status = call[i].outcome
         /\ staged[i].reviewedBy = call[i].actor
         /\ pc[i] = "commit" =>
              staged[i].event =
                LC!ReviewedEvent(seen[i], call[i].outcome, call[i].actor, i)

CallInv(i) == StepFitsCall(i) /\ KnowsItsRow(i) /\ SawPending(i) /\ StagesItsRow(i)

\* A lock has an owner that is inside a transaction on that very row.
LockHasOwner ==
  \A r \in Requests : \A i \in Calls :
    lock[r] = i => pc[i] \in InTransaction /\ call[i].id = r

\* A request without a row has no reviewer.
AbsentIsUnreviewed ==
  \A r \in Requests : status[r] = Absent => reviewedBy[r] = Nobody

FlowInv ==
  /\ TypeOK
  /\ \A i \in Calls : CallInv(i)
  /\ LockHasOwner
  /\ AbsentIsUnreviewed
-----------------------------------------------------------------------------
\* What a validated call carries, by operation.
LEMMA CallFields ==
  /\ \A c \in CreateCalls : c.op = "create" /\ c.id \in Requests /\ c.actor \in Users
  /\ \A c \in ReviewCalls : /\ c.op = "review" /\ c.id \in Requests
                            /\ c.actor \in Users /\ c.outcome \in ReviewOutcomes
  /\ \A c \in DetailCalls : c.op = "detail" /\ c.id \in Requests
BY DEF CreateCalls, ReviewCalls, DetailCalls

\* RequestLifecycle has a copy of the vocabulary of its own.
LEMMA Vocabulary ==
  /\ LC!Absent = Absent /\ LC!RowStatuses = RowStatuses
  /\ LC!ReviewOutcomes = ReviewOutcomes
  /\ LC!PENDING_REVIEW_STATUSES = PENDING_REVIEW_STATUSES
BY DEF LC!Absent, Absent, LC!RowStatuses, RowStatuses, LC!REQUEST_STATUSES,
  REQUEST_STATUSES, LC!ReviewOutcomes, ReviewOutcomes, LC!PENDING_REVIEW_STATUSES,
  PENDING_REVIEW_STATUSES

\* The event of a create call is an event.
LEMMA CreatedIsEvent ==
  ASSUME NEW u \in Users, NEW k \in Calls PROVE LC!CreatedEvent(u, k) \in Events
BY DEF LC!CreatedEvent, LC!RequestEvent, Events, LC!Events, LC!RequestEvents,
  LC!RowStatuses, LC!REQUEST_STATUSES, LC!REQUEST_EVENT_TYPES

\* The event of a review is an event.
LEMMA ReviewedIsEvent ==
  ASSUME NEW u \in Users, NEW k \in Calls, NEW from \in RowStatuses,
         NEW to \in ReviewOutcomes
  PROVE  LC!ReviewedEvent(from, to, u, k) \in Events
BY Vocabulary DEF LC!ReviewedEvent, LC!RequestEvent, Events, LC!Events,
  LC!RequestEvents, LC!REQUEST_STATUSES, LC!REQUEST_EVENT_TYPES, ReviewOutcomes

\* What a step of another call leaves alone is enough for call j.
LEMMA Undisturbed ==
  ASSUME NEW j \in Calls, CallInv(j),
         pc'[j] = pc[j], call'[j] = call[j], seen'[j] = seen[j], staged'[j] = staged[j],
         pc[j] \in InTransaction =>
           lock'[call[j].id] = lock[call[j].id] /\ status'[call[j].id] = status[call[j].id]
  PROVE  CallInv(j)'
BY DEF CallInv, StepFitsCall, KnowsItsRow, SawPending, StagesItsRow, InTransaction

\* A new call: a create call takes the lock of a row that nobody else can hold.
LEMMA ReceiveKeeps ==
  ASSUME NEW i \in Calls, NEW c \in CallSpace, FlowInv, Receive(i, c)
  PROVE  FlowInv'
<1>1. /\ TypeOK /\ \A j \in Calls : CallInv(j)
      /\ LockHasOwner /\ AbsentIsUnreviewed
  BY DEF FlowInv
<1>2. /\ pc[i] = "idle" /\ c.id \in Requests /\ c.op \in {"create", "review", "detail"}
      /\ c.op = "create" <=> c \in CreateCalls
      /\ c.op = "create" => status[c.id] = Absent /\ lock[c.id] = None
  BY CallFields DEF Receive, CallSpace
<1>3. /\ call' = [call EXCEPT ![i] = c]
      /\ pc' = [pc EXCEPT ![i] = IF c.op = "create" THEN "insert" ELSE "find"]
      /\ lock' = IF c.op = "create" THEN [lock EXCEPT ![c.id] = i] ELSE lock
      /\ UNCHANGED <<status, reviewedBy, trail, seen, staged, timeline, answer>>
  BY DEF Receive, Goto, tables
<1>4. TypeOK'
  BY <1>1, <1>2, <1>3 DEF TypeOK, LC!TypeOK, Steps
<1>5. ASSUME NEW j \in Calls, j # i PROVE CallInv(j)'
  <2>1. pc[j] \in InTransaction => lock[call[j].id] = j
    BY <1>1 DEF CallInv, KnowsItsRow
  <2>2. pc[j] \in InTransaction => c.id # call[j].id \/ c.op # "create"
    BY <2>1, <1>2, NoneIsNoCall
  <2>3. QED BY <1>1, <1>3, <1>5, <2>2, Undisturbed DEF TypeOK
<1>6. CallInv(i)'
  BY <1>1, <1>2, <1>3, CallFields DEF TypeOK, LC!TypeOK, CallInv, StepFitsCall, KnowsItsRow,
    SawPending, StagesItsRow, InTransaction, CallSpace
<1>7. LockHasOwner'
  BY <1>1, <1>2, <1>3, NoneIsNoCall DEF TypeOK, LockHasOwner, InTransaction
<1>8. AbsentIsUnreviewed'
  BY <1>1, <1>3 DEF AbsentIsUnreviewed
<1>9. QED BY <1>4, <1>5, <1>6, <1>7, <1>8 DEF FlowInv

\* A call that is turned away at the door changes nothing but itself.
LEMMA RejectMalformedKeeps ==
  ASSUME NEW i \in Calls, FlowInv, RejectMalformed(i)
  PROVE  FlowInv'
<1>1. TypeOK'
  BY DEF FlowInv, TypeOK, LC!TypeOK, RejectMalformed, Reply, Goto, tables, Answers,
    Refusals
<1>2. ASSUME NEW j \in Calls PROVE CallInv(j)'
  <2>1. CASE j = i
    BY <2>1 DEF FlowInv, TypeOK, RejectMalformed, Reply, Goto, CallInv, StepFitsCall,
      KnowsItsRow, SawPending, StagesItsRow, InTransaction
  <2>2. CASE j # i
    BY <2>2, Undisturbed DEF FlowInv, TypeOK, RejectMalformed, Reply, Goto, tables
  <2>3. QED BY <2>1, <2>2
<1>3. LockHasOwner' /\ AbsentIsUnreviewed'
  BY DEF FlowInv, TypeOK, RejectMalformed, Reply, Goto, tables, LockHasOwner,
    AbsentIsUnreviewed, InTransaction
<1>4. QED BY <1>1, <1>2, <1>3 DEF FlowInv

\* The INSERT of a create call fills its transaction.
LEMMA CreateInsertKeeps ==
  ASSUME NEW i \in Calls, FlowInv, CreateInsert(i)
  PROVE  FlowInv'
<1> DEFINE row == [status |-> "open", reviewedBy |-> Nobody, event |-> None]
<1>1. /\ TypeOK /\ \A j \in Calls : CallInv(j)
      /\ LockHasOwner /\ AbsentIsUnreviewed
  BY DEF FlowInv
<1>2. pc[i] = "insert" /\ call[i] \in CreateCalls /\ call[i].op = "create"
  BY <1>1, CallFields DEF CreateInsert, At, CallInv, StepFitsCall
<1>3. /\ staged' = [staged EXCEPT ![i] = row] /\ pc' = [pc EXCEPT ![i] = "event"]
      /\ UNCHANGED <<status, reviewedBy, trail, lock, call, seen, timeline, answer>>
  BY DEF CreateInsert, Goto, tables
<1>4. /\ row \in StagedSpace /\ row.status = "open" /\ row.reviewedBy = Nobody
  BY DEF StagedSpace, REQUEST_STATUSES
<1> HIDE DEF row
<1>5. TypeOK'
  BY <1>1, <1>3, <1>4 DEF TypeOK, LC!TypeOK, Steps
<1>6. ASSUME NEW j \in Calls, j # i PROVE CallInv(j)'
  BY <1>1, <1>3, <1>6, Undisturbed DEF TypeOK
<1>7. CallInv(i)'
  BY <1>1, <1>2, <1>3, <1>4 DEF TypeOK, CallInv, StepFitsCall, KnowsItsRow, SawPending,
    StagesItsRow, InTransaction
<1>8. LockHasOwner' /\ AbsentIsUnreviewed'
  BY <1>1, <1>3 DEF TypeOK, LockHasOwner, AbsentIsUnreviewed, InTransaction
<1>9. QED BY <1>5, <1>6, <1>7, <1>8 DEF FlowInv

\* The creation event joins the staged row.
LEMMA CreateEventKeeps ==
  ASSUME NEW i \in Calls, FlowInv, CreateEvent(i)
  PROVE  FlowInv'
<1> DEFINE e == LC!CreatedEvent(call[i].actor, i)
<1>1. /\ TypeOK /\ \A j \in Calls : CallInv(j)
      /\ LockHasOwner /\ AbsentIsUnreviewed
  BY DEF FlowInv
<1>2. /\ pc[i] = "event" /\ call[i].op = "create" /\ call[i].actor \in Users
      /\ call[i] \in CreateCalls
  BY <1>1, CallFields DEF CreateEvent, At, CallInv, StepFitsCall
<1>3. /\ staged' = [staged EXCEPT ![i].event = e] /\ pc' = [pc EXCEPT ![i] = "commit"]
      /\ UNCHANGED <<status, reviewedBy, trail, lock, call, seen, timeline, answer>>
  BY DEF CreateEvent, Goto, tables
<1>4. /\ e \in Events /\ staged[i] \in StagedSpace
      /\ staged[i].status = "open" /\ staged[i].reviewedBy = Nobody
  BY <1>1, <1>2, CreatedIsEvent DEF CallInv, StagesItsRow
<1> HIDE DEF e
<1>5. /\ staged'[i] \in StagedSpace /\ staged'[i].event = e
      /\ staged'[i].status = "open" /\ staged'[i].reviewedBy = Nobody
      /\ \A j \in Calls : j # i => staged'[j] = staged[j]
  BY <1>1, <1>3, <1>4 DEF TypeOK, StagedSpace
<1>6. TypeOK'
  BY <1>1, <1>3, <1>5 DEF TypeOK, LC!TypeOK, Steps
<1>7. ASSUME NEW j \in Calls, j # i PROVE CallInv(j)'
  BY <1>1, <1>3, <1>5, <1>7, Undisturbed DEF TypeOK
<1>8. CallInv(i)'
  BY <1>1, <1>2, <1>3, <1>5 DEF e, TypeOK, CallInv, StepFitsCall, KnowsItsRow,
    SawPending, StagesItsRow, InTransaction
<1>9. LockHasOwner' /\ AbsentIsUnreviewed'
  BY <1>1, <1>3 DEF TypeOK, LockHasOwner, AbsentIsUnreviewed, InTransaction
<1>10. QED BY <1>6, <1>7, <1>8, <1>9 DEF FlowInv

\* A review that goes on saw a pending request.
LEMMA ReviewFindKeeps ==
  ASSUME NEW i \in Calls, FlowInv, ReviewFind(i)
  PROVE  FlowInv'
<1> DEFINE s == status[call[i].id]
           refusal == ReviewRefusal(s, call[i].outcome)
<1>1. /\ TypeOK /\ \A j \in Calls : CallInv(j)
      /\ LockHasOwner /\ AbsentIsUnreviewed
  BY DEF FlowInv
<1>2. /\ pc[i] = "find" /\ call[i] \in ReviewCalls /\ s \in RowStatuses
  BY <1>1, CallFields, Vocabulary
    DEF ReviewFind, At, CallInv, StepFitsCall, TypeOK, LC!TypeOK
<1>3. /\ refusal \in Refusals \cup {None}
      /\ refusal = None => s \in PENDING_REVIEW_STATUSES
  BY <1>2, NoneIsNoAnswer DEF ReviewRefusal, Answers, Refusals, RowStatuses, REQUEST_STATUSES,
    Absent, ReviewOutcomes, PENDING_REVIEW_STATUSES
<1>4. /\ seen' = [seen EXCEPT ![i] = s]
      /\ \/ /\ refusal = None /\ pc' = [pc EXCEPT ![i] = "update"]
            /\ answer' = answer
         \/ /\ refusal # None /\ pc' = [pc EXCEPT ![i] = "done"]
            /\ answer' = [answer EXCEPT ![i] = refusal]
      /\ UNCHANGED <<status, reviewedBy, trail, lock, call, staged, timeline>>
  BY DEF ReviewFind, Goto, Reply, tables
<1> HIDE DEF s, refusal
<1>5. TypeOK'
  BY <1>1, <1>2, <1>3, <1>4 DEF TypeOK, LC!TypeOK, Steps, Answers
<1>6. ASSUME NEW j \in Calls, j # i PROVE CallInv(j)'
  BY <1>1, <1>4, <1>6, Undisturbed DEF TypeOK
<1>7. CallInv(i)'
  BY <1>1, <1>2, <1>3, <1>4 DEF TypeOK, CallInv, StepFitsCall, KnowsItsRow, SawPending,
    StagesItsRow, InTransaction
<1>8. LockHasOwner' /\ AbsentIsUnreviewed'
  BY <1>1, <1>2, <1>4 DEF TypeOK, LockHasOwner, AbsentIsUnreviewed, InTransaction
<1>9. QED BY <1>5, <1>6, <1>7, <1>8 DEF FlowInv

\* The UPDATE takes a lock that is free, and only if the row is as it was seen.
LEMMA ReviewUpdateKeeps ==
  ASSUME NEW i \in Calls, FlowInv, ReviewUpdate(i)
  PROVE  FlowInv'
<1> DEFINE r == call[i].id
           row == ReviewedRow(i)
<1>1. /\ TypeOK /\ \A j \in Calls : CallInv(j)
      /\ LockHasOwner /\ AbsentIsUnreviewed
  BY DEF FlowInv
<1>2. /\ pc[i] = "update" /\ call[i] \in ReviewCalls /\ r \in Requests
      /\ call[i].op = "review" /\ call[i].outcome \in ReviewOutcomes
      /\ call[i].actor \in Users
  BY <1>1, CallFields DEF ReviewUpdate, At, CallInv, StepFitsCall
<1>3. /\ row \in StagedSpace
      /\ row.status = call[i].outcome /\ row.reviewedBy = call[i].actor
  BY <1>2 DEF ReviewedRow, StagedSpace, ReviewOutcomes, REQUEST_STATUSES
<1>4. UNCHANGED <<status, reviewedBy, trail, call, seen, timeline>>
  BY DEF ReviewUpdate, tables
<1>5. CASE /\ status[r] = seen[i] /\ lock[r] = None
           /\ HoldAndStage(i, r, ReviewedRow(i))
  <2>1. /\ status[r] = seen[i] /\ lock[r] = None
        /\ lock' = [lock EXCEPT ![r] = i] /\ staged' = [staged EXCEPT ![i] = row]
        /\ pc' = [pc EXCEPT ![i] = "event"] /\ answer' = answer
    BY <1>5 DEF HoldAndStage, Goto
  <2> HIDE DEF r, row
  <2>2. TypeOK'
    BY <1>1, <1>2, <1>3, <1>4, <2>1 DEF TypeOK, LC!TypeOK, Steps
  <2>3. ASSUME NEW j \in Calls, j # i PROVE CallInv(j)'
    <3>1. pc[j] \in InTransaction => call[j].id # r
      BY <1>1, <2>1, NoneIsNoCall DEF CallInv, KnowsItsRow
    <3>2. QED BY <1>1, <1>4, <2>1, <2>3, <3>1, Undisturbed DEF TypeOK
  <2>4. CallInv(i)'
    BY <1>1, <1>2, <1>3, <1>4, <2>1 DEF r, TypeOK, CallInv, StepFitsCall, KnowsItsRow,
      SawPending, StagesItsRow, InTransaction
  <2>5. LockHasOwner' /\ AbsentIsUnreviewed'
    BY <1>1, <1>2, <1>4, <2>1 DEF r, TypeOK, LockHasOwner, AbsentIsUnreviewed,
      InTransaction
  <2>6. QED BY <2>2, <2>3, <2>4, <2>5 DEF FlowInv
<1>6. CASE /\ Reply(i, "REQUEST_ALREADY_REVIEWED")
           /\ UNCHANGED <<lock, staged>>
  <2>1. /\ pc' = [pc EXCEPT ![i] = "done"]
        /\ answer' = [answer EXCEPT ![i] = "REQUEST_ALREADY_REVIEWED"]
        /\ UNCHANGED <<lock, staged>>
    BY <1>6 DEF Reply, Goto
  <2>2. TypeOK'
    BY <1>1, <1>4, <2>1 DEF TypeOK, LC!TypeOK, Steps, Answers, Refusals
  <2>3. ASSUME NEW j \in Calls, j # i PROVE CallInv(j)'
    BY <1>1, <1>4, <2>1, <2>3, Undisturbed DEF TypeOK
  <2>4. CallInv(i)'
    BY <1>1, <2>1 DEF TypeOK, CallInv, StepFitsCall, KnowsItsRow, SawPending,
      StagesItsRow, InTransaction
  <2>5. LockHasOwner' /\ AbsentIsUnreviewed'
    BY <1>1, <1>2, <1>4, <2>1 DEF TypeOK, LockHasOwner, AbsentIsUnreviewed,
      InTransaction
  <2>6. QED BY <2>2, <2>3, <2>4, <2>5 DEF FlowInv
<1>7. QED BY <1>5, <1>6 DEF ReviewUpdate

\* The review event joins the staged row.
LEMMA ReviewEventKeeps ==
  ASSUME NEW i \in Calls, FlowInv, ReviewEvent(i)
  PROVE  FlowInv'
<1> DEFINE e == LC!ReviewedEvent(seen[i], call[i].outcome, call[i].actor, i)
<1>1. /\ TypeOK /\ \A j \in Calls : CallInv(j)
      /\ LockHasOwner /\ AbsentIsUnreviewed
  BY DEF FlowInv
<1>2. /\ pc[i] = "event" /\ call[i].op = "review" /\ call[i].actor \in Users
      /\ call[i].outcome \in ReviewOutcomes /\ call[i] \in ReviewCalls
  BY <1>1, CallFields DEF ReviewEvent, At, CallInv, StepFitsCall
<1>3. /\ staged' = [staged EXCEPT ![i].event = e] /\ pc' = [pc EXCEPT ![i] = "commit"]
      /\ UNCHANGED <<status, reviewedBy, trail, lock, call, seen, timeline, answer>>
  BY DEF ReviewEvent, Goto, tables
<1>4. /\ e \in Events /\ staged[i] \in StagedSpace
      /\ staged[i].status = call[i].outcome /\ staged[i].reviewedBy = call[i].actor
  BY <1>1, <1>2, ReviewedIsEvent DEF TypeOK, CallInv, StagesItsRow
<1> HIDE DEF e
<1>5. /\ staged'[i] \in StagedSpace /\ staged'[i].event = e
      /\ staged'[i].status = call[i].outcome /\ staged'[i].reviewedBy = call[i].actor
      /\ \A j \in Calls : j # i => staged'[j] = staged[j]
  BY <1>1, <1>3, <1>4 DEF TypeOK, StagedSpace
<1>6. TypeOK'
  BY <1>1, <1>3, <1>5 DEF TypeOK, LC!TypeOK, Steps
<1>7. ASSUME NEW j \in Calls, j # i PROVE CallInv(j)'
  BY <1>1, <1>3, <1>5, <1>7, Undisturbed DEF TypeOK
<1>8. CallInv(i)'
  BY <1>1, <1>2, <1>3, <1>5 DEF e, TypeOK, CallInv, StepFitsCall, KnowsItsRow,
    SawPending, StagesItsRow, InTransaction
<1>9. LockHasOwner' /\ AbsentIsUnreviewed'
  BY <1>1, <1>3 DEF TypeOK, LockHasOwner, AbsentIsUnreviewed, InTransaction
<1>10. QED BY <1>6, <1>7, <1>8, <1>9 DEF FlowInv

\* A COMMIT changes one row, which no other transaction holds.
LEMMA CommitKeeps ==
  ASSUME NEW i \in Calls, FlowInv, Commit(i)
  PROVE  FlowInv'
<1> DEFINE r == call[i].id
           row == staged[i]
<1>1. /\ TypeOK /\ \A j \in Calls : CallInv(j)
      /\ LockHasOwner /\ AbsentIsUnreviewed
  BY DEF FlowInv
<1>2. /\ pc[i] = "commit" /\ r \in Requests /\ lock[r] = i
      /\ row.status \in REQUEST_STATUSES /\ row.reviewedBy \in Users \cup {Nobody}
      /\ row.event \in Events
  <2>1. /\ pc[i] = "commit" /\ call[i] \in CreateCalls \cup ReviewCalls
        /\ lock[r] = i /\ row \in StagedSpace
    BY <1>1 DEF Commit, At, CallInv, StepFitsCall, KnowsItsRow, StagesItsRow,
      InTransaction
  <2>2. CASE call[i] \in CreateCalls
    <3>1. call[i].op = "create" /\ call[i].actor \in Users /\ r \in Requests
      BY <2>2, CallFields
    <3>2. row.event = LC!CreatedEvent(call[i].actor, i)
      BY <1>1, <2>1, <3>1 DEF CallInv, StagesItsRow
    <3>3. QED BY <2>1, <3>1, <3>2, CreatedIsEvent DEF StagedSpace
  <2>3. CASE call[i] \in ReviewCalls
    <3>1. /\ call[i].op = "review" /\ call[i].actor \in Users /\ r \in Requests
          /\ call[i].outcome \in ReviewOutcomes
      BY <2>3, CallFields
    <3>2. row.event = LC!ReviewedEvent(seen[i], call[i].outcome, call[i].actor, i)
      BY <1>1, <2>1, <3>1 DEF CallInv, StagesItsRow
    <3>3. seen[i] \in RowStatuses
      BY <1>1 DEF TypeOK
    <3>4. QED BY <2>1, <3>1, <3>2, <3>3, ReviewedIsEvent DEF StagedSpace
  <2>4. QED BY <2>1, <2>2, <2>3
<1>3. /\ status' = [status EXCEPT ![r] = row.status]
      /\ reviewedBy' = [reviewedBy EXCEPT ![r] = row.reviewedBy]
      /\ trail' = [trail EXCEPT ![r] = Append(@, row.event)]
      /\ lock' = [q \in Requests |-> IF lock[q] = i THEN None ELSE lock[q]]
      /\ staged' = [staged EXCEPT ![i] = None]
      /\ pc' = [pc EXCEPT ![i] = "done"]
      /\ \E a \in {"OK", "FAILED"} : answer' = [answer EXCEPT ![i] = a]
      /\ UNCHANGED <<call, seen, timeline>>
  BY DEF Commit, Release, Reply, Goto
<1> HIDE DEF r, row
<1>4. TypeOK'
  <2>1. trail' \in [Requests -> Seq(Events)]
    BY <1>1, <1>2, <1>3 DEF TypeOK, LC!TypeOK, Events
  <2>2. QED BY <1>1, <1>2, <1>3, <2>1, Vocabulary
    DEF TypeOK, LC!TypeOK, Events, RowStatuses, Answers
<1>5. ASSUME NEW j \in Calls, j # i PROVE CallInv(j)'
  <2>1. pc[j] \in InTransaction => call[j].id # r /\ lock[call[j].id] = j
    BY <1>1, <1>2, <1>5 DEF CallInv, KnowsItsRow
  <2>2. pc[j] \in InTransaction => call[j].id \in Requests
    BY <1>1, CallFields DEF CallInv, StepFitsCall, InTransaction
  <2>3. QED BY <1>1, <1>3, <1>5, <2>1, <2>2, Undisturbed DEF TypeOK, LC!TypeOK
<1>6. CallInv(i)'
  BY <1>1, <1>3 DEF TypeOK, CallInv, StepFitsCall, KnowsItsRow, SawPending,
    StagesItsRow, InTransaction
<1>7. LockHasOwner'
  BY <1>1, <1>3, NoneIsNoCall DEF TypeOK, LockHasOwner, InTransaction
<1>8. AbsentIsUnreviewed'
  BY <1>1, <1>2, <1>3 DEF TypeOK, LC!TypeOK, AbsentIsUnreviewed, Absent,
    REQUEST_STATUSES
<1>9. QED BY <1>4, <1>5, <1>6, <1>7, <1>8 DEF FlowInv

\* The two queries of a read change nothing but the reader.
LEMMA ReadDetailKeeps ==
  ASSUME NEW i \in Calls, FlowInv, ReadDetail(i)
  PROVE  FlowInv'
<1>1. /\ TypeOK /\ \A j \in Calls : CallInv(j)
      /\ LockHasOwner /\ AbsentIsUnreviewed
  BY DEF FlowInv
<1>2. /\ pc[i] \in {"find", "events"} /\ call[i].op = "detail"
      /\ call[i] \in DetailCalls /\ call[i].id \in Requests
  BY <1>1, CallFields DEF ReadDetail, At, CallInv, StepFitsCall
<1>3. /\ pc' = [pc EXCEPT ![i] = pc'[i]] /\ pc'[i] \in {"events", "done"}
      /\ seen' = [seen EXCEPT ![i] = seen'[i]] /\ seen'[i] \in RowStatuses
      /\ timeline' = [timeline EXCEPT ![i] = timeline'[i]]
      /\ timeline'[i] \in Seq(Events)
      /\ answer' = [answer EXCEPT ![i] = answer'[i]]
      /\ answer'[i] \in Answers \cup {None}
      /\ UNCHANGED <<status, reviewedBy, trail, lock, call, staged>>
  BY <1>1, <1>2, Vocabulary
    DEF ReadDetail, At, Goto, Reply, tables, TypeOK, LC!TypeOK, Events, Answers, Refusals
<1>4. TypeOK'
  BY <1>1, <1>3 DEF TypeOK, LC!TypeOK, Steps
<1>5. ASSUME NEW j \in Calls, j # i PROVE CallInv(j)'
  BY <1>1, <1>3, <1>5, Undisturbed DEF TypeOK
<1>6. CallInv(i)'
  BY <1>1, <1>2, <1>3 DEF TypeOK, CallInv, StepFitsCall, KnowsItsRow, SawPending,
    StagesItsRow, InTransaction
<1>7. LockHasOwner'
  <2>1. \A q \in Requests : lock[q] # i
    BY <1>1, <1>2 DEF LockHasOwner, InTransaction
  <2>2. \A j \in Calls : j # i => pc'[j] = pc[j]
    BY <1>1, <1>3 DEF TypeOK
  <2>3. QED BY <1>1, <1>3, <2>1, <2>2 DEF LockHasOwner
<1>8. AbsentIsUnreviewed'
  BY <1>1, <1>3 DEF AbsentIsUnreviewed
<1>9. QED BY <1>4, <1>5, <1>6, <1>7, <1>8 DEF FlowInv

\* A call that is cut off gives up its lock and what it staged.
LEMMA FailKeeps ==
  ASSUME NEW i \in Calls, FlowInv, Fail(i)
  PROVE  FlowInv'
<1>1. /\ TypeOK /\ \A j \in Calls : CallInv(j)
      /\ LockHasOwner /\ AbsentIsUnreviewed
  BY DEF FlowInv
<1>2. /\ lock' = [q \in Requests |-> IF lock[q] = i THEN None ELSE lock[q]]
      /\ staged' = [staged EXCEPT ![i] = None]
      /\ pc' = [pc EXCEPT ![i] = "done"]
      /\ answer' = [answer EXCEPT ![i] = "FAILED"]
      /\ UNCHANGED <<status, reviewedBy, trail, call, seen, timeline>>
  BY DEF Fail, Release, Reply, Goto, tables
<1>3. TypeOK'
  BY <1>1, <1>2 DEF TypeOK, LC!TypeOK, Answers
<1>4. ASSUME NEW j \in Calls, j # i PROVE CallInv(j)'
  <2>1. pc[j] \in InTransaction => lock[call[j].id] = j /\ call[j].id \in Requests
    BY <1>1, CallFields DEF CallInv, KnowsItsRow, StepFitsCall, InTransaction
  <2>2. QED BY <1>1, <1>2, <1>4, <2>1, Undisturbed DEF TypeOK
<1>5. CallInv(i)'
  BY <1>1, <1>2 DEF TypeOK, CallInv, StepFitsCall, KnowsItsRow, SawPending,
    StagesItsRow, InTransaction
<1>6. LockHasOwner' /\ AbsentIsUnreviewed'
  BY <1>1, <1>2, NoneIsNoCall DEF TypeOK, LockHasOwner, AbsentIsUnreviewed,
    InTransaction
<1>7. QED BY <1>3, <1>4, <1>5, <1>6 DEF FlowInv

\* In the initial states nobody holds a lock and no call has begun.
LEMMA InitKeeps == Init => FlowInv
<1> SUFFICES ASSUME Init PROVE FlowInv
  OBVIOUS
<1>1. LC!LifecycleInv
  BY LC!InitIsLegal DEF Init
<1>2. TypeOK
  BY <1>1 DEF LC!LifecycleInv, Init, TypeOK, Absent, RowStatuses
<1>3. (\A i \in Calls : CallInv(i)) /\ LockHasOwner
  BY NoneIsNoCall DEF Init, CallInv, StepFitsCall, KnowsItsRow, SawPending,
    StagesItsRow, InTransaction, LockHasOwner
<1>4. AbsentIsUnreviewed
  BY Vocabulary DEF Init, LC!Init, AbsentIsUnreviewed, Absent, ReviewOutcomes
<1>5. QED BY <1>2, <1>3, <1>4 DEF FlowInv

\* The invariant of the two services, for any number of requests and calls.
THEOREM FlowInvariant == Spec => []FlowInv
<1>1. FlowInv /\ [Next]_vars => FlowInv'
  <2> SUFFICES ASSUME FlowInv, [Next]_vars PROVE FlowInv'
    OBVIOUS
  <2>1. ASSUME NEW i \in Calls, NEW c \in CallSpace, Receive(i, c) PROVE FlowInv'
    BY <2>1, ReceiveKeeps
  <2>2. ASSUME NEW i \in Calls, RejectMalformed(i) PROVE FlowInv'
    BY <2>2, RejectMalformedKeeps
  <2>3. ASSUME NEW i \in Calls, Step(i) PROVE FlowInv'
    BY <2>3, CreateInsertKeeps, CreateEventKeeps, ReviewFindKeeps, ReviewUpdateKeeps,
      ReviewEventKeeps, CommitKeeps, ReadDetailKeeps DEF Step
  <2>4. ASSUME NEW i \in Calls, Fail(i) PROVE FlowInv'
    BY <2>4, FailKeeps
  <2>5. CASE UNCHANGED vars
    BY <2>5 DEF vars, FlowInv, TypeOK, LC!TypeOK, CallInv, StepFitsCall, KnowsItsRow,
      SawPending, StagesItsRow, LockHasOwner, AbsentIsUnreviewed
  <2>6. QED BY <2>1, <2>2, <2>3, <2>4, <2>5 DEF Next
<1>2. QED BY InitKeeps, <1>1, PTL DEF Spec

\* Every variable keeps its type, for any number of requests, people and calls.
THEOREM TypeCorrect == Spec => []TypeOK
<1>1. FlowInv => TypeOK
  BY DEF FlowInv
<1>2. QED BY FlowInvariant, <1>1, PTL

-----------------------------------------------------------------------------
\* A COMMIT is one step of the life cycle: what the call saw still holds.
LEMMA CommitRefines ==
  ASSUME NEW i \in Calls, FlowInv, Commit(i)
  PROVE  LC!Next
<1> DEFINE r == call[i].id
           u == call[i].actor
<1>1. /\ TypeOK /\ CallInv(i) /\ AbsentIsUnreviewed
      /\ pc[i] = "commit"
  BY DEF FlowInv, Commit, At
<1>2. /\ status' = [status EXCEPT ![r] = staged[i].status]
      /\ reviewedBy' = [reviewedBy EXCEPT ![r] = staged[i].reviewedBy]
      /\ trail' = [trail EXCEPT ![r] = Append(@, staged[i].event)]
  BY DEF Commit
<1>3. CASE call[i] \in CreateCalls
  <2>1. call[i].op = "create" /\ r \in Requests /\ u \in Users
    BY <1>3, CallFields
  <2>2. /\ staged[i].status = "open" /\ staged[i].reviewedBy = Nobody
        /\ staged[i].event = LC!CreatedEvent(u, i) /\ status[r] = Absent
    BY <1>1, <2>1 DEF CallInv, StagesItsRow, KnowsItsRow, InTransaction
  <2>3. reviewedBy[r] = Nobody
    BY <1>1, <2>1, <2>2 DEF AbsentIsUnreviewed
  <2>4. reviewedBy' = reviewedBy
    BY <1>1, <1>2, <2>2, <2>3 DEF TypeOK, LC!TypeOK
  <2>5. LC!Create(r, u, i)
    BY <1>2, <2>2, <2>4, Vocabulary DEF LC!Create
  <2>6. QED BY <2>1, <2>5 DEF LC!Next
<1>4. CASE call[i] \in ReviewCalls
  <2>1. /\ call[i].op = "review" /\ r \in Requests /\ u \in Users
        /\ call[i].outcome \in ReviewOutcomes
    BY <1>4, CallFields
  <2>2. status[r] = seen[i] /\ seen[i] \in PENDING_REVIEW_STATUSES
    BY <1>1, <2>1 DEF CallInv, KnowsItsRow, SawPending, InTransaction
  <2>3. /\ staged[i].status = call[i].outcome /\ staged[i].reviewedBy = u
        /\ staged[i].event = LC!ReviewedEvent(status[r], call[i].outcome, u, i)
    BY <1>1, <2>1, <2>2 DEF CallInv, StagesItsRow
  <2>4. LC!Review(r, call[i].outcome, u, i)
    BY <1>2, <2>2, <2>3, Vocabulary DEF LC!Review
  <2>5. QED BY <2>1, <2>4, Vocabulary DEF LC!Next
<1>5. QED BY <1>1, <1>3, <1>4 DEF CallInv, StepFitsCall

\* Every other step leaves the tables alone.
LEMMA StepRefines == FlowInv /\ [Next]_vars => [LC!Next]_LC!vars
<1> SUFFICES ASSUME FlowInv, [Next]_vars PROVE [LC!Next]_LC!vars
  OBVIOUS
<1>1. ASSUME NEW i \in Calls, Commit(i) PROVE LC!Next
  BY <1>1, CommitRefines
<1>2. ASSUME NEW i \in Calls,
             \/ \E c \in CallSpace : Receive(i, c)
             \/ RejectMalformed(i) \/ Fail(i)
             \/ CreateInsert(i) \/ CreateEvent(i) \/ ReviewFind(i) \/ ReviewUpdate(i)
             \/ ReviewEvent(i) \/ ReadDetail(i)
      PROVE  UNCHANGED LC!vars
  BY <1>2 DEF LC!vars, tables, Receive, RejectMalformed, Fail, CreateInsert, CreateEvent,
    ReviewFind, ReviewUpdate, ReviewEvent, ReadDetail
<1>3. CASE UNCHANGED vars
  BY <1>3 DEF vars, LC!vars
<1>4. QED BY <1>1, <1>2, <1>3 DEF Next, Step

\* bliss-requests and bliss-reviews together implement the life cycle: however
\* their calls interleave and fail, the committed tables only ever change the
\* way RequestLifecycle says.
THEOREM FlowImplementsLifecycle == Spec => ImplementsLifecycle
<1>1. Init => LC!Init
  BY DEF Init
<1>2. QED BY <1>1, FlowInvariant, StepRefines, PTL DEF Spec, LC!Spec, ImplementsLifecycle

\* So row and trail never disagree.
THEOREM TrailsTellStatus == Spec => []TrailTellsStatus
<1>1. LC!LifecycleInv => TrailTellsStatus
  BY DEF LC!LifecycleInv, TrailTellsStatus
<1>2. QED BY <1>1, FlowImplementsLifecycle, LC!LifecycleIsLegal, PTL
  DEF ImplementsLifecycle

\* Every trail is a walk through the permitted transitions.
THEOREM TrailsAreLegalHistories == Spec => []TrailIsLegalHistory
<1>1. LC!LifecycleInv => TrailIsLegalHistory
  BY DEF LC!LifecycleInv, TrailIsLegalHistory
<1>2. QED BY <1>1, FlowImplementsLifecycle, LC!LifecycleIsLegal, PTL
  DEF ImplementsLifecycle

\* However many reviews of one request overlap, one of them decides it.
THEOREM RequestsAreReviewedOnce == Spec => []ReviewedOnce
<1>1. LC!LifecycleInv => ReviewedOnce
  BY DEF LC!LifecycleInv, ReviewedOnce
<1>2. QED BY <1>1, FlowImplementsLifecycle, LC!LifecycleIsLegal, PTL
  DEF ImplementsLifecycle

\* A request that was reviewed or rejected never changes again.
THEOREM DecisionsAreFinal == Spec => DecisionIsFinal
<1>1. FlowInv /\ [LC!Next]_LC!vars =>
        [\A r \in Requests : status[r] \in ReviewOutcomes =>
           /\ status'[r] = status[r] /\ reviewedBy'[r] = reviewedBy[r]
           /\ trail'[r] = trail[r]]_tables
  <2> SUFFICES ASSUME FlowInv, LC!Next, NEW r \in Requests, status[r] \in ReviewOutcomes
               PROVE  /\ status'[r] = status[r] /\ reviewedBy'[r] = reviewedBy[r]
                      /\ trail'[r] = trail[r]
    BY DEF LC!vars, tables
  <2>1. /\ DOMAIN status = Requests /\ DOMAIN reviewedBy = Requests
        /\ DOMAIN trail = Requests
    BY DEF FlowInv, TypeOK, LC!TypeOK
  <2>2. PICK q \in Requests, u \in Users, k \in Calls :
          \/ LC!Create(q, u, k)
          \/ \E to \in LC!ReviewOutcomes : LC!Review(q, to, u, k)
    BY DEF LC!Next
  <2>3. q # r
    BY <2>2, Vocabulary DEF LC!Create, LC!Review, Absent, ReviewOutcomes,
      PENDING_REVIEW_STATUSES
  <2>4. QED BY <2>1, <2>2, <2>3 DEF LC!Create, LC!Review
<1>2. QED BY <1>1, FlowInvariant, StepRefines, PTL DEF Spec, DecisionIsFinal
-----------------------------------------------------------------------------
(***************************************************************************)
(* What the answers of bliss-requests and bliss-reviews say is true, for   *)
(* any number of requests, people and calls. The argument: an answer is    *)
(* true of the tables when it is given, and the tables only ever grow: a   *)
(* trail keeps its prefix, and a decided request does not change at all.   *)
(***************************************************************************)

\* A call has no answer before it ends.
OnlyDoneIsAnswered(i) == pc[i] # "done" => answer[i] = None

\* A call leaves no event behind before it ends.
OnlyDoneIsOnRecord(i) ==
  pc[i] # "done" =>
    \A r \in Requests : \A n \in 1 .. Len(trail[r]) : trail[r][n].traceId # i

\* These two answers go to a validated call.
AnswersACall(i) ==
  answer[i] \in {"OK", "REQUEST_ALREADY_REVIEWED"} => call[i] \in CallSpace

\* While a review has only been checked, the one thing that may have happened
\* to its request is a decision.
OnlyDecidedMeanwhile(i) ==
  pc[i] = "update" => status[call[i].id] \in {seen[i]} \cup ReviewOutcomes

\* Between the two queries of a read, the trail explains the row it saw.
SawExplainedRow(i) ==
  pc[i] = "events" =>
    \E n \in 1 .. Len(trail[call[i].id]) : trail[call[i].id][n].toStatus = seen[i]

CreateIsRecorded(i) ==
  Confirmed(i, "create") =>
    Len(trail[call[i].id]) > 0 /\ trail[call[i].id][1].traceId = i

ReviewIsRecorded(i) ==
  Confirmed(i, "review") =>
    LET r == call[i].id IN
    /\ trail[r][Len(trail[r])].traceId = i
    /\ status[r] = call[i].outcome /\ reviewedBy[r] = call[i].actor

ConflictIsTrue(i) ==
  answer[i] = "REQUEST_ALREADY_REVIEWED" =>
    LET r == call[i].id IN
    status[r] \in ReviewOutcomes /\ trail[r][Len(trail[r])].traceId # i

ReadIsExplained(i) ==
  Confirmed(i, "detail") =>
    LET shown == timeline[i] full == trail[call[i].id] IN
    /\ Len(shown) \in 1 .. Len(full) /\ \A n \in 1 .. Len(shown) : shown[n] = full[n]
    /\ \E n \in 1 .. Len(shown) : shown[n].toStatus = seen[i]

AnswerInv(i) ==
  /\ OnlyDoneIsAnswered(i)
  /\ OnlyDoneIsOnRecord(i)
  /\ AnswersACall(i)
  /\ OnlyDecidedMeanwhile(i)
  /\ SawExplainedRow(i)
  /\ CreateIsRecorded(i)
  /\ ReviewIsRecorded(i)
  /\ ConflictIsTrue(i)
  /\ ReadIsExplained(i)
-----------------------------------------------------------------------------
\* What a step may do to request r: the trail keeps its prefix, a pending
\* request can only be decided, a decided one is left alone.
Grows(r) ==
  /\ Len(trail[r]) <= Len(trail'[r])
  /\ \A n \in 1 .. Len(trail[r]) : trail'[r][n] = trail[r][n]
  /\ status[r] # Absent => status'[r] \in {status[r]} \cup ReviewOutcomes
  /\ status[r] \in ReviewOutcomes =>
       status'[r] = status[r] /\ reviewedBy'[r] = reviewedBy[r] /\ trail'[r] = trail[r]

\* Every step is a step of the life cycle, so it only lets the tables grow.
LEMMA TablesGrow ==
  ASSUME FlowInv, [Next]_vars, NEW r \in Requests
  PROVE  Grows(r)
<1>1. /\ DOMAIN status = Requests /\ DOMAIN reviewedBy = Requests
      /\ DOMAIN trail = Requests /\ trail[r] \in Seq(Events)
  BY DEF FlowInv, TypeOK, LC!TypeOK, Events
<1>2. CASE UNCHANGED LC!vars
  BY <1>1, <1>2 DEF LC!vars, Grows
<1>3. ASSUME NEW q \in Requests, NEW u \in Users, NEW k \in Calls, LC!Create(q, u, k)
      PROVE  Grows(r)
  <2>1. CASE q = r
    BY <1>1, <1>3, <2>1, Vocabulary DEF LC!Create, Grows, Absent, ReviewOutcomes
  <2>2. CASE q # r
    BY <1>1, <1>3, <2>2 DEF LC!Create, Grows
  <2>3. QED BY <2>1, <2>2
<1>4. ASSUME NEW q \in Requests, NEW u \in Users, NEW k \in Calls,
             NEW to \in ReviewOutcomes, LC!Review(q, to, u, k)
      PROVE  Grows(r)
  <2>1. CASE q = r
    BY <1>1, <1>4, <2>1, Vocabulary DEF LC!Review, Grows, ReviewOutcomes,
      PENDING_REVIEW_STATUSES
  <2>2. CASE q # r
    BY <1>1, <1>4, <2>2 DEF LC!Review, Grows
  <2>3. QED BY <2>1, <2>2
<1>5. QED BY <1>2, <1>3, <1>4, StepRefines, Vocabulary DEF LC!Next

\* What the life cycle says of the two ends of a trail.
LEMMA EndsOfTrail ==
  ASSUME FlowInv, LC!LifecycleInv, NEW r \in Requests
  PROVE  /\ Len(trail[r]) \in Nat
         /\ status[r] = Absent => trail[r] = <<>>
         /\ status[r] # Absent => /\ Len(trail[r]) > 0
                                  /\ trail[r][Len(trail[r])].toStatus = status[r]
<1>1. trail[r] \in Seq(Events)
  BY DEF FlowInv, TypeOK, LC!TypeOK, Events
<1>2. QED BY <1>1, Vocabulary DEF LC!LifecycleInv, LC!TrailTellsStatus

\* The events that a transaction commits carry the id of its call.
LEMMA CommitLeavesItsTrace ==
  ASSUME NEW i \in Calls, FlowInv, Commit(i)
  PROVE  /\ call[i].id \in Requests
         /\ staged[i].event.traceId = i
         /\ trail'[call[i].id] = Append(trail[call[i].id], staged[i].event)
         /\ \A q \in Requests : q # call[i].id => trail'[q] = trail[q]
<1>1. /\ TypeOK /\ CallInv(i) /\ pc[i] = "commit"
  BY DEF FlowInv, Commit, At
<1>2. CASE call[i] \in CreateCalls
  <2>1. call[i].op = "create" /\ call[i].id \in Requests
    BY <1>2, CallFields
  <2>2. staged[i].event.traceId = i
    BY <1>1, <2>1 DEF CallInv, StagesItsRow, LC!CreatedEvent, LC!RequestEvent
  <2>3. QED BY <1>1, <2>1, <2>2 DEF Commit, TypeOK, LC!TypeOK
<1>3. CASE call[i] \in ReviewCalls
  <2>1. call[i].op = "review" /\ call[i].id \in Requests
    BY <1>3, CallFields
  <2>2. staged[i].event.traceId = i
    BY <1>1, <2>1 DEF CallInv, StagesItsRow, LC!ReviewedEvent, LC!RequestEvent
  <2>3. QED BY <1>1, <2>1, <2>2 DEF Commit, TypeOK, LC!TypeOK
<1>4. QED BY <1>1, <1>2, <1>3 DEF CallInv, StepFitsCall

\* Only Commit writes events, and a call that ended stays ended.
LEMMA RecordKeeps ==
  ASSUME FlowInv, Next, NEW j \in Calls, OnlyDoneIsOnRecord(j)
  PROVE  OnlyDoneIsOnRecord(j)'
<1>1. pc[j] = "done" => pc'[j] = "done"
  BY DEF FlowInv, TypeOK, Next, Step, Receive, RejectMalformed, Fail, CreateInsert,
    CreateEvent, ReviewFind, ReviewUpdate, HoldAndStage, ReviewEvent, Commit,
    ReadDetail, Reply, Goto, At, Steps
<1>2. ASSUME NEW i \in Calls, Commit(i) PROVE OnlyDoneIsOnRecord(j)'
  <2>1. pc'[i] = "done"
    BY <1>2 DEF Commit, Reply, Goto, FlowInv, TypeOK
  <2>2. ASSUME pc'[j] # "done", NEW r \in Requests, NEW n \in 1 .. Len(trail'[r])
        PROVE  trail'[r][n].traceId # j
    <3>1. i # j /\ pc[j] # "done" /\ trail[r] \in Seq(Events)
      BY <1>1, <2>1, <2>2 DEF FlowInv, TypeOK, LC!TypeOK, Events
    <3>2. CASE r # call[i].id
      BY <1>2, <3>1, <3>2, CommitLeavesItsTrace DEF OnlyDoneIsOnRecord
    <3>3. CASE r = call[i].id
      <4>1. /\ trail'[r] = Append(trail[r], staged[i].event)
            /\ staged[i].event.traceId = i
        BY <1>2, <3>3, CommitLeavesItsTrace
      <4>2. CASE n \in 1 .. Len(trail[r])
        BY <3>1, <4>1, <4>2 DEF OnlyDoneIsOnRecord
      <4>3. CASE n = Len(trail[r]) + 1
        BY <3>1, <4>1, <4>3
      <4>4. QED BY <3>1, <4>1, <4>2, <4>3
    <3>4. QED BY <3>2, <3>3
  <2>3. QED BY <2>2 DEF OnlyDoneIsOnRecord
<1>3. ASSUME trail' = trail PROVE OnlyDoneIsOnRecord(j)'
  BY <1>1, <1>3 DEF OnlyDoneIsOnRecord
<1>4. QED
  BY <1>2, <1>3 DEF Next, Step, tables, Receive, RejectMalformed, Fail, CreateInsert,
    CreateEvent, ReviewFind, ReviewUpdate, ReviewEvent, ReadDetail

\* What was true of a call stays true while others take steps.
LEMMA StillTrue ==
  ASSUME NEW j \in Calls, FlowInv, AnswerInv(j), \A r \in Requests : Grows(r),
         pc'[j] = pc[j], call'[j] = call[j], seen'[j] = seen[j],
         timeline'[j] = timeline[j], answer'[j] = answer[j],
         OnlyDoneIsOnRecord(j)', TypeOK'
  PROVE  AnswerInv(j)'
<1> DEFINE r == call[j].id
<1>1. \A q \in Requests : trail[q] \in Seq(Events) /\ Len(trail[q]) \in Nat
  BY DEF FlowInv, TypeOK, LC!TypeOK, Events
<1>2. StepFitsCall(j) /\ SawPending(j)
  BY DEF FlowInv, CallInv
<1>3. OnlyDoneIsAnswered(j)' /\ AnswersACall(j)'
  BY DEF AnswerInv, OnlyDoneIsAnswered, AnswersACall
<1>4. OnlyDecidedMeanwhile(j)'
  BY <1>2, CallFields DEF AnswerInv, OnlyDecidedMeanwhile, StepFitsCall, SawPending,
    Grows, Absent, PENDING_REVIEW_STATUSES
<1>5. SawExplainedRow(j)'
  BY <1>1, <1>2, CallFields DEF AnswerInv, SawExplainedRow, StepFitsCall, Grows
<1>6. answer[j] \in {"OK", "REQUEST_ALREADY_REVIEWED"} => r \in Requests
  BY CallFields DEF AnswerInv, AnswersACall, CallSpace
<1>7. CreateIsRecorded(j)'
  BY <1>1, <1>6 DEF AnswerInv, CreateIsRecorded, Confirmed, Grows
<1>8. ReviewIsRecorded(j)'
  <2>1. Confirmed(j, "review") => call[j].outcome \in ReviewOutcomes
    BY CallFields DEF AnswerInv, AnswersACall, CallSpace, Confirmed
  <2>2. QED BY <1>6, <2>1 DEF AnswerInv, ReviewIsRecorded, Confirmed, Grows
<1>9. ConflictIsTrue(j)'
  BY <1>6 DEF AnswerInv, ConflictIsTrue, Grows
<1>10. ReadIsExplained(j)'
  <2> SUFFICES ASSUME Confirmed(j, "detail")
               PROVE  /\ Len(timeline[j]) \in 1 .. Len(trail'[r])
                      /\ \A n \in 1 .. Len(timeline[j]) : timeline[j][n] = trail'[r][n]
                      /\ \E n \in 1 .. Len(timeline[j]) : timeline[j][n].toStatus = seen[j]
    BY DEF ReadIsExplained, Confirmed
  <2>1. /\ Len(timeline[j]) \in 1 .. Len(trail[r])
        /\ \A n \in 1 .. Len(timeline[j]) : timeline[j][n] = trail[r][n]
        /\ \E n \in 1 .. Len(timeline[j]) : timeline[j][n].toStatus = seen[j]
    BY DEF AnswerInv, ReadIsExplained
  <2>2. r \in Requests
    BY <1>6 DEF Confirmed
  <2>3. /\ Len(trail[r]) \in Nat /\ Len(trail[r]) <= Len(trail'[r])
        /\ \A n \in 1 .. Len(trail[r]) : trail'[r][n] = trail[r][n]
    BY <1>1, <2>2 DEF Grows
  <2>4. Len(trail'[r]) \in Nat
    BY <2>2 DEF TypeOK, LC!TypeOK
  <2>5. QED BY <2>1, <2>3, <2>4
<1>11. QED BY <1>3, <1>4, <1>5, <1>7, <1>8, <1>9, <1>10 DEF AnswerInv

\* A step of call i that gives no answer and does not touch the tables.
LEMMA NoAnswerYet ==
  ASSUME NEW i \in Calls, FlowInv, AnswerInv(i), pc[i] # "done",
         pc'[i] \in {"insert", "find", "event", "commit"},
         answer'[i] = answer[i], trail' = trail
  PROVE  AnswerInv(i)'
BY NoneIsNoAnswer DEF AnswerInv, OnlyDoneIsAnswered, OnlyDoneIsOnRecord, AnswersACall,
  OnlyDecidedMeanwhile, SawExplainedRow, CreateIsRecorded, ReviewIsRecorded,
  ConflictIsTrue, ReadIsExplained, Confirmed, Answers, Refusals

\* A step that ends call i with an answer that claims nothing about the tables.
LEMMA NoClaim ==
  ASSUME NEW i \in Calls, pc'[i] = "done",
         answer'[i] \notin {"OK", "REQUEST_ALREADY_REVIEWED"}
  PROVE  AnswerInv(i)'
BY DEF AnswerInv, OnlyDoneIsAnswered, OnlyDoneIsOnRecord, AnswersACall,
  OnlyDecidedMeanwhile, SawExplainedRow, CreateIsRecorded, ReviewIsRecorded,
  ConflictIsTrue, ReadIsExplained, Confirmed

\* A 409 is given for a request that another call has decided.
LEMMA ConflictAnswer ==
  ASSUME NEW i \in Calls, FlowInv, LC!LifecycleInv, AnswerInv(i),
         call[i] \in ReviewCalls, pc[i] # "done", pc'[i] = "done",
         status[call[i].id] \in ReviewOutcomes, status' = status, trail' = trail,
         call' = call, answer'[i] = "REQUEST_ALREADY_REVIEWED"
  PROVE  AnswerInv(i)'
<1> DEFINE r == call[i].id
<1>1. r \in Requests
  BY CallFields
<1>2. Len(trail[r]) \in Nat /\ Len(trail[r]) > 0
  BY <1>1, EndsOfTrail DEF Absent, ReviewOutcomes
<1>3. trail[r][Len(trail[r])].traceId # i
  BY <1>1, <1>2 DEF AnswerInv, OnlyDoneIsOnRecord
<1>4. QED BY <1>3 DEF AnswerInv, OnlyDoneIsAnswered, OnlyDoneIsOnRecord, AnswersACall,
  OnlyDecidedMeanwhile, SawExplainedRow, CreateIsRecorded, ReviewIsRecorded,
  ConflictIsTrue, ReadIsExplained, Confirmed, CallSpace

\* A review is refused for what it found, and goes on with what it found.
LEMMA ReviewFindAnswers ==
  ASSUME NEW i \in Calls, FlowInv, LC!LifecycleInv, AnswerInv(i), ReviewFind(i)
  PROVE  AnswerInv(i)'
<1> DEFINE s == status[call[i].id]
           refusal == ReviewRefusal(s, call[i].outcome)
<1>1. /\ TypeOK /\ CallInv(i)
  BY DEF FlowInv
<1>2. pc[i] = "find" /\ call[i] \in ReviewCalls /\ s \in RowStatuses
  BY <1>1, CallFields, Vocabulary
    DEF ReviewFind, At, CallInv, StepFitsCall, TypeOK, LC!TypeOK
<1>3. UNCHANGED <<status, reviewedBy, trail, call>> /\ seen'[i] = s
  BY <1>1 DEF ReviewFind, tables, TypeOK
<1>4. CASE refusal = None /\ pc'[i] = "update" /\ answer'[i] = answer[i]
  BY <1>2, <1>3, <1>4, NoneIsNoAnswer DEF AnswerInv, OnlyDoneIsAnswered,
    OnlyDoneIsOnRecord, AnswersACall, OnlyDecidedMeanwhile, SawExplainedRow,
    CreateIsRecorded, ReviewIsRecorded, ConflictIsTrue, ReadIsExplained, Confirmed,
    Answers, Refusals
<1>5. CASE refusal # None /\ pc'[i] = "done" /\ answer'[i] = refusal
  <2>1. /\ refusal # "OK"
        /\ refusal = "REQUEST_ALREADY_REVIEWED" => s \in ReviewOutcomes
    BY <1>2, <1>5 DEF ReviewRefusal, Absent, ReviewOutcomes, RowStatuses,
      REQUEST_STATUSES, PENDING_REVIEW_STATUSES
  <2>2. CASE refusal = "REQUEST_ALREADY_REVIEWED"
    BY <1>2, <1>3, <1>5, <2>1, <2>2, ConflictAnswer
  <2>3. CASE refusal # "REQUEST_ALREADY_REVIEWED"
    BY <1>5, <2>1, <2>3, NoClaim
  <2>4. QED BY <2>2, <2>3
<1>6. QED BY <1>1, <1>4, <1>5 DEF ReviewFind, Goto, Reply, TypeOK

\* When no row matches the UPDATE, the request has been decided meanwhile.
LEMMA ReviewUpdateAnswers ==
  ASSUME NEW i \in Calls, FlowInv, LC!LifecycleInv, AnswerInv(i), ReviewUpdate(i)
  PROVE  AnswerInv(i)'
<1>1. TypeOK /\ CallInv(i)
  BY DEF FlowInv
<1>2. pc[i] = "update" /\ call[i] \in ReviewCalls
  BY <1>1 DEF ReviewUpdate, At, CallInv, StepFitsCall
<1>3. UNCHANGED <<status, reviewedBy, trail, call, seen>>
  BY DEF ReviewUpdate, tables
<1>4. CASE HoldAndStage(i, call[i].id, ReviewedRow(i))
  BY <1>1, <1>2, <1>3, <1>4, NoAnswerYet DEF HoldAndStage, Goto, TypeOK
<1>5. CASE status[call[i].id] # seen[i] /\ Reply(i, "REQUEST_ALREADY_REVIEWED")
  <2>1. pc'[i] = "done" /\ answer'[i] = "REQUEST_ALREADY_REVIEWED"
    BY <1>1, <1>5 DEF Reply, Goto, TypeOK
  <2>2. status[call[i].id] \in ReviewOutcomes
    BY <1>2, <1>5 DEF AnswerInv, OnlyDecidedMeanwhile
  <2>3. QED BY <1>2, <1>3, <2>1, <2>2, ConflictAnswer
<1>6. QED BY <1>4, <1>5 DEF ReviewUpdate

\* A call that is confirmed after its COMMIT is the last one on record.
LEMMA CommitAnswers ==
  ASSUME NEW i \in Calls, FlowInv, LC!LifecycleInv, AnswerInv(i), Commit(i)
  PROVE  AnswerInv(i)'
<1> DEFINE r == call[i].id
           e == staged[i].event
<1>1. /\ TypeOK /\ CallInv(i) /\ pc[i] = "commit"
  BY DEF FlowInv, Commit, At
<1>2. /\ r \in Requests /\ e.traceId = i /\ trail'[r] = Append(trail[r], e)
      /\ trail[r] \in Seq(Events)
  BY CommitLeavesItsTrace DEF FlowInv, TypeOK, LC!TypeOK, Events
<1>3. /\ pc'[i] = "done" /\ answer'[i] \in {"OK", "FAILED"} /\ call' = call
      /\ status'[r] = staged[i].status /\ reviewedBy'[r] = staged[i].reviewedBy
  BY <1>1, <1>2 DEF Commit, Reply, Goto, TypeOK, LC!TypeOK
<1> HIDE DEF e
<1>4. trail'[r][Len(trail'[r])] = e
  BY <1>2
<1>5. call[i] \in CreateCalls \cup ReviewCalls
  BY <1>1 DEF CallInv, StepFitsCall
<1>6. CreateIsRecorded(i)'
  <2>1. ASSUME call[i].op = "create" PROVE trail'[r] = <<e>>
    <3>1. status[r] = Absent
      BY <1>1, <2>1 DEF CallInv, KnowsItsRow, InTransaction
    <3>2. trail[r] = <<>>
      BY <1>2, <3>1, EndsOfTrail
    <3>3. QED BY <1>2, <3>2
  <2>2. QED BY <1>2, <1>3, <2>1 DEF CreateIsRecorded, Confirmed
<1>7. ReviewIsRecorded(i)'
  BY <1>1, <1>2, <1>3, <1>4 DEF CallInv, StagesItsRow, ReviewIsRecorded, Confirmed
<1>8. ~Confirmed(i, "detail")'
  BY <1>3, <1>5, CallFields DEF Confirmed
<1>9. QED BY <1>3, <1>5, <1>6, <1>7, <1>8 DEF AnswerInv, OnlyDoneIsAnswered,
  OnlyDoneIsOnRecord, AnswersACall, OnlyDecidedMeanwhile, SawExplainedRow,
  ConflictIsTrue, ReadIsExplained, CallSpace

\* The second query of a read finds at least what explains the first.
LEMMA ReadDetailAnswers ==
  ASSUME NEW i \in Calls, FlowInv, LC!LifecycleInv, AnswerInv(i), ReadDetail(i)
  PROVE  AnswerInv(i)'
<1> DEFINE r == call[i].id
<1>1. TypeOK /\ CallInv(i)
  BY DEF FlowInv
<1>2. /\ call[i] \in DetailCalls /\ call[i].op = "detail" /\ r \in Requests
      /\ pc[i] \in {"find", "events"} /\ trail[r] \in Seq(Events)
  BY <1>1, CallFields
    DEF ReadDetail, At, CallInv, StepFitsCall, TypeOK, LC!TypeOK, Events
<1>3. UNCHANGED <<status, reviewedBy, trail, call>>
  BY DEF ReadDetail, tables
<1>4. CASE pc[i] = "find" /\ status[r] = Absent
  <2>1. pc'[i] = "done" /\ answer'[i] = "REQUEST_NOT_FOUND"
    BY <1>1, <1>4 DEF ReadDetail, At, Reply, Goto, TypeOK
  <2>2. QED BY <2>1, NoClaim
<1>5. CASE pc[i] = "find" /\ status[r] # Absent
  <2>1. pc'[i] = "events" /\ answer'[i] = answer[i] /\ seen'[i] = status[r]
    BY <1>1, <1>5 DEF ReadDetail, At, Reply, Goto, TypeOK
  <2>2. Len(trail[r]) \in 1 .. Len(trail[r])
        /\ trail[r][Len(trail[r])].toStatus = status[r]
    BY <1>2, <1>5, EndsOfTrail
  <2>3. SawExplainedRow(i)'
    BY <1>3, <2>1, <2>2 DEF SawExplainedRow
  <2>4. answer'[i] = None
    BY <1>5, <2>1 DEF AnswerInv, OnlyDoneIsAnswered
  <2>5. QED BY <1>3, <1>5, <2>1, <2>3, <2>4, NoneIsNoAnswer DEF AnswerInv,
    OnlyDoneIsAnswered, OnlyDoneIsOnRecord, AnswersACall, OnlyDecidedMeanwhile,
    CreateIsRecorded, ReviewIsRecorded, ConflictIsTrue, ReadIsExplained, Confirmed,
    Answers, Refusals
<1>6. CASE pc[i] = "events"
  <2>1. /\ pc'[i] = "done" /\ answer'[i] = "OK" /\ seen'[i] = seen[i]
        /\ timeline'[i] = trail[r]
    BY <1>1, <1>6 DEF ReadDetail, At, Reply, Goto, TypeOK
  <2>2. \E n \in 1 .. Len(trail[r]) : trail[r][n].toStatus = seen[i]
    BY <1>6 DEF AnswerInv, SawExplainedRow
  <2>3. Len(trail[r]) \in 1 .. Len(trail[r])
    BY <1>2, <2>2
  <2>4. ReadIsExplained(i)'
    BY <1>3, <2>1, <2>2, <2>3 DEF ReadIsExplained
  <2>5. QED BY <1>2, <1>3, <2>1, <2>4 DEF AnswerInv, OnlyDoneIsAnswered,
    OnlyDoneIsOnRecord, AnswersACall, OnlyDecidedMeanwhile, SawExplainedRow,
    CreateIsRecorded, ReviewIsRecorded, ConflictIsTrue, Confirmed, CallSpace
<1>7. QED BY <1>2, <1>4, <1>5, <1>6

\* Call i makes the answers true that it gives itself.
LEMMA OwnStepAnswers ==
  ASSUME NEW i \in Calls, FlowInv, LC!LifecycleInv, AnswerInv(i),
         \/ \E c \in CallSpace : Receive(i, c)
         \/ RejectMalformed(i)
         \/ Step(i)
         \/ Fail(i)
  PROVE  AnswerInv(i)'
<1>1. TypeOK
  BY DEF FlowInv
<1>2. ASSUME NEW c \in CallSpace, Receive(i, c) PROVE AnswerInv(i)'
  BY <1>1, <1>2, NoAnswerYet DEF Receive, Goto, tables, TypeOK
<1>3. CASE RejectMalformed(i)
  BY <1>1, <1>3, NoClaim DEF RejectMalformed, Reply, Goto, TypeOK
<1>4. CASE CreateInsert(i)
  BY <1>1, <1>4, NoAnswerYet DEF CreateInsert, At, Goto, tables, TypeOK
<1>5. CASE CreateEvent(i)
  BY <1>1, <1>5, NoAnswerYet DEF CreateEvent, At, Goto, tables, TypeOK
<1>6. CASE ReviewEvent(i)
  BY <1>1, <1>6, NoAnswerYet DEF ReviewEvent, At, Goto, tables, TypeOK
<1>7. CASE Fail(i)
  BY <1>1, <1>7, NoClaim DEF Fail, Reply, Goto, TypeOK
<1>8. QED BY <1>2, <1>3, <1>4, <1>5, <1>6, <1>7, ReviewFindAnswers, ReviewUpdateAnswers,
  CommitAnswers, ReadDetailAnswers DEF Step

\* Seeded events carry the id of no call.
LEMMA InitAnswers == Init => \A i \in Calls : AnswerInv(i)
<1> SUFFICES ASSUME Init, NEW i \in Calls PROVE AnswerInv(i)
  OBVIOUS
<1>1. PICK c, w \in [Requests -> Users] :
        trail = [r \in Requests |-> LC!SeedTrail(status[r], c[r], w[r])]
  BY DEF Init, LC!Init
<1>2. ASSUME NEW r \in Requests, NEW n \in 1 .. Len(trail[r])
      PROVE  trail[r][n].traceId = Seed
  <2>1. trail[r] = LC!SeedTrail(status[r], c[r], w[r])
    BY <1>1
  <2>2. CASE status[r] = LC!Absent
    <3>1. trail[r] = <<>>
      BY <2>1, <2>2 DEF LC!SeedTrail, LC!Absent
    <3>2. QED BY <3>1, <1>2
  <2>3. CASE status[r] # LC!Absent
    BY <1>2, <2>1, <2>3 DEF LC!SeedTrail, LC!CreatedEvent, LC!ReviewedEvent,
      LC!RequestEvent
  <2>4. QED BY <2>2, <2>3
<1>3. OnlyDoneIsOnRecord(i)
  BY <1>2, SeedIsNoCall DEF OnlyDoneIsOnRecord
<1>4. QED BY <1>3, NoneIsNoAnswer DEF Init, AnswerInv, OnlyDoneIsAnswered,
  AnswersACall, OnlyDecidedMeanwhile, SawExplainedRow, CreateIsRecorded,
  ReviewIsRecorded, ConflictIsTrue, ReadIsExplained, Confirmed, Answers, Refusals

\* Every answer that was ever given is still true of the tables.
THEOREM AnswersAreTrue == Spec => [](\A i \in Calls : AnswerInv(i))
<1> DEFINE AllAnswers == \A i \in Calls : AnswerInv(i)
<1>1. FlowInv /\ FlowInv' /\ LC!LifecycleInv /\ AllAnswers /\ [Next]_vars => AllAnswers'
  <2> SUFFICES ASSUME FlowInv, FlowInv', LC!LifecycleInv, AllAnswers, [Next]_vars,
                      NEW j \in Calls
               PROVE  AnswerInv(j)'
    OBVIOUS
  <2>1. TypeOK' /\ \A r \in Requests : Grows(r)
    BY TablesGrow DEF FlowInv
  <2>2. CASE UNCHANGED vars
    BY <2>2 DEF vars, AnswerInv, OnlyDoneIsAnswered, OnlyDoneIsOnRecord, AnswersACall,
      OnlyDecidedMeanwhile, SawExplainedRow, CreateIsRecorded, ReviewIsRecorded,
      ConflictIsTrue, ReadIsExplained, Confirmed
  <2>3. ASSUME NEW i \in Calls,
               \/ \E c \in CallSpace : Receive(i, c)
               \/ RejectMalformed(i)
               \/ Step(i)
               \/ Fail(i)
        PROVE  AnswerInv(j)'
    <3>1. CASE j = i
      BY <2>3, <3>1, OwnStepAnswers
    <3>2. CASE j # i
      <4>1. /\ pc'[j] = pc[j] /\ call'[j] = call[j] /\ seen'[j] = seen[j]
            /\ timeline'[j] = timeline[j] /\ answer'[j] = answer[j]
        BY <2>3, <3>2 DEF FlowInv, TypeOK, Step, Receive, RejectMalformed, Fail,
          CreateInsert, CreateEvent, ReviewFind, ReviewUpdate, HoldAndStage,
          ReviewEvent, Commit, ReadDetail, Reply, Goto
      <4>2. OnlyDoneIsOnRecord(j)'
        BY <2>3, RecordKeeps DEF AnswerInv, Next
      <4>3. QED BY <2>1, <4>1, <4>2, StillTrue
    <3>3. QED BY <3>1, <3>2
  <2>4. QED BY <2>2, <2>3 DEF Next
<1>2. Init => AllAnswers
  BY InitAnswers
<1>3. Spec => []LC!LifecycleInv
  BY FlowImplementsLifecycle, LC!LifecycleIsLegal, PTL DEF ImplementsLifecycle
<1>4. QED BY <1>1, <1>2, <1>3, FlowInvariant, PTL DEF Spec

\* A confirmed call is on record for good: two callers are never both told that
\* their review won.
THEOREM ConfirmedCallsAreRecorded == Spec => []ConfirmedIsRecorded
<1>1. (\A i \in Calls : AnswerInv(i)) => ConfirmedIsRecorded
  BY DEF AnswerInv, CreateIsRecorded, ReviewIsRecorded, ConfirmedIsRecorded
<1>2. QED BY <1>1, AnswersAreTrue, PTL

\* A 409 is given only for a request that another call has decided.
THEOREM ConflictsHaveWinners == Spec => []ConflictHasAWinner
<1>1. (\A i \in Calls : AnswerInv(i)) => ConflictHasAWinner
  BY DEF AnswerInv, ConflictIsTrue, ConflictHasAWinner
<1>2. QED BY <1>1, AnswersAreTrue, PTL

\* A detail answer explains the status it shows, although two queries read it.
THEOREM DetailsAreExplained == Spec => []DetailIsExplained
<1>1. (\A i \in Calls : AnswerInv(i)) => DetailIsExplained
  BY DEF AnswerInv, ReadIsExplained, DetailIsExplained
<1>2. QED BY <1>1, AnswersAreTrue, PTL
=============================================================================
