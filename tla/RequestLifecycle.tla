-------------------------- MODULE RequestLifecycle --------------------------
(***************************************************************************)
(* What bliss-requests and bliss-reviews together promise about a request: *)
(* it is opened once, it is reviewed at most once, and the row and its     *)
(* audit trail change in the same instant. There are no calls here, no     *)
(* transactions and no failures: module RequestFlow has them and is shown  *)
(* to implement this one.                                                  *)
(***************************************************************************)
EXTENDS RequestContracts, Integers, Sequences, TLAPS

CONSTANTS
  Requests,  \* ids of requests
  Users,     \* people who open and review requests
  Calls,     \* HTTP calls; a call's id is the correlation id it leaves behind
  Nobody,    \* the null of reviewed_by
  Seed       \* the correlation id the seed script leaves behind

VARIABLES
  status,      \* status[r]: requests.status of the committed row, or Absent
  reviewedBy,  \* reviewedBy[r]: requests.reviewed_by
  trail        \* trail[r]: the rows of request_events for r, oldest first

vars == <<status, reviewedBy, trail>>

Events == RequestEvents(Users, Calls \cup {Seed})

CreatedEvent(u, k) == RequestEvent("created", Absent, "open", u, k)
ReviewedEvent(from, to, u, k) == RequestEvent("reviewed", from, to, u, k)

\* The rows that seed.ts inserts beside a request with status s, created by c
\* and, when s is final, reviewed by w.
SeedTrail(s, c, w) ==
  CASE s = Absent      -> <<>>
    [] s = "open"      -> <<CreatedEvent(c, Seed)>>
    [] s = "in_review" -> <<CreatedEvent(c, Seed),
                            RequestEvent("status_changed", "open", s, c, Seed)>>
    [] OTHER           -> <<CreatedEvent(c, Seed), ReviewedEvent("open", s, w, Seed)>>

\* Any mixture of requests that the seed script left and ids not yet used.
Init ==
  \E creator, reviewer \in [Requests -> Users] :
    /\ status \in [Requests -> RowStatuses]
    /\ reviewedBy = [r \in Requests |->
                       IF status[r] \in ReviewOutcomes THEN reviewer[r] ELSE Nobody]
    /\ trail = [r \in Requests |-> SeedTrail(status[r], creator[r], reviewer[r])]

\* User u opens request r in call k.
Create(r, u, k) ==
  /\ status[r] = Absent
  /\ status' = [status EXCEPT ![r] = "open"]
  /\ trail' = [trail EXCEPT ![r] = Append(@, CreatedEvent(u, k))]
  /\ UNCHANGED reviewedBy

\* User u decides the pending request r in call k.
Review(r, to, u, k) ==
  /\ status[r] \in PENDING_REVIEW_STATUSES
  /\ status' = [status EXCEPT ![r] = to]
  /\ reviewedBy' = [reviewedBy EXCEPT ![r] = u]
  /\ trail' = [trail EXCEPT ![r] = Append(@, ReviewedEvent(status[r], to, u, k))]

Next ==
  \E r \in Requests, u \in Users, k \in Calls :
    \/ Create(r, u, k)
    \/ \E to \in ReviewOutcomes : Review(r, to, u, k)

Spec == Init /\ [][Next]_vars
-----------------------------------------------------------------------------
\* Every column holds what its enum or its foreign key permits.
TypeOK ==
  /\ status \in [Requests -> RowStatuses]
  /\ reviewedBy \in [Requests -> Users \cup {Nobody}]
  /\ trail \in [Requests -> Seq(Events)]

\* A request has a row exactly when it has a trail; the trail starts with its
\* creation and its latest event is the one that gave the row its status.
TrailTellsStatus ==
  \A r \in Requests :
    /\ status[r] = Absent <=> Len(trail[r]) = 0
    /\ Len(trail[r]) > 0 =>
         /\ trail[r][1].type = "created"
         /\ trail[r][Len(trail[r])].toStatus = status[r]

\* Read from the oldest event on, the trail is a walk through the permitted
\* transitions in which each event leaves from where the one before it arrived.
TrailIsLegalHistory ==
  \A r \in Requests : \A n \in 1 .. Len(trail[r]) - 1 :
    /\ trail[r][n + 1].fromStatus = trail[r][n].toStatus
    /\ canTransition(trail[r][n].toStatus, trail[r][n + 1].toStatus)

\* A review event can only be the last one, it names the person the row names,
\* and a row with a final status has one: nobody reviews what was reviewed.
ReviewedOnce ==
  \A r \in Requests :
    /\ \A n \in 1 .. Len(trail[r]) :
         trail[r][n].type = "reviewed" => /\ n = Len(trail[r])
                                          /\ status[r] \in ReviewOutcomes
                                          /\ reviewedBy[r] = trail[r][n].actor
    /\ status[r] \in ReviewOutcomes => trail[r][Len(trail[r])].type = "reviewed"

LifecycleInv ==
  TypeOK /\ TrailTellsStatus /\ TrailIsLegalHistory /\ ReviewedOnce
-----------------------------------------------------------------------------
\* The three invariants for one request, in terms of its row and its trail.
LegalRow(s, by, tr) ==
  /\ tr \in Seq(Events)
  /\ s = Absent <=> Len(tr) = 0
  /\ Len(tr) > 0 => tr[1].type = "created" /\ tr[Len(tr)].toStatus = s
  /\ \A n \in 1 .. Len(tr) - 1 :
       /\ tr[n + 1].fromStatus = tr[n].toStatus
       /\ canTransition(tr[n].toStatus, tr[n + 1].toStatus)
  /\ \A n \in 1 .. Len(tr) :
       tr[n].type = "reviewed" =>
         n = Len(tr) /\ s \in ReviewOutcomes /\ by = tr[n].actor
  /\ s \in ReviewOutcomes => tr[Len(tr)].type = "reviewed"

\* The invariant holds when it holds of every request by itself.
LEMMA LegalRows ==
  LifecycleInv <=> /\ TypeOK
                   /\ \A r \in Requests : LegalRow(status[r], reviewedBy[r], trail[r])
BY DEF LifecycleInv, TypeOK, TrailTellsStatus, TrailIsLegalHistory, ReviewedOnce,
  LegalRow

\* Seeded requests start with a legal history.
LEMMA InitIsLegal == Init => LifecycleInv
<1> SUFFICES ASSUME Init PROVE LifecycleInv
  OBVIOUS
<1>1. PICK c, w \in [Requests -> Users] :
        /\ status \in [Requests -> RowStatuses]
        /\ reviewedBy = [r \in Requests |->
                           IF status[r] \in ReviewOutcomes THEN w[r] ELSE Nobody]
        /\ trail = [r \in Requests |-> SeedTrail(status[r], c[r], w[r])]
  BY DEF Init
<1> DEFINE Opened(r) == CreatedEvent(c[r], Seed)
           Moved(r) == RequestEvent("status_changed", "open", "in_review", c[r], Seed)
           Decided(r) == ReviewedEvent("open", status[r], w[r], Seed)
<1>2. ASSUME NEW r \in Requests
      PROVE  \/ status[r] = Absent /\ trail[r] = <<>>
             \/ status[r] = "open" /\ trail[r] = <<Opened(r)>>
             \/ status[r] = "in_review" /\ trail[r] = <<Opened(r), Moved(r)>>
             \/ /\ status[r] \in ReviewOutcomes
                /\ trail[r] = <<Opened(r), Decided(r)>>
                /\ reviewedBy[r] = w[r]
  BY <1>1 DEF SeedTrail, Absent, ReviewOutcomes, RowStatuses, REQUEST_STATUSES
<1>3. ASSUME NEW r \in Requests
      PROVE  /\ Moved(r) \in Events /\ Moved(r).type = "status_changed"
             /\ Moved(r).fromStatus = "open" /\ Moved(r).toStatus = "in_review"
             /\ Opened(r) \in Events /\ Opened(r).type = "created"
             /\ Opened(r).toStatus = "open"
  BY DEF CreatedEvent, RequestEvent, Events, RequestEvents, RowStatuses,
    REQUEST_STATUSES, REQUEST_EVENT_TYPES
<1>4. ASSUME NEW r \in Requests, status[r] \in ReviewOutcomes
      PROVE  /\ Decided(r) \in Events
             /\ Decided(r).type = "reviewed" /\ Decided(r).fromStatus = "open"
             /\ Decided(r).toStatus = status[r] /\ Decided(r).actor = w[r]
  BY <1>4 DEF ReviewedEvent, RequestEvent, Events, RequestEvents, RowStatuses,
    REQUEST_STATUSES, REQUEST_EVENT_TYPES, ReviewOutcomes
<1> HIDE DEF Opened, Moved, Decided
<1>5. ASSUME NEW r \in Requests PROVE LegalRow(status[r], reviewedBy[r], trail[r])
  <2>1. CASE status[r] = Absent /\ trail[r] = <<>>
    BY <2>1 DEF LegalRow, Absent, ReviewOutcomes
  <2>2. CASE status[r] = "open" /\ trail[r] = <<Opened(r)>>
    BY <2>2, <1>3 DEF LegalRow, Absent, ReviewOutcomes
  <2>3. CASE status[r] = "in_review" /\ trail[r] = <<Opened(r), Moved(r)>>
    BY <2>3, <1>3 DEF LegalRow, Absent, ReviewOutcomes, canTransition,
      REQUEST_STATUS_TRANSITIONS
  <2>4. CASE /\ status[r] \in ReviewOutcomes
             /\ trail[r] = <<Opened(r), Decided(r)>>
             /\ reviewedBy[r] = w[r]
    BY <2>4, <1>3, <1>4 DEF LegalRow, Absent, ReviewOutcomes, canTransition,
      REQUEST_STATUS_TRANSITIONS
  <2>5. QED BY <1>2, <2>1, <2>2, <2>3, <2>4
<1>6. TypeOK
  <2>1. \A r \in Requests : trail[r] \in Seq(Events)
    BY <1>5 DEF LegalRow
  <2>2. QED BY <1>1, <2>1 DEF TypeOK
<1>7. QED BY <1>5, <1>6, LegalRows

\* Opening a request that has no row starts a legal history.
LEMMA CreateIsLegal ==
  ASSUME NEW r \in Requests, NEW u \in Users, NEW k \in Calls,
         LifecycleInv, Create(r, u, k)
  PROVE  LifecycleInv'
<1> DEFINE e == CreatedEvent(u, k)
<1>1. TypeOK /\ \A q \in Requests : LegalRow(status[q], reviewedBy[q], trail[q])
  BY LegalRows
<1>2. e \in Events /\ e.type = "created" /\ e.toStatus = "open"
  BY DEF CreatedEvent, RequestEvent, Events, RequestEvents, RowStatuses,
    REQUEST_STATUSES, REQUEST_EVENT_TYPES
<1>3. trail[r] = <<>>
  BY <1>1 DEF LegalRow, Create
<1>4. /\ status' = [status EXCEPT ![r] = "open"]
      /\ trail' = [trail EXCEPT ![r] = Append(@, e)]
      /\ reviewedBy' = reviewedBy
  BY DEF Create
<1> HIDE DEF e
<1>5. trail'[r] = <<e>> /\ status'[r] = "open"
  BY <1>1, <1>3, <1>4 DEF TypeOK
<1>6. LegalRow(status'[r], reviewedBy'[r], trail'[r])
  BY <1>2, <1>5 DEF LegalRow, Absent, ReviewOutcomes
<1>7. \A q \in Requests : LegalRow(status'[q], reviewedBy'[q], trail'[q])
  BY <1>1, <1>4, <1>6 DEF TypeOK
<1>8. TypeOK'
  BY <1>1, <1>4, <1>7 DEF TypeOK, LegalRow, RowStatuses, REQUEST_STATUSES
<1>9. QED BY <1>7, <1>8 DEF LifecycleInv, TrailTellsStatus, TrailIsLegalHistory,
  ReviewedOnce, LegalRow

\* Deciding a pending request ends a legal history.
LEMMA ReviewIsLegal ==
  ASSUME NEW r \in Requests, NEW u \in Users, NEW k \in Calls,
         NEW to \in ReviewOutcomes, LifecycleInv, Review(r, to, u, k)
  PROVE  LifecycleInv'
<1> DEFINE e == ReviewedEvent(status[r], to, u, k)
           n == Len(trail[r])
<1>1. TypeOK /\ \A q \in Requests : LegalRow(status[q], reviewedBy[q], trail[q])
  BY LegalRows
<1>2. /\ e \in Events /\ e.type = "reviewed" /\ e.actor = u
      /\ e.fromStatus = status[r] /\ e.toStatus = to
  BY <1>1 DEF TypeOK, ReviewedEvent, RequestEvent, Events, RequestEvents, RowStatuses,
    REQUEST_STATUSES, REQUEST_EVENT_TYPES, ReviewOutcomes
<1>3. /\ status' = [status EXCEPT ![r] = to]
      /\ reviewedBy' = [reviewedBy EXCEPT ![r] = u]
      /\ trail' = [trail EXCEPT ![r] = Append(@, e)]
      /\ status[r] \in PENDING_REVIEW_STATUSES
  BY DEF Review
<1>4. /\ trail[r] \in Seq(Events) /\ n \in Nat \ {0}
      /\ trail[r][n].toStatus = status[r] /\ trail[r][1].type = "created"
  BY <1>1, <1>3 DEF LegalRow, PENDING_REVIEW_STATUSES, Absent
<1>5. \A m \in 1 .. n : trail[r][m].type # "reviewed"
  BY <1>1, <1>3 DEF LegalRow, PENDING_REVIEW_STATUSES, ReviewOutcomes
<1>6. canTransition(status[r], to)
  BY <1>3 DEF canTransition, REQUEST_STATUS_TRANSITIONS, PENDING_REVIEW_STATUSES,
    ReviewOutcomes
<1> HIDE DEF e
<1>7. /\ status'[r] = to /\ reviewedBy'[r] = u /\ trail'[r] = Append(trail[r], e)
  BY <1>1, <1>3 DEF TypeOK
<1>8. /\ Len(trail'[r]) = n + 1 /\ trail'[r][n + 1] = e
      /\ \A m \in 1 .. n : trail'[r][m] = trail[r][m]
      /\ trail'[r] \in Seq(Events)
  BY <1>2, <1>4, <1>7
<1>9. LegalRow(status'[r], reviewedBy'[r], trail'[r])
  <2>1. \A m \in 1 .. n - 1 :
          /\ trail[r][m + 1].fromStatus = trail[r][m].toStatus
          /\ canTransition(trail[r][m].toStatus, trail[r][m + 1].toStatus)
    BY <1>1 DEF LegalRow
  <2> HIDE DEF n
  <2>0. n \in Nat \ {0} /\ Len(trail'[r]) = n + 1
    BY <1>4, <1>8
  <2>2. ASSUME NEW m \in 1 .. Len(trail'[r]) - 1
        PROVE  /\ trail'[r][m + 1].fromStatus = trail'[r][m].toStatus
               /\ canTransition(trail'[r][m].toStatus, trail'[r][m + 1].toStatus)
    <3>1. CASE m = n
      <4>1. trail'[r][m] = trail[r][n] /\ trail'[r][m + 1] = e
        BY <3>1, <1>4, <1>8
      <4>2. QED BY <4>1, <1>2, <1>4, <1>6
    <3>2. CASE m < n
      <4>1. m \in 1 .. n - 1 /\ m \in 1 .. n /\ m + 1 \in 1 .. n
        BY <3>2, <2>0, <1>4
      <4>2. trail'[r][m] = trail[r][m] /\ trail'[r][m + 1] = trail[r][m + 1]
        BY <4>1, <1>8
      <4>3. QED BY <4>1, <4>2, <2>1
    <3>3. QED BY <3>1, <3>2, <1>4, <1>8
  <2>3. ASSUME NEW m \in 1 .. Len(trail'[r]), trail'[r][m].type = "reviewed"
        PROVE  m = Len(trail'[r]) /\ reviewedBy'[r] = trail'[r][m].actor
    BY <2>3, <1>2, <1>4, <1>5, <1>7, <1>8
  <2>4. to # Absent /\ Len(trail'[r]) > 0 /\ trail'[r][1].type = "created"
    BY <1>4, <1>8 DEF ReviewOutcomes, Absent
  <2>5. trail'[r][Len(trail'[r])] = e
    BY <1>4, <1>8
  <2>6. /\ trail'[r][Len(trail'[r])].toStatus = status'[r]
        /\ trail'[r][Len(trail'[r])].type = "reviewed"
        /\ status'[r] \in ReviewOutcomes /\ status'[r] # Absent
    BY <2>4, <2>5, <1>2, <1>7
  <2>7. trail'[r] \in Seq(Events) /\ Len(trail'[r]) # 0
    BY <2>4, <1>8
  <2>8. QED BY <2>2, <2>3, <2>4, <2>6, <2>7 DEF LegalRow
<1>10. \A q \in Requests : LegalRow(status'[q], reviewedBy'[q], trail'[q])
  BY <1>1, <1>3, <1>9 DEF TypeOK
<1>11. TypeOK'
  BY <1>1, <1>3, <1>10 DEF TypeOK, LegalRow, RowStatuses, REQUEST_STATUSES, ReviewOutcomes
<1>12. QED BY <1>10, <1>11 DEF LifecycleInv, TrailTellsStatus, TrailIsLegalHistory,
  ReviewedOnce, LegalRow

\* Whatever is created and reviewed, in any order, by anyone: rows and trails
\* agree, trails are legal histories, and every request is reviewed at most once.
THEOREM LifecycleIsLegal == Spec => []LifecycleInv
<1>1. LifecycleInv /\ [Next]_vars => LifecycleInv'
  <2> SUFFICES ASSUME LifecycleInv, [Next]_vars PROVE LifecycleInv'
    OBVIOUS
  <2>1. CASE Next
    BY <2>1, CreateIsLegal, ReviewIsLegal DEF Next
  <2>2. CASE UNCHANGED vars
    BY <2>2 DEF vars, LifecycleInv, TypeOK, TrailTellsStatus, TrailIsLegalHistory,
      ReviewedOnce
  <2>3. QED BY <2>1, <2>2
<1>2. QED BY InitIsLegal, <1>1, PTL DEF Spec
=============================================================================
