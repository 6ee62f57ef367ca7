-------------------------- MODULE RequestContracts --------------------------
(***************************************************************************)
(* The domain vocabulary that the API, the backoffice and the automation   *)
(* share (packages/contracts/src/enums.ts and request.schema.ts), and the  *)
(* shape of one row of the audit trail (table request_events).             *)
(***************************************************************************)

REQUEST_STATUSES == {"open", "in_review", "reviewed", "rejected"}

REQUEST_EVENT_TYPES == {"created", "status_changed", "reviewed"}

\* What each status may still become; the last two are final.
REQUEST_STATUS_TRANSITIONS ==
  [open      |-> {"in_review", "reviewed", "rejected"},
   in_review |-> {"reviewed", "rejected"},
   reviewed  |-> {},
   rejected  |-> {}]

canTransition(from, to) == to \in REQUEST_STATUS_TRANSITIONS[from]

\* The statuses of the daily review queue.
PENDING_REVIEW_STATUSES == {"open", "in_review"}

\* The statuses that PATCH /reviews/{id} accepts: ReviewRequestPayload.
ReviewOutcomes == {"reviewed", "rejected"}

\* "absent" stands for a request without a committed row, and for the null
\* fromStatus of the event that creates one.
Absent == "absent"
RowStatuses == REQUEST_STATUSES \cup {Absent}

\* A row of request_events. The column created_at is the position in the trail.
RequestEvent(type, from, to, actor, traceId) ==
  [type |-> type, fromStatus |-> from, toStatus |-> to,
   actor |-> actor, traceId |-> traceId]

RequestEvents(actors, traces) ==
  [type : REQUEST_EVENT_TYPES, fromStatus : RowStatuses,
   toStatus : REQUEST_STATUSES, actor : actors, traceId : traces]
=============================================================================
