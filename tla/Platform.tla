------------------------------ MODULE Platform ------------------------------
(***************************************************************************)
(* What the services run on, one part at a time: a process with its cold   *)
(* start and its pool, access tokens at the edge, the pages of a list over *)
(* a changing table, and the seed of the database. A behaviour is that of  *)
(* the part it starts with; the others stay as they are.                   *)
(***************************************************************************)
EXTENDS Integers, Sequences, FiniteSets

CONSTANTS
  Calls, Concurrent, PoolMax, MaxTroubles,                \* the process and its pool
  Containers, Tokens, Routes, Lifetime, Tolerance, CacheTtl, MaxTime, MaxKeys,  \* the edge
  MaxRows, MaxInstant, PageSize,                          \* the listing
  Runs, Items, Nobody                                     \* the seed

\* A pool of some size, whatever the calls.
ASSUME ProcessSizes == IsFiniteSet(Calls) /\ PoolMax \in Nat \ {0} /\ MaxTroubles \in Nat

\* Durations are numbers, a policy is cached for a while, and a credential that is no
\* bearer token or that nobody here signed is no token.
ASSUME EdgeTimers ==
  /\ Lifetime \in Nat /\ Tolerance \in Nat /\ CacheTtl \in Nat \ {0}
  /\ MaxTime \in Nat /\ MaxKeys \in Nat \ {0}
  /\ Tokens \cap {"malformed", "forged"} = {}

\* A page has a row at least.
ASSUME ListingSizes == MaxRows \in Nat /\ MaxInstant \in Nat /\ PageSize \in Nat \ {0}

\* There is something to seed, and a run is somebody.
ASSUME SeedData ==
  /\ Items \in Seq({"open", "in_review", "reviewed", "rejected"}) /\ Items # <<>>
  /\ Nobody \notin Runs

VARIABLES
  part,   \* the part at work
  secret, db, troubles, app, setup, pools, idle, dead, open, kind, at, jobs, answer,
  written, reached,
  now, signingKey, readable, edge, authKey, cachedKey, token, policy, last, given, healed,
  createdAt, dropped, page, got, items, total, call, seen, start, created, reviewed,
  accounts, requests, pc, item, row, alone

processVars == <<secret, db, troubles, app, setup, pools, idle, dead, open, kind, at, jobs,
                 answer, written, reached>>
edgeVars == <<now, signingKey, readable, edge, authKey, cachedKey, token, policy, last, given,
              healed>>
listingVars == <<createdAt, dropped, page, got, items, total, call, seen, start, created, reviewed>>
seedVars == <<accounts, requests, pc, item, row, alone>>
vars == <<part, processVars, edgeVars, listingVars, seedVars>>

\* A process of bliss-requests.
Process == INSTANCE Container

\* Containers of the authorizer beside the one of bliss-auth, and the gateway.
Edge == INSTANCE Authorizer WITH secret <- signingKey

\* GET /requests, page after page.
List == INSTANCE Listing WITH MaxTime <- MaxInstant, at <- createdAt

\* Processes that run the seed, and callers of the API.
Seed == INSTANCE SeedScript

Parts == {"process", "edge", "listing", "seed"}

\* The parts that are not at work have one state only.
Init ==
  /\ part \in Parts
  /\ Process!Init /\ (part # "process" => \A c \in DOMAIN kind : kind[c] = "list")
  /\ Edge!Init /\ (part # "edge" => edge)
  /\ List!Init /\ (part # "listing" => \A r \in DOMAIN createdAt : createdAt[r] = 0)
  /\ Seed!Init

Next ==
  \/ part = "process" /\ Process!Next
     /\ UNCHANGED <<part, edgeVars, listingVars, seedVars>>
  \/ part = "edge" /\ Edge!Next
     /\ UNCHANGED <<part, processVars, listingVars, seedVars>>
  \/ part = "listing" /\ List!Next
     /\ UNCHANGED <<part, processVars, edgeVars, seedVars>>
  \/ part = "seed" /\ Seed!Next
     /\ UNCHANGED <<part, processVars, edgeVars, listingVars>>

\* What the process awaits settles; nothing else is promised.
Fairness ==
  /\ WF_processVars(part = "process" /\ Process!BuildApp)
  /\ WF_processVars(part = "process" /\ Process!ReadSecret)
  /\ \A c \in Calls : WF_processVars(part = "process" /\ Process!Serve(c))

Spec == Init /\ [][Next]_vars /\ Fairness
-----------------------------------------------------------------------------
\* However many calls meet in a cold start, the process opens one pool, with no
\* more clients than it may have, and counts none that nobody can have.
PoolIsWhole == Process!PoolIsWhole

\* A creation that got a 503, which invites a retry, wrote nothing, and a health
\* check that says healthy has reached the database during its call.
AnswersAreTrue == Process!AnswersAreTrue

\* Every call is answered, whatever the database and the pool do.
EveryCallEnds ==
  \A c \in Calls : (part = "process" /\ at[c] # "away") ~> at[c] = "done"

\* A token is let in while it is valid, and refused when it is not, but for the
\* tolerance of the clocks, the life of a cached policy and a replaced key.
AnswersFollowTheToken == Edge!AnswersFollowTheToken

\* A walk through the pages shows every row once while nothing changes, misses at most
\* one row for each review, and repeats at most one for each creation.
WalkShowsTheRows == List!WalkShowsTheRows

\* A run of the seed that succeeds with nobody else writing leaves exactly the
\* seed, wherever earlier runs were cut short.
RerunRestoresTheSeed == Seed!RerunRestoresTheSeed
=============================================================================
