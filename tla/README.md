# Verification of Saúde Bliss

This directory holds TLA+ specifications of the request management system in
`src/`: a backoffice in which people open service requests and review them once
a day, an HTTP API made of four Lambda functions, and a Postgres database. The
specifications are translated from the source; line numbers of each definition
are in `PROJECT.json` under `map`.

* [The system](#the-system)
* [What is modelled](#what-is-modelled)
* [How the modules correspond to the code](#how-the-modules-correspond-to-the-code)
* [Runs, bounds and fairness](#runs-bounds-and-fairness)
* [What the checks found in the code](#what-the-checks-found-in-the-code)
* [What is proved](#what-is-proved)
* [What is not modelled](#what-is-not-modelled)
* [Plan](#plan)

## The system

```
 browser tabs (apps/web)                API Gateway
   SessionProvider, screens  --HTTP-->   bliss-authorizer  (JWT -> policy, cached)
                                         bliss-requests    POST/GET /requests, GET /requests/{id}
                                         bliss-reviews     PATCH /reviews/{id}, GET /reviews/{id}/timeline
                                         bliss-auth        /auth/login, /refresh, /logout, /me
                                              |  one container per call in flight,
                                              |  a pool of one connection each
                                         Postgres: requests, request_events,
                                                   users, refresh_tokens
```

Functions never call each other. They meet in the database only, and every
statement is awaited, so between two statements of one call any number of
statements of other calls may run. There are no queues and no background jobs in
the deployed system (`purgeExpired` exists and is called by nothing).

### Components

| Component | State it keeps | Operations | What makes it correct |
|---|---|---|---|
| `packages/contracts` | none | status enums, `canTransition`, payload schemas | final statuses have no way out; the review payload names final statuses only |
| `bliss-requests` | tables `requests`, `request_events` | `create`, `getById`, `list` | row and first event appear together; a detail explains itself; pages partition the list |
| `bliss-reviews` | the same tables | `review`, `getTimeline` | one winner per request; row and trail agree; a 409 is true |
| `bliss-auth` | tables `users`, `refresh_tokens` | `login`, `refresh`, `logout`, `me`, `purgeExpired` | one valid token per session; ended sessions stay ended; only one's own sessions end |
| `bliss-authorizer` | cached signing key; API Gateway caches its policies | `authorize` | a valid token is allowed on every route; a failure does not stick |
| `core/app`, `core/utils` | per container: `proxyPromise`; per call: request context | `createLambdaHandler`, `createApp`, `healthRoute`, `runLocal` | every call is answered; 503 and "healthy" are true |
| `core/config`, `core/security` | caches of secrets, environment and key | `getSecret...`, `getKey`, `hash`, `verify` | copies of one key differ for a bounded time only |
| `packages/database` | per container: `pool`, `database`, `connecting` | `getDb`, `closeDb`, `migrate`, `seed` | one pool per container, none of its clients lost; a seed that succeeds leaves the seed |
| backoffice session | a `localStorage` key, and per tab access token, `user`, `loading` | restore, `login`, `logout`, 401 interceptor | the server keeps no token that the browser forgot; no false reuse alarm |
| backoffice screens | rows, the query they are for, pending action, error | load, confirm, submit, paginate, filter, refresh | what is shown belongs to what was asked; nothing waits for ever |
| `apps/automation` | the page objects' waits | `waitForQuery`, `confirm`, `waitForCheck` | a wait ends on what it waits for |
| `.github` | jobs, fragments, the report, the comment | `ci.yml`, `deploy.yml`, the report scripts | red never looks green; only what was asked for is touched |
| `check-route-parity` | none | compare router, Terraform and serverless.yml | what passes is served |

### What is hard here

* Two reviewers decide the same request at once. The service checks the status
  in one statement and writes in another one, and the write may wait for the
  other reviewer's transaction, which may still roll back.
* A call may be cut off anywhere (function timeout, container death, connection
  loss), before or after its commit, and the caller cannot tell.
* A detail is two queries without a transaction.
* A refresh reads its token in one statement and exchanges it in another one;
  tabs, retries and stale pages present the same token again; reuse detection
  ends all sessions of a user while others of his calls are in flight.
* Answers reach the browser in an order that differs from the one of the
  questions; two tabs share one storage key.
* A promise cached at module level remembers a failure for ever; a policy cached
  by the gateway remembers one for a while.
* A page of the list is two queries, cut by offset from rows that change.
* A process may hold a pool of one client while two queries of one call, a
  transaction and a health probe want it, and the database goes away.
* A step of the pipeline reports the status of the last command of its pipe, and
  conditions with `always()` have to tell failed, skipped and cancelled jobs apart.

`PROJECT.json` lists each of these under `hazards` with the line where it bites
and the properties that would notice it going wrong.

## What is modelled

| Module | Models | Kind |
|---|---|---|
| `RequestContracts` | the vocabulary of `packages/contracts` and the shape of one row of `request_events` | operators |
| `RequestLifecycle` | what the API promises about a request: one creation, at most one review, row and trail in the same instant | abstract specification, with its proofs |
| `RequestFlow` | `create`, `getById` (bliss-requests), `review`, `getTimeline` (bliss-reviews), statement by statement, with row locks, rollbacks and calls cut off | detailed specification |
| `RequestFlowProofs` | its inductive invariant, that it implements `RequestLifecycle`, and that its answers are true | proofs |
| `SessionLedger` | what a client may rely on about refresh tokens | abstract specification, with its proofs |
| `AuthSessions` | `login`, `refresh`, `logout`, `purgeExpired` (bliss-auth), statement by statement, over `refresh_tokens` | detailed specification |
| `AuthSessionsProofs` | its inductive invariant, and that it implements `SessionLedger` | proofs |
| `BrowserSession` | the tabs of a browser and their calls to bliss-auth | detailed specification |
| `BrowserSessionProofs` | its inductive invariant, and its properties | proofs |
| `ListScreen`, `QueueScreen`, `CreateScreen`, `DetailScreen`, `StatusScreen` | the screens of the backoffice, each with its calls, the people (or the automation) in front of it and the others at work behind the API | specifications of their own |
| `Container` | one process: cold start, `getDb`, pool, answers | specification |
| `Authorizer` | signing, verification, the gateway's policy cache | specification |
| `Listing` | a walk through the pages of `GET /requests` | specification |
| `SeedScript` | `seed.ts` statement by statement | specification |
| `PipelineReport` | the report scripts as operators, and the outcome of a piped step | operators |
| `CiRun`, `DeployRun` | the runs of `ci.yml` and `deploy.yml` | specifications |
| `RouteTables` | the declarations of routes, `check-route-parity.ts`, the gateways | specification |
| `Screens`, `Platform`, `Delivery` | suites: several machines side by side, one of them at work at a time | composition |
| `ScreensProofs`, `PlatformProofs`, `DeliveryProofs` | the inductive invariant of each machine, and the properties of its suite | proofs |
| `MCScreens`, `MCPlatform`, `MCDelivery` | values of the constants for TLC | instances |
| `MCAuthSessions`, `MCBrowserSession` | symmetry sets for TLC | instances |

How they are composed:

* `RequestFlow` is the two functions that share `requests` and `request_events`.
* `AuthSessions` implements `SessionLedger`. `BrowserSession` has the decisions of
  bliss-auth in one step for each call (`Serve`), which is as much as a browser can
  tell of them; its properties are about what the tabs do, not about bliss-auth.
* The screens see the API as what its answers can be at the time they are given
  (`RequestFlow` and `Listing` are about how those come to be).
* `CiRun` and `DeployRun` use the scripts of `PipelineReport`.
* The suites `Screens`, `Platform` and `Delivery` put machines that do not
  interact side by side, with the sizes of all of them as constants under named
  assumptions. A behaviour picks one and stays with it; the others keep their
  single initial state, so the states of a suite are the sum of those of its
  machines and not their product. Runs and theorems are about the same suites:
  `MCScreens`, `MCPlatform` and `MCDelivery` only give small values.

## How the modules correspond to the code

### RequestFlow

One action is one awaited statement and the code around it, up to the next
`await` that sends a statement.

| Action | Code |
|---|---|
| `Receive`, `RejectMalformed` | the validation middlewares |
| `CreateInsert`, `CreateEvent`, `Commit` | the transaction of `RequestsRepository.insert` |
| `ReviewFind` | `findById` and the three checks of `ReviewsService.review`, in their order |
| `ReviewUpdate` | the compare-and-set UPDATE of `updateStatus`; the 409 when it matches no row |
| `ReviewEvent`, `Commit` | the rest of that transaction, and the answer |
| `ReadDetail` | the two queries of `getById` and `getTimeline`, which have the same body |
| `Fail` | a statement that fails, a function that times out, a container that dies |

State: `status`, `reviewedBy`, `trail` are the committed columns; `lock` and
`staged` are what Postgres keeps for an open transaction; `pc`, `call`, `seen`,
`timeline` are the local variables of a call; `answer` is what its caller got.

Abstractions, each with its reason:

* READ COMMITTED is what the code gets, since it never sets another isolation
  level: a statement sees committed rows; an UPDATE waits for the transaction
  that holds the row it matched, and evaluates its WHERE again afterwards.
* The id of a created request is a fresh UUID. `Receive` picks an unused id, and
  nobody else can have a statement on it before the creation commits.
* `traceId` is the correlation id, taken to be unique per call (the backoffice
  makes a random one for each call). A client that sends the same id twice makes
  two events indistinguishable, not wrong.
* The trail is a sequence. The code orders it by `created_at`, which is the start
  of the transaction; the review of a request can only start after the creation
  committed, and only one review ever commits, so both orders are the same.
* A 500, a 503 and no answer are one answer, `FAILED`: all the caller knows is
  that the call may or may not have taken effect. `Commit` may be followed by it.
* Title, description, priority, `updatedAt` and the `note` of a review (accepted
  and not stored) are left out. `INVALID_STATUS_TRANSITION` is kept in
  `ReviewRefusal` although the payload enum leaves no status from which it could
  be given.
* `Init` is what the seed script leaves behind in any mixture, or nothing.

### AuthSessions

| Action | Code |
|---|---|
| `Receive` | the validation middlewares; clients present tokens they were given, at any time and as often as they like |
| `LoginCheck`, `LoginStore`, `LoginTouch` | `AuthService.login`: credentials, `issueSession`, `touchLastLogin` |
| `RefreshFind` | `findActiveRefreshToken` |
| `RefreshExists`, `RefreshRevokeAll` | the reuse branch: `refreshTokenExists`, `revokeAllForUser`, 401 |
| `RefreshRotate` | the transaction `rotateRefreshToken`; its answer may get lost |
| `Logout` | `revokeRefreshToken`; the answer does not depend on what it matched |
| `Expire`, `purgeExpired` | the clock passes `expires_at`; the maintenance statement |
| `Fail` | as above |

`rows` is the table. `swapped`, `origin`, `ended` and `raced` are history: which
tokens were exchanged, from which login a token descends (that is what a session
is; the code has no such id), what ended a session, and in which sessions a
refresh exchanged a token that had died since its SELECT.

* `rotateRefreshToken` is one step. Two statements of it cannot be seen apart,
  and the row lock of its UPDATE makes a second rotation of the same row wait;
  when it goes on, it matches the row by id and revokes it again.
* A `revokeAllForUser` that waits for a rotation in progress skips the old row,
  which is revoked by then, and does not see the new one, which was inserted
  after its snapshot. That is the same outcome as its running just before the
  rotation, which the model has.
* A call that ended may be used again, so the number of calls bounds only those
  in flight, not those of a behaviour. Tokens are used up: with `n` tokens the
  model issues `n`.

### BrowserSession

One tab is a page with a `SessionProvider` in it; the tabs share `localStorage`.

| Action | Code |
|---|---|
| `Open` | a page load: the provider's effect presents the stored token, if any |
| `SubmitLogin`, `LoginEnds` | `LoginPage.handleSubmit`, `login` of the provider, and the redirects of login page and layout (`Redirected`) |
| `ClickLogout`, `LogoutEnds` | `logout` of the provider and `AuthService.logout` |
| `RestoreEnds` | `then` and `catch` of the restore, and its `finally` |
| `AskForData`, `DataRefused` | a call of a screen without a good access token, and the interceptor that clears it |
| `AccessExpires`, `TokenExpires` | the two lifetimes |
| `Answer`, `Timeout`, `Late`, `Serve` | bliss-auth, with the decisions of `AuthService`; an answer may be lost, and a call of a page that is gone may arrive late or never |

* Calls that carry a good access token are left out: they are answered and change
  nothing of the session.
* `causes` is history: what has happened that excuses a state the properties
  speak of. It is what makes the properties say *which* circumstances the bad
  states need, rather than deny states the code does reach.
* The server half of a call is one step, since only its order with the steps of
  the browser matters here; `AuthSessions` has the statements.

### The screens

Each screen is the state of its component, the calls under way, and the database
only as far as its answers tell. An `await` is where other actions may come in,
and several calls may be under way. Renders that React batches are one action.

| Module | Code | Others in it |
|---|---|---|
| `ListScreen` | `solicitacoes/page.tsx`, `RequestsFilters`, `RequestsPagination`; filters and page in the address, `Rerender` asks for every new one, `Settle` is an answer or a failure | the waits of `RequestsListPage.ts` (`TestActs`, `TestSeesAddress`, `TestSeesQuery`, `TestGivesUp`) |
| `QueueScreen` | `conferencia/page.tsx`, `ConfirmDialog`: `Load`, `OpenDialog`, `Confirm`, `Reviewed`, `Refused` | the API (`List`, `Review`), other reviewers, the mark of `ConferenciaPage.ts` |
| `CreateScreen` | `solicitacoes/nova/page.tsx`: `HandleSubmit`, `Answer`, `Lose`, `Reset`, `toFieldErrors` | the API, with its two layers of validation |
| `DetailScreen` | `solicitacoes/[id]/page.tsx`: first load, `RefreshTimeline` | the two statements of `getById` and `getTimeline`, a reviewer |
| `StatusScreen` | `status/page.tsx`, `health.service.ts`: `Ask`, `Probe`, `Me`, `Show` | services that fail and recover, the wait of `StatusPage.ts` |

* A draft is one of a few values, and what the shared schema and the JSON Schema
  of the route refuse of it is a set of fields: formats and messages are left out.
* The 409 of a review is on screen for no instant: `confirm` sets the message and
  `load` clears it before anything is drawn, so `message` never holds it.

### Container, Authorizer, Listing, SeedScript

* `Container`: `Invoke`, `BuildApp`, `FailInvocation` are `createLambdaHandler`
  with its cached `proxyPromise`; `AskDb`, `ReadSecret`, `UseDb` are `getDb` with
  its cached promise, a rejected one included; `Connect`, `TakeDead`, `GiveUpWaiting`, `LoseConnection` are
  what `pg` does with the options `client.ts` gives it (external); `Statement`
  and `Commit` stand for the statements of a call; `ErrorStatus` is
  `DefaultErroHandler`, which looks at `error.code` only. With `Concurrent = 1` it
  is a Lambda container, with more the local process of `runLocal`. Two details are
  left out: a client that is idle for long is closed (`client.ts:48`), which frees a
  place that `LoseConnection` frees as well, and a probe that returns `false`
  (`healthRoute.ts:19`, `:67`), since those of the services return `true` or throw.
* `Authorizer`: `Issue` is `issueSession`, `Authorize` the authorizer with
  `getKey`, `verify` and `buildResourceArn`, `FromCache` the gateway (external),
  `Me` is `resolvePrincipal` where no authorizer ran. Keys are counted, and `Rotate`
  replaces the one in Secrets Manager; time is discrete. `healed` is history: the
  time since the key was last not at hand (`KeyAtHand`), that is, since the secret
  was out of reach or some container held a key that had been replaced.
* `Listing`: `SelectRows` and `SelectCount` are the two queries of `list`, side
  by side on two connections or in order on one; `NextPage` and `FirstPage` are
  the pagination. A row is its instant of creation; ties are possible. `created`
  and `reviewed` are history: what was written since the walk began.
* `SeedScript`: one action per statement of `seed.ts`, `Stop` anywhere; several
  processes may run it, and the API is up meanwhile (`ApiCreate`, `ApiReview`).

### PipelineReport, CiRun, DeployRun, RouteTables

* `PipelineReport` has one operator per report script, from the outcome of a step
  and the evidence it left to `ok`, `alerta`, `pulado` or `falha`, and the outcome
  GitHub Actions gives to a step: `Piped` for `command | tee` under the default
  shell, `WithPipefail` for the rest.
* `CiRun` and `DeployRun`: a job waits until its needs have finished, starts if
  its condition says so (`Wanted`), and ends with what its step *reports*, which
  is told apart from what its command did (`broken`, `zips`, `planned`, `env`).
  `Collapse` is a job that dies of its infrastructure, `Cancel` a run that is cut
  short. `Consolidate`, `ListComments`, `WriteComment`, `Close` are the steps of
  the report job of `ci.yml`.
* `PlanoTerraform` takes its status from `terraform show`, the last command of the
  step: since Terraform 1.4 a plan that fails while planning may still be saved, so
  the step may be green with a plan of some packages only.
* Two simplifications: `empacotar` and the verification of a deployment upload
  artifacts of the same names (`ci.yml:328`, `:339` and `deploy.yml:225`, `:232`),
  which GitHub may refuse, and the model lets both succeed, so it has more
  behaviours than the code; and the fragment of the web job tells a skipped step as
  `falha` (`ci.yml:430`), where the model has `pulado`, which no property tells apart
  (its steps are skipped only in a job that is red).
* `RouteTables`: `declared` is what the router registers, what it lists in
  `ROUTES`, its prefix, the Terraform map and prefix, and the serverless file
  that the script reads, event by event, so that it may declare no prefix or several;
  every edit is an action, `CheckRoutes` is the script, and
  `ByTerraform` and `Served` are what a request then meets.

## Runs, bounds and fairness

| Run | Instance | Distinct states | Shows |
|---|---|---|---|
| `race` | 1 request, 3 calls, 2 people, `FairSpec` | 310 thousand | all safety properties of `RequestFlow`, that it implements `RequestLifecycle`, and its liveness: `EveryCallEnds`, `PendingReviewIsDecided` |
| `rotation` | 1 account, 3 tokens, 2 calls in flight | 717 thousand | `ExchangedIsDead`, `OneLiveTokenUnlessRaced`, `EndedUnlessRaced` |
| `accounts` | 3 accounts (1 deactivated), 2 tokens, 2 calls in flight | 69 thousand | `OnlyOwnSessionsRevoked`, `TypeOK`, and that the statements implement `SessionLedger` (`ImplementsLedger`) |
| `browser` | 2 tabs, 2 tokens, 3 page loads, one logout per tab under way | 1.0 million | `NoForgottenToken`, `NoFalseAlarm`, `LimboNeedsIdling` |
| `screens` | see below | 279 thousand | the five screens and one tab of the session |
| `platform` | see below | 575 thousand | container, authorizer, listing, seed |
| `delivery` | see below | 788 thousand | CI, deployment, route declarations |
| `twoTokens`, `reuse`, `expired` | 1 account, 3 tokens, 2 calls in flight | - | one counterexample each, see below |
| `limbo` | 1 tab, 2 tokens | - | a counterexample, see below |
| `health` | 2 calls, one at a time, a pool of one | - | a counterexample, see below |

### What the suites check

A property of a suite is the conjunction of what its machine promises; the parts
have names of their own in the machine's module, where each is explained.

| Property | Parts | In words |
|---|---|---|
| `ListShowsItsAnswers` | `MarkNamesRows`, `LastAnswerStays`, `WaitEndsOnItsRows` | `data-query` names the rows on screen; when all is quiet and the last answer was that of the newest question, it is shown; a wait for a query ends with its rows |
| `QueueShowsItsReviews` | `DialogStaysLocked`, `ConfirmedRowsStayGone`, `GoneMeansConfirmed` | what the dialog names is what is written; no late listing brings a confirmed row back; a row that goes was confirmed, unless there was trouble |
| `FormTellsItsOutcome` | `ConfirmedIsStored`, `ErrorsAreOfTheLastSubmit`, `DuplicateMeansLostAnswer` | a confirmation is of the last submission; errors are those of the last submission; two requests of one form mean a lost answer |
| `RefreshOnlyAdds` | `DecisionHasItsEvent`, `RefreshBringsTheReview`, `TrailNeverShrinks`, `DetailStays` | a refresh brings a review with its event and takes nothing away, although it is two statements |
| `TestReadsItsRound` | `RowsAreOfTheRound`, `TestWaitsForTheRound` | what is read after a wait belongs to the round it waited for |
| `NothingHangs` | `LoadingEnds`, `BusyEnds` | nothing loads, locks or waits for ever |
| `PoolIsWhole` | `OnePool`, `NoClientLost`, the bound | one pool per process, within its bound, no client of it lost |
| `AnswersAreTrue` | `RetryableMeansUnwritten`, `HealthyMeansReached` | a creation answered 503 wrote nothing; a healthy answer reached the database |
| `EveryCallEnds` | - | every call of a process is answered |
| `AnswersFollowTheToken` | `ServedWhileValid`, `OnePolicyOneAnswer`, `RefusalHeals` | what the gateway says of a token lags behind the token by bounded time, also after the key was replaced |
| `WalkShowsTheRows` | `QuietWalkIsExact`, `SkipsNeedReviews`, `RepeatsNeedCreations`, `SummaryCountsRows` | a walk through the pages shows each row once; otherwise it skips at most one row for each review and repeats at most one for each creation |
| `RerunRestoresTheSeed` | - | a seed that succeeds alone leaves exactly the seed, whatever was there |
| `RedNeverLooksGreen` | `RedJobMakesRedReport` (both workflows), `GreenMeansAutomationPassed`, `MissingPackageShows` | failed and cancelled jobs, and packages that are not there, make the report red; the required job is green only if the suite passed |
| `OneCommentPerPage` | - | the report speaks twice only if its first comment came after a full page |
| `TouchedAsAsked` | `TouchedAsAsked`, `VerifiedOrWaived` | only the chosen track touches the environment, never for a mere plan, and verified or waived |
| `PassedTablesAgree` | `DeployedRoutesAreServed`, `NoWastedInvocation` | declarations that pass the script are served, and nothing else is |
| `EveryRunReports` | - | every run ends with its report |

### What the properties excuse

Some hazards are what the code does, so no property can deny them; there the
properties say which circumstances a bad state needs, and the guard that names the
circumstance excuses the hazard itself. `PROJECT.json` says so at each hazard.

| Property | Excuses | What is left to catch |
|---|---|---|
| `NoForgottenToken`, `NoFalseAlarm` | credential calls that crossed or got lost, and for the second a token that expired | one call at a time: what is stored, dropped and presented, in which order |
| `LimboNeedsIdling` | the same crossings, and a tab that outlived its access token | user and access token come and go together; the rest is the run `limbo` |
| `ListShowsItsAnswers` | an older answer that comes last | the mark belongs to the rows, and a wait ends on its rows |
| `GoneMeansConfirmed` | rows that go by trouble: another reviewer, a failure, a lost answer | rows that go otherwise |
| `FormTellsItsOutcome` | a duplicate after a lost answer | every other duplicate |
| `OneCommentPerPage` | a first comment after a full page | a comment in the page stays the only one, whatever is written after it |
| `RerunRestoresTheSeed` | a run that others wrote beside (`alone`), and the state between a cut and the rerun | what a rerun finds |
| `PassedTablesAgree` | `ROUTES` or the Terraform prefix that differ from the router (`AsRead`) | every edit of what the script reads |
| `OneLiveTokenUnlessRaced`, `EndedUnlessRaced` | a refresh that raced with the death of its token | the rest is the runs `twoTokens` and `reuse` |

### Why the bounds are enough

* Requests do not interact: no statement reads or writes rows of two requests,
  so one request is enough for TLC, and the proofs are for any number.
* Three calls are what the worst case of a review needs: one that holds the row,
  one that waits for it, and one that reads both tables meanwhile or has just
  created it. One call of each kind may be there, or three of the same kind.
* Three tokens and two calls are what the rotation race needs (the token, its two
  successors); with two calls in flight and calls reused, a session may be ended
  and revived, expired and purged in any order.
* `browser`: two tabs are what an overlap needs, and three page loads with two
  tokens give a rotation, a second one that presents a dead token, and one whose
  answer comes after a login elsewhere. The proofs are for any number of each.
* List: two filters, two pages of an answer and three questions: an older answer
  can overtake a newer one twice. Queue: three requests on pages of one, five
  questions, so that a reload of a confirmed review, one of a refusal and a change
  of page can be under way together. Creation: three submissions over two forms
  and three drafts, one for each place that may refuse. Detail: a load and three
  refreshes. Status: two rounds of two services. Session: one tab with two logouts
  under way, for `NothingHangs`.
* Container: two calls of any kind at once on a pool of one client, and two
  changes of the database or the secret: one to break, one to heal. Authorizer:
  one container beside bliss-auth, one token, two routes, two keys, lifetime 1,
  tolerance 1, cached policies 2, time 4, which is past every deadline together.
  Listing: three rows of two instants, a row to a page, one connection (what the
  Lambda functions have). Seed: two processes, an item with one event and one with
  two, one row more than the seed has.
* CI: two pushes and one person over pages of one comment, so that the first comment
  of the report may come before or after a full page, and the conversation outgrows
  it either way; the rehearsal stands for every job that leaves
  no more than a word (`Checks` is empty). Deployment: two services, both tracks,
  every input. Routes: the two of bliss-reviews, one that is not its own, and two
  prefixes.
* `race` has no symmetry, because it also checks liveness.
* Deadlock is not checked where the bounds or the work end: all calls ended,
  tokens used up, all questions asked. The liveness properties state what matters
  of it.

### Fairness

It is weak throughout, and only for what the environment of the code ends by
itself: a statement that can run (`Step` of `RequestFlow`), a promise that
settles and a timer of the pool (`Container`), an HTTP call, which axios ends
after 30 s at the latest (the screens), a render, the polls of the automation,
and jobs, which GitHub Actions starts and ends by its time limits. What people
do, cut-offs, losses, edits and clocks are not fair, so that no property relies
on them to get anything out of the way. Safety-only machines (`AuthSessions`,
`Authorizer`, `Listing`, `SeedScript`, `RouteTables`) have none.

Every property of a passing run has at least one mutant of the code in the
module, marked `Mutant` and listed in `PROJECT.json`, under which TLC finds it
violated; a property with several parts has several.

## What the checks found in the code

Five runs are expected to be violated; each shows a disagreement between the code
and what a comment or the API description in the repository says.

* `twoTokens`: two refreshes of one token both pass the SELECT; both rotate,
  because the UPDATE of `rotateRefreshToken` names only the id
  (`AuthRepository.ts:119`). The session has two valid tokens, which is "exactly
  what the rotation exists to prevent" (`AuthRepository.ts:107-109`). A WHERE with
  `revoked_at IS NULL`, and no INSERT when it matches nothing, would close it.
* `reuse`: a refresh that found its token active before `revokeAllForUser` ran
  rotates after it, and a session that was to fall lives on
  (`AuthMiddlewares.ts:86-87`, `AuthService.ts:124-127`). The same WHERE would
  close it.
* `expired`: the reuse branch is taken for a token that only expired
  (`AuthService.ts:134`), although the comments speak of a revoked one
  (`AuthService.ts:124-127`, `AuthRepository.ts:140`).
* `limbo`: a 401 clears the access token of the module and nothing else
  (`instances.ts:115`); the provider keeps the user, so the backoffice stays on
  screen and every call is refused, although `instances.ts:60` says the clearing
  keeps the user from an "authenticated limbo". Telling the provider of the 401
  would close it.
* `health`: `getDb` keeps a rejected promise (`client.ts:75`), so after one failed
  read of the secret a container answers every health check 503, with secret and
  database in reach, although `healthRoute.ts:43-45` says 503 is for a dependency
  that is out. Forgetting `connecting` when it rejects would close it.

What does hold of the sessions is in `rotation`: the properties that `twoTokens`
and `reuse` break hold of every session in which no refresh raced with the death
of its own token.

While modelling, further disagreements between the code and what the repository
says of it were met. The models contain the behaviour; no run is spent on them.

* `login` awaits `touchLastLogin` outside of any `try` (`AuthService.ts:115`), so a
  failure of it fails the login, although `AuthRepository.ts:68` says it must not
  take the login down.
* `terraform plan -out=... | tee` (`deploy.yml:299-302`) takes its status from the
  `show` after it. With Terraform 1.9.8 (`deploy.yml:85`) a plan that fails while
  planning, as when the zip of a package is missing, is saved all the same, so the
  step is green, the plan is uploaded and approval is asked with it
  (`deploy.yml:322-330`, `:340`), although it is "the plan the person needs to read"
  (`deploy.yml:237-239`). Terraform then refuses to apply it.
* A restore that fails late removes whatever the key holds by then, a newer
  session of another tab or of the login form included (`SessionProvider.tsx:58`).
* `logout` skips the call that drops the access token when the key is already
  empty (`SessionProvider.tsx:72`); `auth.service.ts:23-24` says the local session
  falls in any case.
* A load is not cancelled by the next one, so an older answer may replace the rows
  after a test has waited for its query (`solicitacoes/page.tsx:64`).
* The requester field is uncontrolled, so `Limpar` leaves its text
  (`RequestsFilters.tsx:82`), although the state "lives in the URL".
* The message of a 409 is set and cleared before it is painted
  (`conferencia/page.tsx:110` and `:58`).
* A failed review also detaches the row, by the skeleton of the reload
  (`conferencia/page.tsx:150`), which `ConferenciaPage.ts:104` takes for the
  confirmation; `GoneMeansConfirmed` says when it may.
* Errors of the database that the query builder wraps, pool time-outs and closed
  sockets are answered 500 (`DefaultErroHandler.ts:91`), although outages are to
  become a retryable 503 (`:82-84`).
* `tee` without `pipefail` hides the failure of format, lint, type check and build
  steps (`ci.yml:110` and others), of `serverless package` (`deploy.yml:483`) and
  of the smoke test (`deploy.yml:682`); `ci.yml:517-519` calls `pipefail` mandatory
  for this reason, and `ci.yml:737-739` says the report fails if any stage failed.
* The report looks for its comment in the first 100 comments only
  (`comentar-pr.mjs:66-67`); when its first one comes after those, it posts again on
  every push, which is the exception in `OneCommentPerPage`.
* `TokenService` keeps a copy of the signing key apart from that of
  `SigningKeyService` (`TokenService.ts:44`), so they differ after a rotation, and
  a key that cannot be read is a Deny that the gateway caches (`authorizer.ts:138`).
  A rejected `proxyPromise` is kept like that of `getDb` (`lambda.ts:34`).
* A seed that is cut short leaves a request without a trail, or a decided one
  whose trail ends at open (`seed.ts:159`, `:187`); `seed.ts:175-176` says every
  request has its creation event.
* `check-route-parity.ts` reads `ROUTES` and not the registrations (`:119`), not
  the prefix of the Terraform module (`:54`), and not the `serverless.yml` that is
  deployed (`:67`). `PassedTablesAgree` therefore assumes the first two agree.
* A service whose database is out answers 503 with its state, which the client
  turns into "did not answer" (`health.service.ts:51`); and one silent service holds
  every result off the status screen (`health.service.ts:75`).

## What is proved

Every invariant and every action property of the passing runs is a theorem, for
any values of the constants that satisfy the named assumptions of their modules:
that `None` and its like are no members of the sets they stand beside, that bounds
are numbers, and the few that are named below. What a run shows at its bounds the
theorem of the same property shows at all of them.

### Requests

`RequestLifecycle` proves `LifecycleIsLegal`. Its three invariants are inductive
together; the proof works on one request at a time (`LegalRow`).

`RequestFlowProofs` proves the inductive invariant `FlowInv`. The safety
properties alone are not inductive: what a commit publishes was computed two or
three steps earlier, so the invariant has to say what each call knows at each
step.

* `StepFitsCall`: a call is only ever at a step of its own operation;
* `KnowsItsRow`: a call inside its transaction holds the lock of its row, and the
  committed row is still what the call saw;
* `SawPending`: a review goes past its checks only with a pending request;
* `StagesItsRow`: an open transaction contains what its call asked for;
* `LockHasOwner`: a lock belongs to a call inside a transaction on that row;
* `AbsentIsUnreviewed`: a request without a row has no reviewer.

From it `FlowImplementsLifecycle` follows: a commit of a creation is `Create`, a
commit of a review is `Review`, every other step changes no table. Then
`TrailsTellStatus`, `TrailsAreLegalHistories` and `RequestsAreReviewedOnce` are
the theorems of the abstract specification, carried over, and `DecisionsAreFinal`
is an action property of it. `TypeCorrect` is the first conjunct of `FlowInv`.

It also proves that answers are true: `ConfirmedCallsAreRecorded`,
`ConflictsHaveWinners`, `DetailsAreExplained`. The argument is that an answer is
true of the tables when it is given, and that the tables only grow
(`TablesGrow`): trails keep their prefix and decided requests do not change. The
invariant `AnswerInv` adds what is known between two steps of one call: in
particular `OnlyDecidedMeanwhile` (the one thing that can have happened to a
request between check and UPDATE is a decision, which is why the 409 is true)
and `OnlyDoneIsOnRecord` (a call that has not ended left no event, which is why
the winner is another call).

### Sessions, from statement to browser

`AuthSessions` implements `SessionLedger`; in the ledger a token that died stays
dead (`TokensStayDead`) and has one owner (`TokensHaveOneOwner`), and the refinement
carries that down (`DeadTokensStayDead`). The proofs are for any users, tokens,
calls, tabs and logouts.

`AuthSessionsProofs` proves the inductive invariant `SessionInv`. Besides types it
relates what a call `found` to the row that was read, and every token to its
session: an exchanged token is revoked, and a live token that is not the last of
its session, or of a session that ended, is one a refresh raced for (`raced`).
From it follow `ExchangedTokensAreDead`, `SessionsHaveOneLiveToken`,
`EndedSessionsStayEnded` and `OnlyOwnersLoseSessions`, the properties of the runs
`rotation` and `accounts`; `SessionsImplementLedger` maps a login to `Login`, a
rotation to `Exchange`, revocations, expiry and purging to `Drop`, and everything
else to a stutter.

`BrowserSessionProofs` proves `BrowserInv`. The properties speak of behaviours in
which calls did not cross and nothing was lost; there, the argument goes, at most
one credential call is under way in all tabs together (`OneCall`), until it is
served the only token that can be valid is the stored one, and from then on it is
the one in its answer (`Tidy`). While no token expired either, that token is valid
indeed (`Fresh`), which gives `NoAlarmIsFalse`; `Tidy` gives `NoTokenIsForgotten`;
and users and good access tokens come and go together (`Signed`), which gives
`LimboComesOfIdling`. Each part is guarded by the `causes` under which it no
longer holds, and `CausesGrow` makes the guards stable.

### The gateway's answers

`PlatformProofs` proves `AnswersFollowTheToken` under `EdgeTimers`: durations are
numbers, a policy is cached for at least one unit, and a bad credential is no
token. What the gateway answers is not a function of the present state, since a
cached policy may be older than the state of the key or the clock, so `EdgeInv`
says what a policy still knows of the moment it was made: `AllowHadReason` (its
token was valid then, but for the tolerance) and `DenyHadReason` (its token had
expired, or the key has not been at hand since), both in terms of `until`, which is
that moment plus the life of a policy (`PolicyIsWhole`). An answer out of the cache
then lags by that life at most. `SecretHistory` ties `healed` to the containers: while
it counts, the secret is in reach and nobody holds a key that was replaced, so a
refusal made then is of an expired token or of one that another key had signed.
`VerifyMeans` is the lemma about `verify` both rest on.

### A process and its pool

`PoolIsWhole` and `AnswersAreTrue` hold under `ProcessSizes`: finitely many calls, and bounds that are numbers. `ProcessInv` has
two parts of its own. `PoolOK` counts: `open` is the idle, the dead and the held
clients, where `TakesClient`, `ReturnsClient` and `SameHolders` say how each step
of a use changes the cardinality of the holders; bounds on `idle` and `dead`
follow. `CallsFit` ties what a call may answer to how far its uses of the pool have
come: a use only runs while its call is at work (except the second query of a
listing, which may outlive an answer given for the first), a creation is written
only when its use ended `ok` or `wrapped`, and only an error with a code of its
own, which a use gets before it has a client, becomes a 503.

### A walk through the list

The order of the list is `created_at` and then the id, so every row has a place of
its own (`Rank`, the number of rows ahead of it), and a page is the rows at some
places (`Within`). The lemmas count: a page is full unless it is the last, and
places are taken without gaps. `ListInv` says what a walk has shown so far:

* `WhileQuiet`: if nothing was written, it is the rows up to where the walk has come;
* `WalkIsPaid`: whatever was written, the rows behind the walk that it never showed
  (`Skipped`) are no more than the reviews, and those shown, or about to be shown, a
  second time (`Repeated`) no more than the creations. A review moves at most one row
  across the cut between two pages, forward, and a creation at most one, backward;
  `OnePaysForOne` is the lemma, and `HistoryHolds` says no row pays twice.

A bound is the most that holds: an offset does lose rows to reviews and repeat rows
after creations. It is not guarded, so a row too many is caught in any mixture of
both.

`WalkIsExact` holds for any pool. `WalkShowsAll`, the property of the run, is for
`PoolMax = 1`: with one connection the count is taken after the rows. That is the
value the functions are deployed with and the default of the code
(`client.ts:46`). With more connections the count may be older than the rows, and
a walk may end before its last row, which only `SkipsNeedReviews` is about.

### The seed

`SeedInv` says how far a run has come if nobody else has written since it began
(`AsFarAs`): after the deletes there is nothing, in the loop the rows before the
current item are those of the seed and the current one has as many events as the
run has inserted. What was there before does not matter, because the first two
statements delete all of it; this is why a rerun repairs a run that was cut short.
`Items` is any list of statuses that is not empty.

### The screens

The five invariants all say which question an answer belongs to.

* `QueueInv`: a dialog lies over rows and none is opened while a loading question
  is out; at most one question hides the rows and one is silent
  (`QuestionsApart`). So nothing on its way was listed before the review that is
  confirmed next (`ConfirmedIsGone`), which no single screen state shows. While
  there was no `trouble`, rows and answers are those of the page; `PageShifts` is
  the lemma that a decided request leaves the others of its page on it.
* `CreateInv`: the call a form waits for is its last (`WaitsForItsLast`), a
  confirmation is of the last, and a form goes on after a stored call only if its
  answer was lost (`ToldOnce`).
* `DetailInv`: one call at a time, and each reads later than what is shown, so what
  it brings is no less (`ReadsAreTrue`). In particular one that was sent after a
  review reads the row as decided: this was missing from the first attempt, and
  `RefreshBringsTheReview` is not inductive without it.
* `StatusInv`: whatever a probe came back with was the state of its service at some
  time since the round began.
* `ListInv`: only the newest question can be for the address as it is.

### The workflows

`CiInv`: the report starts only when every other job is over (`ReportIsLast`), so
the results it reads cannot change under it, and a red one is in its document;
`AutomationTold` is why the required job is green only with the suite: that job is
never skipped, and if the suite broke it failed. `CommentsFit` is what
`OneCommentPerPage` needs between its steps: a comment of the report in the page that
is searched is the only one of the conversation, the comment found is that one, and
if none was found there is none in that page.

`DeployInv` follows the jobs of `deploy.yml`: a job that is over stays as it is, so
what was good when a job began is good while it runs (`AppliedAfterAll`), plans
are of the chosen track only (`PlannedAsChosen`), and the report is last (`ReportSeesAll`). Nothing is assumed of `Services`, `Checks` need only be other jobs
than those with names, and jobs may die, be cancelled or be refused at any step.

### The routes

`RoutesInv` is that a verdict is about the declarations as they are. From it,
`TablesAgree`: the gateway has the routes of the application in its own notation
(`NotationsAgree`), so what fits an address in one fits it in the other. This is
not enough: API Gateway picks the path first and the verb afterwards, the
application the verb first. With `GET /search`, `POST /search` and `GET /:id`
around, dropping `GET /search` would leave its address to `GET /:id` in the
application and a 403 at the gateway, and the script would not see it. The theorem
therefore needs `RouteWords`: a word that stands where another path has a
parameter belongs to the verb asked for only. That holds of the routes of the three
services; TLC evaluates it for those of the run. The script relies on it and does
not check it.

### Only model-checked

Liveness under fairness (`EveryCallEnds`, `PendingReviewIsDecided`, `NothingHangs`,
`EveryRunReports`) is out of the prover's reach. The runs that are expected to be
violated give counterexamples; there is nothing to prove.

## What is not modelled

* `SqsService`, `EventBridgeService`, `CloudWatchService`, `S3Service`: nothing in
  the repository calls them, so there is no behaviour of the system to model.
  `purgeExpired` is called by nothing either; it is in `AuthSessions` because it
  is written to run beside the calls that are.
* Correlation ids, logging, OpenAPI documents, the aggregated local application:
  they keep no state that a property is about.
* Cryptography (JWT, scrypt, SHA-256): a token, its hash and a matching password
  are values.
* Formats, messages, rendering, the columns and the mappers; migrations, which run
  before anything else.
* What a check of the pipeline does inside its job, and the parsing of its log:
  a check works or breaks, and its evidence is there or not.
* Terraform modules, Serverless files, LocalStack and evidence scripts: they are
  declarations and lists of commands. The limits they set are constants here.
* Of `apps/automation`, the fixtures, the API client and the reporters.

## Plan

Left, most important first:

1. `QueueScreen` behind the real `RequestFlow` instead of its answers, so that a
   409 on screen and the winner's event are one property.
2. The pool of `Container` under the transactions of `AuthSessions`.
3. A theorem that ties the list of `GET /requests` to the tables of `RequestFlow`.
