----------------------------- MODULE Container -----------------------------
(***************************************************************************)
(* One process that runs a service of the API - a Lambda container, or the *)
(* local process that serves calls side by side - with its cold start, the *)
(* pool of database clients and the answers it gives while Secrets Manager *)
(* and Postgres come and go.                                               *)
(***************************************************************************)
EXTENDS Integers, FiniteSets

CONSTANTS
  Calls,       \* invocations, each made once
  Concurrent,  \* calls at a time: 1 in a Lambda container, more in a local process
  PoolMax,     \* DB_POOL_MAX
  MaxTroubles  \* bound: changes of the database or of the secret

VARIABLES
  secret,   \* Secrets Manager gives the database credential
  db,       \* Postgres: "up", "full" (refuses clients), "down" or "silent"
  troubles, \* how often either changed
  app,      \* proxyPromise: "none", "building", "built" or "failed"
  setup,    \* connecting: "none", "reading", "done" or "failed"
  pools,    \* pools created in this process
  idle,     \* pool clients nobody holds
  dead,     \* of those not yet noticed: their connection is gone
  open,     \* clients the pool counts against its maximum
  kind,     \* what each call does
  at,       \* where it is
  jobs,     \* its one or two uses of the pool
  answer,   \* its HTTP status, 0 before; 502 is a failed invocation
  written,  \* history: the calls whose transaction committed
  reached   \* history: the calls during which the database took statements

outside == <<secret, db, troubles>>
cold == <<app, setup, pools>>
pool == <<idle, dead, open>>
call == <<kind, at, jobs, answer>>
history == <<written, reached>>
vars == <<outside, cold, pool, call, history>>

\* POST runs a transaction, GET / two queries at once, GET /health one.
Kinds == {"create", "list", "health"}
Parts(k) == IF k = "list" THEN {1, 2} ELSE {1}
Working == {c \in Calls : at[c] \notin {"away", "done"}}
Holding == {j \in Calls \X {1, 2} : jobs[j] \in {"run", "commit"}}
Failures == {"code", "other", "wrapped"}
Takes == db \in {"up", "full"}

Init ==
  /\ secret = TRUE /\ db = "up" /\ troubles = 0
  /\ app = "none" /\ setup = "none" /\ pools = 0
  /\ idle = 0 /\ dead = 0 /\ open = 0
  /\ kind \in [Calls -> Kinds]
  /\ at = [c \in Calls |-> "away"] /\ answer = [c \in Calls |-> 0]
  /\ jobs = [j \in Calls \X {1, 2} |-> "none"]
  /\ written = {} /\ reached = {}
-----------------------------------------------------------------------------
\* The database changes: when it goes, the connections that nobody uses die.
DatabaseChanges(s) ==
  /\ troubles < MaxTroubles /\ s # db
  /\ db' = s /\ troubles' = troubles + 1
  /\ IF s \in {"down", "silent"} THEN dead' = dead + idle /\ idle' = 0
                                 ELSE UNCHANGED <<dead, idle>>
  /\ reached' = IF s \in {"up", "full"} THEN reached \cup Working ELSE reached
  /\ UNCHANGED <<secret, cold, open, call, written>>

SecretChanges ==
  /\ troubles < MaxTroubles
  /\ secret' = ~secret /\ troubles' = troubles + 1
  /\ UNCHANGED <<db, cold, pool, call, history>>

\* pool.on("error"): the pool drops a client whose connection ended.
NoticeDead ==
  /\ dead > 0
  /\ dead' = dead - 1 /\ open' = open - 1
  /\ UNCHANGED <<outside, cold, idle, call, history>>

\* The platform replaces a process that serves no call.
Recycle ==
  /\ app # "none" /\ Working = {} /\ Holding = {}
  /\ \A j \in DOMAIN jobs : jobs[j] # "wait"
  /\ app' = "none" /\ setup' = "none" /\ pools' = 0
  /\ idle' = 0 /\ dead' = 0 /\ open' = 0
  /\ UNCHANGED <<outside, call, history>>
-----------------------------------------------------------------------------
\* The handler: the first call of a process builds the app, all await it.
Invoke(c) ==
  /\ at[c] = "away" /\ Cardinality(Working) < Concurrent
  /\ at' = [at EXCEPT ![c] = "app"]
  /\ app' = IF app = "none" THEN "building" ELSE app
  /\ reached' = IF Takes THEN reached \cup {c} ELSE reached
  /\ UNCHANGED <<outside, setup, pools, pool, kind, jobs, answer, written>>

BuildApp ==
  /\ app = "building"
  /\ app' \in {"built", "failed"}
  /\ UNCHANGED <<outside, setup, pools, pool, call, history>>

\* proxyPromise keeps a rejection: every call of the process fails with it.
FailInvocation(c) ==
  /\ at[c] = "app" /\ app = "failed"
  /\ at' = [at EXCEPT ![c] = "done"] /\ answer' = [answer EXCEPT ![c] = 502]
  /\ UNCHANGED <<outside, cold, pool, kind, jobs, history>>

\* Mutant: getDb without `connecting`, every call sets a pool up.
AskDb_EachItsPool(c) ==
  /\ at[c] = "app" /\ app = "built"
  /\ at' = [at EXCEPT ![c] = "db"]
  /\ setup' = IF setup \in {"none", "reading"} THEN "reading" ELSE setup
  /\ pools' = IF setup = "reading" THEN pools + 1 ELSE pools
  /\ UNCHANGED <<outside, app, pool, kind, jobs, answer, history>>

\* getDb: the first call starts the set-up, the others await the same promise, and so
\* do those that come after it was rejected.
AskDb(c) ==
  /\ at[c] = "app" /\ app = "built"
  /\ at' = [at EXCEPT ![c] = "db"]
  /\ setup' = IF setup = "none" THEN "reading" ELSE setup
  /\ UNCHANGED <<outside, app, pools, pool, kind, jobs, answer, history>>

\* createDatabase: the credential is read and the pool created, unconnected.
ReadSecret ==
  /\ setup = "reading"
  /\ IF secret THEN setup' = "done" /\ pools' = pools + 1
               ELSE setup' = "failed" /\ UNCHANGED pools
  /\ UNCHANGED <<outside, app, pool, call, history>>

\* Mutant: the /health handler does not await its probe.
UseDb_NoProbe(c) ==
  /\ at[c] = "db" /\ setup = "done"
  /\ IF kind[c] = "health"
       THEN /\ at' = [at EXCEPT ![c] = "done"] /\ answer' = [answer EXCEPT ![c] = 200]
            /\ UNCHANGED jobs
       ELSE /\ at' = [at EXCEPT ![c] = "work"]
            /\ jobs' = [j \in DOMAIN jobs |->
                 IF j[1] = c /\ j[2] \in Parts(kind[c]) THEN "wait" ELSE jobs[j]]
            /\ UNCHANGED answer
  /\ UNCHANGED <<outside, cold, pool, kind, history>>

\* Each part asks the pool for a client.
UseDb(c) ==
  /\ at[c] = "db" /\ setup = "done"
  /\ at' = [at EXCEPT ![c] = "work"]
  /\ jobs' = [j \in DOMAIN jobs |->
       IF j[1] = c /\ j[2] \in Parts(kind[c]) THEN "wait" ELSE jobs[j]]
  /\ UNCHANGED <<outside, cold, pool, kind, answer, history>>
-----------------------------------------------------------------------------
Become(j, s) == jobs' = [jobs EXCEPT ![j] = s]
JobSteps == UNCHANGED <<outside, cold, kind, at, answer, reached>>

\* Mutant: the pool opens one client too many.
Room_OneMore == open <= PoolMax

Room == open < PoolMax

\* A failure to connect reaches a transaction as the driver threw it; drizzle
\* wraps the failure of a query, that of its connection included.
ConnectFails(j, error) ==
  /\ Become(j, IF kind[j[1]] = "create" THEN error ELSE "wrapped")
  /\ UNCHANGED <<pool, written>>

Connect(j) ==
  /\ jobs[j] = "wait"
  /\ \/ idle > 0 /\ Become(j, "run") /\ idle' = idle - 1
        /\ UNCHANGED <<dead, open, written>>
     \/ idle = 0 /\ Room /\ db = "up"
        /\ Become(j, "run") /\ open' = open + 1 /\ UNCHANGED <<idle, dead, written>>
     \/ idle = 0 /\ Room /\ db = "full" /\ ConnectFails(j, "code")
     \/ idle = 0 /\ Room /\ db = "down" /\ ConnectFails(j, "other")
  /\ JobSteps

\* A dead client is handed out like any other: the first statement on it fails.
TakeDead(j) ==
  /\ jobs[j] = "wait" /\ dead > 0
  /\ dead' = dead - 1 /\ open' = open - 1
  /\ Become(j, "wrapped")
  /\ JobSteps /\ UNCHANGED <<idle, written>>

\* Mutant: no connectionTimeoutMillis.
GiveUpWaiting_Never(j) ==
  /\ jobs[j] = "wait" /\ idle > 0 /\ open < PoolMax
  /\ ConnectFails(j, "other") /\ JobSteps

\* connectionTimeoutMillis: for a connection, or for one of others to be free.
GiveUpWaiting(j) ==
  /\ jobs[j] = "wait" /\ idle = 0
  /\ open = PoolMax \/ db = "silent"
  /\ ConnectFails(j, "other") /\ JobSteps

\* The statements of a query, or of a transaction up to its commit.
Statement(j) ==
  /\ jobs[j] = "run" /\ Takes
  /\ IF kind[j[1]] = "create" THEN Become(j, "commit") /\ UNCHANGED idle
                              ELSE Become(j, "ok") /\ idle' = idle + 1
  /\ JobSteps /\ UNCHANGED <<dead, open, written>>

Commit(j) ==
  /\ jobs[j] = "commit" /\ Takes
  /\ Become(j, "ok") /\ idle' = idle + 1
  /\ written' = written \cup {j[1]}
  /\ JobSteps /\ UNCHANGED <<dead, open>>

\* Mutant: a transaction that fails does not release its client.
LoseConnection_KeepsClient(j) ==
  /\ jobs[j] \in {"run", "commit"} /\ ~Takes
  /\ Become(j, "wrapped")
  /\ open' = IF kind[j[1]] = "create" THEN open ELSE open - 1
  /\ \/ jobs[j] = "commit" /\ written' = written \cup {j[1]}
     \/ UNCHANGED written
  /\ JobSteps /\ UNCHANGED <<idle, dead>>

\* The connection goes while it is used - where the database is silent, when TCP
\* or the platform gives up - and a commit may have got through.
LoseConnection(j) ==
  /\ jobs[j] \in {"run", "commit"} /\ ~Takes
  /\ Become(j, "wrapped")
  /\ open' = open - 1
  /\ \/ jobs[j] = "commit" /\ written' = written \cup {j[1]}
     \/ UNCHANGED written
  /\ JobSteps /\ UNCHANGED <<idle, dead>>
-----------------------------------------------------------------------------
\* Mutant: the codes are looked up in the cause of a wrapped error too.
ErrorStatus_Unwraps(e) == IF e \in {"code", "wrapped"} THEN 503 ELSE 500

\* DefaultErroHandler: only an error with one of Postgres's own codes is 503.
ErrorStatus(e) == IF e = "code" THEN 503 ELSE 500

Status(c, e) == IF kind[c] = "health" THEN 503 ELSE ErrorStatus(e)

Answer(c, status) ==
  /\ at' = [at EXCEPT ![c] = "done"] /\ answer' = [answer EXCEPT ![c] = status]
  /\ UNCHANGED <<outside, cold, pool, kind, jobs, history>>

\* Promise.all: the first part that fails answers, the other goes on unheard.
AnswerFailure(c) ==
  \/ at[c] = "db" /\ setup = "failed" /\ Answer(c, Status(c, "other"))
  \/ /\ at[c] = "work"
     /\ \E p \in Parts(kind[c]) : jobs[<<c, p>>] \in Failures /\ Answer(c, Status(c, jobs[<<c, p>>]))

AnswerSuccess(c) ==
  /\ at[c] = "work"
  /\ \A p \in Parts(kind[c]) : jobs[<<c, p>>] = "ok"
  /\ Answer(c, IF kind[c] = "create" THEN 201 ELSE 200)

Serve(c) ==
  \/ FailInvocation(c) \/ AskDb(c) \/ UseDb(c) \/ AnswerFailure(c) \/ AnswerSuccess(c)
  \/ \E p \in {1, 2} : LET j == <<c, p>> IN
       \/ Connect(j) \/ TakeDead(j) \/ GiveUpWaiting(j)
       \/ Statement(j) \/ Commit(j) \/ LoseConnection(j)

Next ==
  \/ BuildApp \/ ReadSecret \/ NoticeDead \/ Recycle \/ SecretChanges
  \/ \E s \in {"up", "full", "down", "silent"} : DatabaseChanges(s)
  \/ \E c \in Calls : Invoke(c) \/ Serve(c)

\* What the process awaits settles: promises, statements and timers.
Spec ==
  /\ Init /\ [][Next]_vars
  /\ WF_vars(BuildApp) /\ WF_vars(ReadSecret)
  /\ \A c \in Calls : WF_vars(Serve(c))
-----------------------------------------------------------------------------
TypeOK ==
  /\ secret \in BOOLEAN /\ db \in {"up", "full", "down", "silent"}
  /\ troubles \in 0..MaxTroubles
  /\ app \in {"none", "building", "built", "failed"}
  /\ setup \in {"none", "reading", "done", "failed"} /\ pools \in Nat
  /\ idle \in 0..PoolMax /\ dead \in 0..PoolMax /\ open \in 0..PoolMax
  /\ kind \in [Calls -> Kinds]
  /\ at \in [Calls -> {"away", "app", "db", "work", "done"}]
  /\ jobs \in [Calls \X {1, 2} -> {"none", "wait", "run", "commit", "ok"} \cup Failures]
  /\ answer \in [Calls -> {0, 200, 201, 500, 502, 503}]
  /\ written \subseteq Calls /\ reached \subseteq Calls

\* However many calls meet in a cold start, the process opens one pool.
OnePool == pools <= 1

\* The pool never counts a client that nobody holds and nobody can have: the
\* clients of calls that failed come back, and the pool is whole again.
NoClientLost == open = idle + dead + Cardinality(Holding)

\* A 503 invites the caller to try again: a creation that got one wrote nothing,
\* so the retry makes no second request. Only an answer of 500 leaves it open.
RetryableMeansUnwritten ==
  \A c \in Calls : kind[c] = "create" /\ answer[c] = 503 => c \notin written

\* A health check that says healthy has reached the database during its call.
HealthyMeansReached ==
  \A c \in Calls : kind[c] = "health" /\ answer[c] = 200 => c \in reached

\* healthRoute.ts:43-45: "200 when the service answers and its dependencies are
\* reachable, 503 when a dependency is out". So while the database stays up, a health
\* check that begins when the secret is back for good is not answered 503.
HealthTellsTheDatabase ==
  (\A c \in Calls : kind[c] = "health") /\ [](db = "up") =>
    \A c \in Calls : []((at[c] = "away" /\ []secret) => [](answer[c] # 503))

\* Every call is answered, whatever the database and the pool do.
EveryCallEnds == \A c \in Calls : at[c] # "away" ~> at[c] = "done"

\* One pool, within its bound, and none of its clients lost.
PoolIsWhole == OnePool /\ NoClientLost /\ open <= PoolMax

\* Neither "try again" nor "healthy" is said in vain.
AnswersAreTrue == RetryableMeansUnwritten /\ HealthyMeansReached
=============================================================================
