---------------------------- MODULE PlatformProofs ----------------------------
(***************************************************************************)
(* What the services run on keeps its promises for any number of calls,    *)
(* clients, containers, tokens, routes, rows, pages and runs of the seed.  *)
(* One part after the other: its inductive invariant, the lemmas that its  *)
(* first state has it and that every step keeps it. The theorems about     *)
(* Platform, which runs one part at a time, are at the end.                *)
(*                                                                         *)
(* The process: a client is idle, dead or held by one use of the pool, and *)
(* what a call may answer follows from how far its uses have come. The     *)
(* edge: a cached policy knows what was true of its token when it was made,*)
(* and how long ago that is at most. The listing: every row has a place of *)
(* its own, and a row that was not shown yet is still to come, or behind   *)
(* only by what happened. The seed: a run that has been alone has written  *)
(* as much of the seed as it has come through.                             *)
(***************************************************************************)
EXTENDS Platform, FiniteSetTheorems, FunctionTheorems, SequenceTheorems, TLAPS

Uses == Calls \X {1, 2}
UseStates == {"none", "wait", "run", "commit", "ok"} \cup Process!Failures

\* Types, but for the pool's.
ProcessOK ==
  /\ secret \in BOOLEAN /\ db \in {"up", "full", "down", "silent"}
  /\ troubles \in 0..MaxTroubles
  /\ app \in {"none", "building", "built", "failed"}
  /\ setup \in {"none", "reading", "done", "failed"}
  /\ kind \in [Calls -> Process!Kinds]
  /\ at \in [Calls -> {"away", "app", "db", "work", "done"}]
  /\ jobs \in [Uses -> UseStates]
  /\ answer \in [Calls -> {0, 200, 201, 500, 502, 503}]
  /\ written \subseteq Calls /\ reached \subseteq Calls

\* A client is idle, dead or held.
ClientsCounted == open = idle + dead + Cardinality(Process!Holding)

\* The pool counts its clients, and has room for them.
PoolOK ==
  /\ idle \in Nat /\ dead \in Nat /\ open \in 0..PoolMax
  /\ ClientsCounted

\* A process has a pool once its set-up is done, and one then.
SetUpOnce == pools = IF setup = "done" THEN 1 ELSE 0

\* How far a call and its uses of the pool have come together.
UsesFit(c) ==
  /\ at[c] \in {"away", "app", "db"} => jobs[<<c, 1>>] = "none" /\ jobs[<<c, 2>>] = "none"
  /\ at[c] = "work" => setup = "done"
  /\ kind[c] # "list" =>
       /\ jobs[<<c, 2>>] = "none"
       /\ jobs[<<c, 1>>] \in {"wait", "run", "commit"} => at[c] = "work"

\* What is known of the database when a call has come so far.
KnowsDatabase(c) ==
  /\ Process!Takes /\ at[c] \notin {"away", "done"} => c \in reached
  /\ kind[c] = "health" /\ jobs[<<c, 1>>] = "ok" => c \in reached
  /\ kind[c] = "create" /\ c \in written => jobs[<<c, 1>>] \in {"ok", "wrapped"}

\* What an answer says of the uses.
AnswerFits(c) ==
  /\ answer[c] # 0 => at[c] = "done"
  /\ kind[c] = "create" /\ answer[c] = 503 => jobs[<<c, 1>>] = "code"
  /\ kind[c] = "health" /\ answer[c] = 200 => c \in reached

CallsFit == \A c \in Calls : UsesFit(c) /\ KnowsDatabase(c) /\ AnswerFits(c)

ProcessInv == ProcessOK /\ PoolOK /\ SetUpOnce /\ CallsFit
-----------------------------------------------------------------------------
\* The uses that hold a client are finitely many.
LEMMA HoldingIsFinite ==
  IsFiniteSet(Process!Holding) /\ Cardinality(Process!Holding) \in Nat
<1>1. IsFiniteSet({1, 2})
  <2>1. IsFiniteSet({1}) BY FS_Singleton
  <2>2. IsFiniteSet({1} \cup {2}) BY <2>1, FS_AddElement
  <2>3. {1} \cup {2} = {1, 2} OBVIOUS
  <2>4. QED BY <2>2, <2>3
<1>2. IsFiniteSet(Calls \X {1, 2}) BY <1>1, FS_Product, ProcessSizes
<1>3. Process!Holding \in SUBSET (Calls \X {1, 2}) BY DEF Process!Holding
<1>4. IsFiniteSet(Process!Holding) BY <1>2, <1>3, FS_Subset
<1>5. QED BY <1>4, FS_CardinalityType

\* Whoever gets a client is one holder more,
LEMMA TakesClient ==
  ASSUME jobs \in [Uses -> UseStates], NEW j \in Uses, NEW s \in {"run", "commit"},
         jobs[j] \notin {"run", "commit"}, jobs' = [jobs EXCEPT ![j] = s]
  PROVE  Cardinality(Process!Holding)' = Cardinality(Process!Holding) + 1
<1>1. Process!Holding' = Process!Holding \cup {j} BY DEF Process!Holding, Uses
<1>2. j \notin Process!Holding BY DEF Process!Holding
<1>3. QED BY <1>1, <1>2, HoldingIsFinite, FS_AddElement

\* whoever gives one back is one fewer,
LEMMA ReturnsClient ==
  ASSUME jobs \in [Uses -> UseStates], NEW j \in Uses,
         NEW s \in UseStates \ {"run", "commit"},
         jobs[j] \in {"run", "commit"}, jobs' = [jobs EXCEPT ![j] = s]
  PROVE  /\ Cardinality(Process!Holding)' = Cardinality(Process!Holding) - 1
         /\ Cardinality(Process!Holding)' \in Nat
<1>1. Process!Holding' = Process!Holding \ {j} BY DEF Process!Holding, Uses
<1>2. j \in Process!Holding BY DEF Process!Holding, Uses
<1>3. /\ IsFiniteSet(Process!Holding \ {j})
      /\ Cardinality(Process!Holding \ {j}) = Cardinality(Process!Holding) - 1
  BY <1>2, HoldingIsFinite, FS_RemoveElement
<1>4. QED BY <1>1, <1>3, FS_CardinalityType

\* and any other step of a use leaves the holders as they are.
LEMMA SameHolders ==
  ASSUME jobs \in [Uses -> UseStates], NEW j \in Uses, NEW s \in UseStates,
         jobs[j] \in {"run", "commit"} <=> s \in {"run", "commit"},
         jobs' = [jobs EXCEPT ![j] = s]
  PROVE  Process!Holding' = Process!Holding
BY DEF Process!Holding, Uses

\* A pool that counts its clients has no more idle or dead ones than its size.
LEMMA PoolBounds ==
  ASSUME PoolOK PROVE idle \in 0..PoolMax /\ dead \in 0..PoolMax
BY HoldingIsFinite, ProcessSizes DEF PoolOK, ClientsCounted

\* A process starts with an empty pool and no call.
LEMMA ProcessInit == Process!Init => ProcessInv
<1> SUFFICES ASSUME Process!Init PROVE ProcessInv OBVIOUS
<1>1. ProcessOK
  <2>1. secret \in BOOLEAN BY Zenon DEF Process!Init
  <2>2. QED BY <2>1, ProcessSizes DEF Process!Init, ProcessOK, Uses, UseStates
<1>2. PoolOK
  <2>1. Process!Holding = {} BY DEF Process!Init, Process!Holding
  <2>2. QED BY <2>1, FS_EmptySet, ProcessSizes DEF Process!Init, PoolOK, ClientsCounted
<1>3. SetUpOnce BY DEF Process!Init, SetUpOnce
<1>4. CallsFit BY DEF Process!Init, CallsFit, UsesFit, KnowsDatabase, AnswerFits
<1>5. QED BY <1>1, <1>2, <1>3, <1>4 DEF ProcessInv
-----------------------------------------------------------------------------
\* One use of the pool takes a step.
UseStep(j) ==
  \/ Process!Connect(j) \/ Process!TakeDead(j) \/ Process!GiveUpWaiting(j)
  \/ Process!Statement(j) \/ Process!Commit(j) \/ Process!LoseConnection(j)

\* What such a step can make of its use, and what it writes.
LEMMA UseEffect ==
  ASSUME ProcessOK, NEW c \in Calls, NEW p \in {1, 2}, UseStep(<<c, p>>)
  PROVE  \E s \in UseStates \ {"none", "wait"} :
           /\ jobs' = [jobs EXCEPT ![<<c, p>>] = s]
           /\ UNCHANGED <<Process!outside, Process!cold, kind, at, answer, reached>>
           /\ jobs[<<c, p>>] \in {"wait", "run", "commit"}
           /\ s = "ok" => Process!Takes
           /\ s = "code" => jobs[<<c, p>>] = "wait"
           /\ \/ written' = written
              \/ written' = written \cup {c} /\ s \in {"ok", "wrapped"}
<1> DEFINE j == <<c, p>>
           E(s) == /\ s \in UseStates \ {"none", "wait"}
                   /\ Process!Become(j, s) /\ Process!JobSteps
                   /\ jobs[j] \in {"wait", "run", "commit"}
                   /\ s = "ok" => Process!Takes
                   /\ s = "code" => jobs[j] = "wait"
                   /\ \/ written' = written
                      \/ written' = written \cup {c} /\ s \in {"ok", "wrapped"}
<1>0. j[1] = c OBVIOUS
<1>a. SUFFICES \E s : E(s) BY DEF Process!Become, Process!JobSteps
<1>b. ASSUME jobs[j] = "wait", Process!JobSteps,
             NEW e \in {"code", "other"}, Process!ConnectFails(j, e)
      PROVE  \E s : E(s)
  <2>1. CASE kind[c] = "create"
    <3>1. E(e) BY <1>0, <1>b, <2>1 DEF Process!ConnectFails, UseStates, Process!Failures
    <3>2. QED BY <3>1
  <2>2. CASE kind[c] # "create"
    <3>1. E("wrapped") BY <1>0, <1>b, <2>2 DEF Process!ConnectFails, UseStates, Process!Failures
    <3>2. QED BY <3>1
  <2>3. QED BY <2>1, <2>2
<1>1. CASE Process!Connect(j)
  <2>1. CASE Process!Become(j, "run") /\ written' = written
    <3>1. E("run") BY <1>1, <2>1 DEF Process!Connect, UseStates
    <3>2. QED BY <3>1
  <2>2. QED BY <1>1, <1>b, <2>1 DEF Process!Connect
<1>2. CASE Process!TakeDead(j)
  <2>1. E("wrapped") BY <1>2 DEF Process!TakeDead, UseStates, Process!Failures
  <2>2. QED BY <2>1
<1>3. CASE Process!GiveUpWaiting(j) BY <1>3, <1>b DEF Process!GiveUpWaiting
<1>4. CASE Process!Statement(j)
  <2>1. E("commit") \/ E("ok") BY <1>4 DEF Process!Statement, UseStates
  <2>2. QED BY <2>1
<1>5. CASE Process!Commit(j)
  <2>1. E("ok") BY <1>0, <1>5 DEF Process!Commit, UseStates
  <2>2. QED BY <2>1
<1>6. CASE Process!LoseConnection(j)
  <2>1. E("wrapped") BY <1>0, <1>6 DEF Process!LoseConnection, UseStates, Process!Failures
  <2>2. QED BY <2>1
<1>7. QED BY <1>1, <1>2, <1>3, <1>4, <1>5, <1>6 DEF UseStep

\* No step of a use loses a client.
LEMMA UsePool ==
  ASSUME ProcessOK, PoolOK, NEW j \in Uses, UseStep(j)
  PROVE  PoolOK'
<1>0. /\ jobs \in [Uses -> UseStates] /\ jobs[j] \in UseStates
      /\ Cardinality(Process!Holding) \in Nat /\ PoolMax \in Nat
      /\ idle \in Nat /\ dead \in Nat /\ open \in 0..PoolMax
      /\ open = idle + dead + Cardinality(Process!Holding)
  BY HoldingIsFinite, ProcessSizes DEF ProcessOK, PoolOK, ClientsCounted
<1>1. ASSUME jobs[j] = "wait", NEW s \in {"wrapped", "code", "other"},
             Process!Become(j, s), open - open' = dead - dead', idle' = idle,
             dead' \in Nat, open' \in 0..PoolMax
      PROVE  PoolOK'
  <2>1. Process!Holding' = Process!Holding
    BY <1>0, <1>1, SameHolders DEF Process!Become, UseStates, Process!Failures
  <2>2. QED BY <1>0, <1>1, <2>1 DEF PoolOK, ClientsCounted
<1>2. CASE Process!Connect(j)
  <2>1. CASE idle > 0 /\ Process!Become(j, "run") /\ idle' = idle - 1 /\ UNCHANGED <<dead, open>>
    <3>1. Cardinality(Process!Holding)' = Cardinality(Process!Holding) + 1
      BY <1>0, <1>2, <2>1, TakesClient DEF Process!Connect, Process!Become
    <3>2. QED BY <1>0, <2>1, <3>1 DEF PoolOK, ClientsCounted
  <2>2. CASE /\ Process!Room /\ Process!Become(j, "run") /\ open' = open + 1
             /\ UNCHANGED <<idle, dead>>
    <3>1. Cardinality(Process!Holding)' = Cardinality(Process!Holding) + 1
      BY <1>0, <1>2, <2>2, TakesClient DEF Process!Connect, Process!Become
    <3>2. QED BY <1>0, <2>2, <3>1 DEF PoolOK, ClientsCounted, Process!Room
  <2>3. CASE \E e \in {"code", "other"} : Process!ConnectFails(j, e)
    BY <1>0, <1>1, <1>2, <2>3 DEF Process!Connect, Process!ConnectFails, Process!pool
  <2>4. QED BY <1>2, <2>1, <2>2, <2>3 DEF Process!Connect
<1>3. CASE Process!TakeDead(j) BY <1>0, <1>1, <1>3 DEF Process!TakeDead
<1>4. CASE Process!GiveUpWaiting(j)
  BY <1>0, <1>1, <1>4 DEF Process!GiveUpWaiting, Process!ConnectFails, Process!pool
<1>5. ASSUME jobs[j] \in {"run", "commit"}, NEW s \in {"ok", "wrapped"}, Process!Become(j, s),
             dead' = dead,
             \/ open' = open /\ idle' = idle + 1
             \/ open' = open - 1 /\ idle' = idle
      PROVE  PoolOK'
  <2>1. /\ Cardinality(Process!Holding)' = Cardinality(Process!Holding) - 1
        /\ Cardinality(Process!Holding)' \in Nat
    BY <1>0, <1>5, ReturnsClient DEF Process!Become, UseStates, Process!Failures
  <2>2. QED BY <1>0, <1>5, <2>1 DEF PoolOK, ClientsCounted
<1>6. CASE Process!Statement(j)
  <2>1. CASE Process!Become(j, "commit") /\ idle' = idle
    <3>1. Process!Holding' = Process!Holding
      BY <1>0, <1>6, <2>1, SameHolders DEF Process!Statement, Process!Become, UseStates
    <3>2. QED BY <1>0, <1>6, <2>1, <3>1 DEF Process!Statement, PoolOK, ClientsCounted
  <2>2. CASE Process!Become(j, "ok") /\ idle' = idle + 1 BY <1>5, <1>6, <2>2 DEF Process!Statement
  <2>3. QED BY <1>6, <2>1, <2>2 DEF Process!Statement
<1>7. CASE Process!Commit(j) BY <1>5, <1>7 DEF Process!Commit
<1>8. CASE Process!LoseConnection(j) BY <1>5, <1>8 DEF Process!LoseConnection
<1>9. QED BY <1>2, <1>3, <1>4, <1>6, <1>7, <1>8 DEF UseStep

\* No step of a use makes an answer untrue.
LEMMA UseKeepsInv ==
  ASSUME ProcessInv, NEW c \in Calls, NEW p \in {1, 2}, UseStep(<<c, p>>)
  PROVE  ProcessInv'
<1>1. PoolOK' BY UsePool DEF ProcessInv, Uses
<1>2. PICK s \in UseStates \ {"none", "wait"} :
        /\ jobs' = [jobs EXCEPT ![<<c, p>>] = s]
        /\ UNCHANGED <<Process!outside, Process!cold, kind, at, answer, reached>>
        /\ jobs[<<c, p>>] \in {"wait", "run", "commit"}
        /\ s = "ok" => Process!Takes
        /\ s = "code" => jobs[<<c, p>>] = "wait"
        /\ \/ written' = written
           \/ written' = written \cup {c} /\ s \in {"ok", "wrapped"}
  BY UseEffect DEF ProcessInv
<1>3. UNCHANGED <<secret, db, troubles, app, setup, pools, kind, at, answer, reached>>
  BY <1>2 DEF Process!outside, Process!cold
<1>4. ProcessOK'
  <2>1. secret' \in BOOLEAN BY Zenon, <1>3 DEF ProcessInv, ProcessOK
  <2>2. jobs' \in [Uses -> UseStates] BY <1>2 DEF ProcessInv, ProcessOK, Uses
  <2>3. written' \subseteq Calls BY <1>2 DEF ProcessInv, ProcessOK
  <2>4. QED BY <1>3, <2>1, <2>2, <2>3 DEF ProcessInv, ProcessOK
<1>5. SetUpOnce' BY <1>3 DEF ProcessInv, SetUpOnce
<1>6. ASSUME NEW d \in Calls, d # c PROVE UsesFit(d)' /\ KnowsDatabase(d)' /\ AnswerFits(d)'
  <2>1. jobs'[<<d, 1>>] = jobs[<<d, 1>>] /\ jobs'[<<d, 2>>] = jobs[<<d, 2>>]
    BY <1>2, <1>6 DEF ProcessInv, ProcessOK, Uses
  <2>2. d \in written' <=> d \in written BY <1>2, <1>6
  <2>3. QED BY <1>3, <1>6, <2>1, <2>2
             DEF ProcessInv, CallsFit, UsesFit, KnowsDatabase, AnswerFits, Process!Takes
<1>7. UsesFit(c)' /\ KnowsDatabase(c)' /\ AnswerFits(c)'
  <2>1. /\ jobs'[<<c, p>>] = s
        /\ \A q \in {1, 2} : q # p => jobs'[<<c, q>>] = jobs[<<c, q>>]
    BY <1>2 DEF ProcessInv, ProcessOK, Uses
  <2>2. /\ UsesFit(c) /\ KnowsDatabase(c) /\ AnswerFits(c)
        /\ jobs[<<c, p>>] \in {"wait", "run", "commit"}
    BY <1>2 DEF ProcessInv, CallsFit
  <2>3. at[c] \notin {"away", "app", "db"} BY <2>2 DEF UsesFit
  <2>4. kind[c] # "list" => p = 1 /\ at[c] = "work" BY <2>2 DEF UsesFit
  <2>5. UsesFit(c)' BY <1>3, <2>1, <2>2, <2>3, <2>4 DEF UsesFit
  <2>6. KnowsDatabase(c)' BY <1>2, <1>3, <2>1, <2>2, <2>4 DEF KnowsDatabase, Process!Takes
  <2>7. AnswerFits(c)' BY <1>3, <2>1, <2>2, <2>4 DEF AnswerFits
  <2>8. QED BY <2>5, <2>6, <2>7
<1>8. CallsFit' BY <1>6, <1>7 DEF CallsFit
<1>9. QED BY <1>1, <1>4, <1>5, <1>8 DEF ProcessInv

\* The database, the secret, the build and the set-up: no call takes a step.
LEMMA OutsideKeepsInv ==
  ASSUME ProcessInv,
         \/ Process!BuildApp \/ Process!ReadSecret \/ Process!NoticeDead \/ Process!Recycle
         \/ Process!SecretChanges
         \/ \E s \in {"up", "full", "down", "silent"} : Process!DatabaseChanges(s)
  PROVE  ProcessInv'
<1>0. ProcessOK /\ PoolOK /\ SetUpOnce /\ CallsFit /\ UNCHANGED <<kind, at, jobs, answer, written>>
  BY
  DEF ProcessInv, Process!BuildApp, Process!ReadSecret, Process!NoticeDead, Process!Recycle,
      Process!SecretChanges, Process!DatabaseChanges,
         Process!call, Process!history
<1>1. Process!Holding' = Process!Holding BY <1>0 DEF Process!Holding
<1>2. /\ Cardinality(Process!Holding) \in Nat /\ PoolMax \in Nat
      /\ idle \in Nat /\ dead \in Nat /\ open \in 0..PoolMax
      /\ open = idle + dead + Cardinality(Process!Holding)
  BY <1>0, HoldingIsFinite, ProcessSizes DEF PoolOK, ClientsCounted
<1>3. ASSUME UNCHANGED Process!pool PROVE PoolOK'
  BY <1>1, <1>2, <1>3 DEF Process!pool, PoolOK, ClientsCounted
<1>4. ASSUME UNCHANGED <<secret, db, troubles, reached>>, setup' = "done" \/ setup # "done",
             app' \in {"none", "building", "built", "failed"},
             setup' \in {"none", "reading", "done", "failed"}
      PROVE  ProcessOK' /\ CallsFit'
  <2>1. secret' \in BOOLEAN BY Zenon, <1>0, <1>4 DEF ProcessOK
  <2>2. ProcessOK' BY <1>0, <1>4, <2>1 DEF ProcessOK
  <2>3. CallsFit'
    BY <1>0, <1>4 DEF CallsFit, UsesFit, KnowsDatabase, AnswerFits, Process!Takes
  <2>4. QED BY <2>2, <2>3
<1>5. CASE Process!BuildApp
  BY <1>0, <1>3, <1>4, <1>5
  DEF Process!BuildApp, ProcessInv, ProcessOK, SetUpOnce, Process!outside, Process!history
<1>6. CASE Process!ReadSecret
  BY <1>0, <1>3, <1>4, <1>6
  DEF Process!ReadSecret, ProcessInv, ProcessOK, SetUpOnce, Process!outside, Process!history
<1>7. CASE Process!NoticeDead
  <2>1. PoolOK' BY <1>1, <1>2, <1>7 DEF Process!NoticeDead, PoolOK, ClientsCounted
  <2>2. QED BY <1>0, <1>4, <1>7, <2>1
               DEF Process!NoticeDead, ProcessInv, ProcessOK, SetUpOnce, Process!outside,
                   Process!cold, Process!history
<1>8. CASE Process!Recycle
  <2>1. PoolOK' BY <1>1, <1>2, <1>8, FS_EmptySet DEF Process!Recycle, PoolOK, ClientsCounted
  <2>2. ProcessOK'
    <3>1. secret' \in BOOLEAN BY Zenon, <1>0, <1>8 DEF Process!Recycle, ProcessOK, Process!outside
    <3>2. QED BY <1>0, <1>8, <3>1 DEF Process!Recycle, ProcessOK, Process!outside, Process!history
  <2>3. \A c \in Calls : at[c] \in {"away", "done"} BY <1>8 DEF Process!Recycle, Process!Working
  <2>4. CallsFit'
    BY <1>0, <1>8, <2>3
    DEF Process!Recycle, CallsFit, UsesFit, KnowsDatabase, AnswerFits, Process!Takes,
        Process!outside, Process!history
  <2>5. QED BY <1>8, <2>1, <2>2, <2>4 DEF Process!Recycle, ProcessInv, SetUpOnce
<1>9. CASE Process!SecretChanges
  <2>1. secret' \in BOOLEAN BY Zenon, <1>9 DEF Process!SecretChanges
  <2>2. ProcessOK'
    BY <1>0, <1>9, <2>1, ProcessSizes
    DEF Process!SecretChanges, ProcessOK, Process!cold, Process!history
  <2>3. CallsFit'
    BY <1>0, <1>9
    DEF Process!SecretChanges, CallsFit, UsesFit, KnowsDatabase, AnswerFits, Process!Takes,
        Process!cold, Process!history
  <2>4. QED
    BY <1>0, <1>3, <1>9, <2>2, <2>3 DEF Process!SecretChanges, ProcessInv, SetUpOnce, Process!cold
<1>10. ASSUME NEW s \in {"up", "full", "down", "silent"}, Process!DatabaseChanges(s)
       PROVE  ProcessInv'
  <2>1. PoolOK' BY <1>1, <1>2, <1>10 DEF Process!DatabaseChanges, PoolOK, ClientsCounted
  <2>2. secret' \in BOOLEAN BY Zenon, <1>0, <1>10 DEF Process!DatabaseChanges, ProcessOK
  <2>3. ProcessOK'
    BY <1>0, <1>10, <2>2, ProcessSizes
    DEF Process!DatabaseChanges, ProcessOK, Process!cold, Process!Working
  <2>4. CallsFit'
    BY <1>0, <1>10
    DEF Process!DatabaseChanges, CallsFit, UsesFit, KnowsDatabase, AnswerFits,
        Process!Takes, Process!cold, Process!Working
  <2>5. QED
    BY <1>0, <1>10, <2>1, <2>3, <2>4
    DEF Process!DatabaseChanges, ProcessInv, SetUpOnce, Process!cold
<1>11. QED BY <1>5, <1>6, <1>7, <1>8, <1>9, <1>10

\* A call goes on: it comes in, reaches the pool, or is answered.
LEMMA CallKeepsInv ==
  ASSUME ProcessInv, NEW c \in Calls,
         \/ Process!Invoke(c) \/ Process!FailInvocation(c) \/ Process!AskDb(c) \/ Process!UseDb(c)
         \/ Process!AnswerFailure(c) \/ Process!AnswerSuccess(c)
  PROVE  ProcessInv'
<1>0. /\ ProcessOK /\ PoolOK /\ SetUpOnce /\ CallsFit
      /\ UsesFit(c) /\ KnowsDatabase(c) /\ AnswerFits(c)
  BY DEF ProcessInv, CallsFit
<1>1. /\ UNCHANGED <<Process!outside, pools, Process!pool, kind, written>>
      /\ reached' = reached \/ reached' = reached \cup {c}
      /\ app' = app \/ app' = "building"
      /\ setup' = setup \/ (setup = "none" /\ setup' = "reading")
  BY
  DEF Process!Invoke, Process!FailInvocation, Process!AskDb, Process!UseDb, Process!AnswerFailure,
      Process!AnswerSuccess, Process!Answer,
         Process!cold, Process!call, Process!history
<1>a. \E a \in {"app", "db", "work", "done"} : at' = [at EXCEPT ![c] = a]
  BY Zenon
  DEF Process!Invoke, Process!FailInvocation, Process!AskDb, Process!UseDb, Process!AnswerFailure,
      Process!AnswerSuccess, Process!Answer
<1>b. \E n \in {0, 200, 201, 500, 502, 503} : answer' = [answer EXCEPT ![c] = n]
  <2> DEFINE A(n) == answer' = [answer EXCEPT ![c] = n]
  <2>1. CASE answer' = answer
    <3>1. A(answer[c]) BY <1>0, <2>1 DEF ProcessOK
    <3>2. answer[c] \in {0, 200, 201, 500, 502, 503} BY <1>0 DEF ProcessOK
    <3> HIDE DEF A
    <3>3. \E n \in {0, 200, 201, 500, 502, 503} : A(n) BY <3>1, <3>2
    <3>4. QED BY <3>3 DEF A
  <2>2. ASSUME NEW n \in {200, 201, 500, 502, 503}, A(n)
        PROVE  \E m \in {0, 200, 201, 500, 502, 503} : A(m)
    <3> HIDE DEF A
    <3>1. QED BY <2>2
  <2>3. CASE Process!FailInvocation(c)
    <3>1. A(502) BY <2>3 DEF Process!FailInvocation
    <3>2. QED BY <2>2, <3>1
  <2>4. CASE Process!AnswerFailure(c)
    <3>1. \A e : Process!Status(c, e) \in {500, 503} BY DEF Process!Status, Process!ErrorStatus
    <3>2. \E e : A(Process!Status(c, e)) BY Zenon, <2>4 DEF Process!AnswerFailure, Process!Answer
    <3>3. PICK e : A(Process!Status(c, e)) BY <3>2
    <3>4. Process!Status(c, e) \in {200, 201, 500, 502, 503} BY <3>1
    <3> HIDE DEF A
    <3>5. \E m \in {0, 200, 201, 500, 502, 503} : A(m) BY <3>3, <3>4
    <3>6. QED BY <3>5 DEF A
  <2>5. CASE Process!AnswerSuccess(c)
    <3>1. A(200) \/ A(201) BY <2>5 DEF Process!AnswerSuccess, Process!Answer
    <3>2. QED BY <2>2, <3>1
  <2>6. CASE Process!Invoke(c) \/ Process!AskDb(c) \/ Process!UseDb(c)
    BY <2>1, <2>6 DEF Process!Invoke, Process!AskDb, Process!UseDb
  <2>7. QED BY <2>3, <2>4, <2>5, <2>6
<1>2. jobs' = jobs \/ Process!UseDb(c)
  BY
  DEF Process!Invoke, Process!FailInvocation, Process!AskDb, Process!UseDb, Process!AnswerFailure,
      Process!AnswerSuccess, Process!Answer
<1>3. ASSUME Process!UseDb(c)
      PROVE  /\ jobs' \in [Uses -> UseStates] /\ Process!Holding' = Process!Holding
             /\ \A d \in Calls, q \in {1, 2} : d # c => jobs'[<<d, q>>] = jobs[<<d, q>>]
             /\ \A q \in {1, 2} :
                  jobs'[<<c, q>>] = IF q \in Process!Parts(kind[c]) THEN "wait" ELSE "none"
  <2>1. jobs' = [j \in Uses |->
                  IF j[1] = c /\ j[2] \in Process!Parts(kind[c]) THEN "wait" ELSE jobs[j]]
    BY <1>0, <1>3 DEF Process!UseDb, ProcessOK
  <2>2. jobs[<<c, 1>>] = "none" /\ jobs[<<c, 2>>] = "none" BY <1>0, <1>3 DEF Process!UseDb, UsesFit
  <2>3. jobs \in [Uses -> UseStates] BY <1>0 DEF ProcessOK
  <2>4. jobs' \in [Uses -> UseStates] BY <2>1, <2>3 DEF UseStates
  <2>5. \A d \in Calls, q \in {1, 2} : d # c => jobs'[<<d, q>>] = jobs[<<d, q>>]
    BY <2>1 DEF Uses
  <2>6. \A q \in {1, 2} : jobs'[<<c, q>>] = IF q \in Process!Parts(kind[c]) THEN "wait" ELSE "none"
    BY <2>1, <2>2 DEF Uses
  <2>7. \A d \in Calls, q \in {1, 2} :
          jobs'[<<d, q>>] \in {"run", "commit"} <=> jobs[<<d, q>>] \in {"run", "commit"}
    BY <2>2, <2>5, <2>6
  <2>8. Process!Holding' = Process!Holding
    <3>1. \A j \in Uses : \E d \in Calls, q \in {1, 2} : j = <<d, q>> BY DEF Uses
    <3>2. \A j \in Uses : jobs'[j] \in {"run", "commit"} <=> jobs[j] \in {"run", "commit"}
      BY <2>7, <3>1
    <3>3. QED BY Zenon, <3>2 DEF Process!Holding, Uses
  <2>9. QED BY <2>4, <2>5, <2>6, <2>8
<1>4. Process!Holding' = Process!Holding BY <1>2, <1>3 DEF Process!Holding
<1>5. PoolOK' BY <1>0, <1>1, <1>4 DEF PoolOK, ClientsCounted, Process!pool
<1>6. ProcessOK'
  <2>1. secret' \in BOOLEAN BY Zenon, <1>0, <1>1 DEF ProcessOK, Process!outside
  <2>2. jobs' \in [Uses -> UseStates] BY <1>0, <1>2, <1>3 DEF ProcessOK
  <2>3. answer' \in [Calls -> {0, 200, 201, 500, 502, 503}]
    BY <1>0, <1>b DEF ProcessOK
  <2>4. at' \in [Calls -> {"away", "app", "db", "work", "done"}] BY <1>0, <1>a DEF ProcessOK
  <2>5. /\ app' \in {"none", "building", "built", "failed"}
        /\ setup' \in {"none", "reading", "done", "failed"}
        /\ written' \subseteq Calls /\ reached' \subseteq Calls
    BY <1>0, <1>1 DEF ProcessOK
  <2>6. UNCHANGED <<db, troubles, kind>> BY <1>1 DEF Process!outside
  <2>7. QED BY <1>0, <2>1, <2>2, <2>3, <2>4, <2>5, <2>6 DEF ProcessOK
<1>7. SetUpOnce' BY <1>0, <1>1 DEF SetUpOnce
<1>8. ASSUME NEW d \in Calls, d # c PROVE UsesFit(d)' /\ KnowsDatabase(d)' /\ AnswerFits(d)'
  <2>1. /\ jobs'[<<d, 1>>] = jobs[<<d, 1>>] /\ jobs'[<<d, 2>>] = jobs[<<d, 2>>]
        /\ at'[d] = at[d] /\ answer'[d] = answer[d] /\ kind' = kind /\ db' = db
        /\ d \in written' <=> d \in written
        /\ d \in reached' <=> d \in reached
    BY <1>0, <1>1, <1>a, <1>b, <1>2, <1>3, <1>8 DEF ProcessOK, Process!outside
  <2>2. setup = "done" => setup' = "done" BY <1>1
  <2>3. UsesFit(d) /\ KnowsDatabase(d) /\ AnswerFits(d) BY <1>0 DEF CallsFit
  <2>4. QED BY <2>1, <2>2, <2>3 DEF UsesFit, KnowsDatabase, AnswerFits, Process!Takes
<1>9. UsesFit(c)' /\ KnowsDatabase(c)' /\ AnswerFits(c)'
  <2>0. at \in [Calls -> {"away", "app", "db", "work", "done"}]
        /\ answer \in [Calls -> {0, 200, 201, 500, 502, 503}] /\ kind[c] \in Process!Kinds
    BY <1>0 DEF ProcessOK
  <2>1. CASE Process!Invoke(c)
    BY <1>0, <2>0, <2>1
    DEF Process!Invoke, UsesFit, KnowsDatabase, AnswerFits, Process!Takes, Process!outside
  <2>2. CASE Process!FailInvocation(c)
    BY <1>0, <2>0, <2>2
    DEF Process!FailInvocation, UsesFit, KnowsDatabase, AnswerFits, Process!Takes, Process!outside,
        Process!history
  <2>3. CASE Process!AskDb(c)
    BY <1>0, <2>0, <2>3
    DEF Process!AskDb, UsesFit, KnowsDatabase, AnswerFits, Process!Takes, Process!outside,
        Process!history
  <2>4. CASE Process!UseDb(c)
    <3>1. /\ at'[c] = "work" /\ setup' = "done" /\ answer' = answer /\ kind' = kind /\ db' = db
          /\ written' = written /\ reached' = reached /\ at[c] = "db"
      BY <2>0, <2>4 DEF Process!UseDb, Process!outside, Process!cold, Process!history
    <3>2. kind[c] # "list" => jobs'[<<c, 2>>] = "none" BY <1>3, <2>4 DEF Process!Parts
    <3>3. jobs[<<c, 1>>] = "none" BY <1>0, <3>1 DEF UsesFit
    <3>4. jobs'[<<c, 1>>] = "wait" BY <1>3, <2>4 DEF Process!Parts
    <3>5. answer[c] = 0 BY <1>0, <3>1 DEF AnswerFits
    <3>6. QED
      BY <1>0, <3>1, <3>2, <3>3, <3>4, <3>5 DEF UsesFit, KnowsDatabase, AnswerFits, Process!Takes
  <2>5. ASSUME NEW n \in {200, 201, 500, 503}, Process!Answer(c, n), at[c] \in {"db", "work"},
               kind[c] # "list" => jobs[<<c, 1>>] \in Process!Failures \cup {"ok", "none"},
               kind[c] = "create" /\ n = 503 => jobs[<<c, 1>>] = "code",
               kind[c] = "health" /\ n = 200 => jobs[<<c, 1>>] = "ok"
        PROVE  UsesFit(c)' /\ KnowsDatabase(c)' /\ AnswerFits(c)'
    BY <1>0, <2>0, <2>5
    DEF Process!Answer, UsesFit, KnowsDatabase, AnswerFits, Process!Takes, Process!Failures,
                            Process!outside, Process!cold, Process!history
  <2>6. CASE Process!AnswerSuccess(c)
    BY <2>0, <2>5, <2>6 DEF Process!AnswerSuccess, Process!Parts
  <2>7. CASE Process!AnswerFailure(c)
    <3>1. CASE at[c] = "db" /\ Process!Answer(c, Process!Status(c, "other"))
      BY <1>0, <2>5, <3>1 DEF UsesFit, Process!Status, Process!ErrorStatus
    <3>2. ASSUME at[c] = "work",
                 NEW p \in Process!Parts(kind[c]), jobs[<<c, p>>] \in Process!Failures,
                 Process!Answer(c, Process!Status(c, jobs[<<c, p>>]))
          PROVE  UsesFit(c)' /\ KnowsDatabase(c)' /\ AnswerFits(c)'
      BY <2>5, <3>2 DEF Process!Parts, Process!Status, Process!ErrorStatus
    <3>3. QED BY <2>7, <3>1, <3>2 DEF Process!AnswerFailure
  <2>8. QED BY <2>1, <2>2, <2>3, <2>4, <2>6, <2>7
<1>10. CallsFit' BY <1>8, <1>9 DEF CallsFit
<1>11. QED BY <1>5, <1>6, <1>7, <1>10 DEF ProcessInv

\* One case per action of Next.
LEMMA ProcessStep == ProcessInv /\ [Process!Next]_(Process!vars) => ProcessInv'
<1> SUFFICES ASSUME ProcessInv, [Process!Next]_(Process!vars) PROVE ProcessInv' OBVIOUS
<1>1. ASSUME NEW c \in Calls, NEW p \in {1, 2}, UseStep(<<c, p>>) PROVE ProcessInv'
  BY <1>1, UseKeepsInv
<1>2. ASSUME NEW c \in Calls, Process!Invoke(c) \/ Process!Serve(c) PROVE ProcessInv'
  BY <1>1, <1>2, CallKeepsInv DEF Process!Serve, UseStep
<1>3. CASE UNCHANGED Process!vars
  <2>1. Process!Holding' = Process!Holding BY <1>3 DEF Process!vars, Process!call, Process!Holding
  <2>2. secret' \in BOOLEAN BY Zenon, <1>3 DEF Process!vars, Process!outside, ProcessInv, ProcessOK
  <2>3. ProcessOK'
    BY <1>3, <2>2
    DEF Process!vars, Process!outside, Process!cold, Process!call, Process!history, ProcessInv,
        ProcessOK
  <2>4. PoolOK' BY <1>3, <2>1 DEF Process!vars, Process!pool, ProcessInv, PoolOK, ClientsCounted
  <2>5. SetUpOnce' /\ CallsFit'
    BY <1>3
    DEF Process!vars, Process!outside, Process!cold, Process!call, Process!history, ProcessInv,
        SetUpOnce, CallsFit, UsesFit,
                KnowsDatabase, AnswerFits, Process!Takes
  <2>6. QED BY <2>3, <2>4, <2>5 DEF ProcessInv
<1>4. QED BY <1>2, <1>3, OutsideKeepsInv DEF Process!Next
-----------------------------------------------------------------------------
-----------------------------------------------------------------------------
\* A policy is made of a presentable credential, covers every route, and has given
\* no answer but its effect.
PolicyIsWhole ==
  \A c \in Edge!Credentials :
    IF policy[c].effect = "none" THEN given[c] = {}
    ELSE /\ c \in Tokens => token[c].key # 0
         /\ policy[c].covers = Routes
         /\ given[c] \subseteq {policy[c].effect}
         /\ policy[c].until <= now + CacheTtl

\* When it let a token in, the token was valid but for the tolerance.
AllowHadReason ==
  \A c \in Edge!Credentials : policy[c].effect = "Allow" =>
    /\ c \in Tokens
    /\ policy[c].until < token[c].exp + Tolerance + CacheTtl

\* When it refused a token that the key of now has signed, either the token had expired
\* or the key has not been at hand since then.
DenyHadReason ==
  \A c \in Tokens : policy[c].effect = "Deny" /\ token[c].key = signingKey =>
    \/ token[c].exp + CacheTtl <= policy[c].until
    \/ healed + policy[c].until <= now + CacheTtl

\* Time spent without the key, or with one that was replaced, is not time since.
SecretHistory ==
  healed # 0 =>
    /\ readable /\ authKey \in {0, signingKey}
    /\ \A k \in Containers : cachedKey[k] \in {0, signingKey}

EdgeInv ==
  /\ Edge!TypeOK
  /\ PolicyIsWhole /\ AllowHadReason /\ DenyHadReason /\ SecretHistory
  /\ Edge!ServedWhileValid /\ Edge!RefusalHeals
-----------------------------------------------------------------------------
\* A set within a singleton has at most one member.
LEMMA AtMostOne == ASSUME NEW S, NEW e, S \subseteq {e} PROVE Cardinality(S) <= 1
<1>1. CASE S = {} BY <1>1, FS_EmptySet
<1>2. CASE S = {e}
  <2>1. Cardinality({e}) = 1 BY FS_Singleton
  <2>2. QED BY <1>2, <2>1
<1>3. QED BY <1>1, <1>2

\* At the start nothing is issued and nothing cached.
LEMMA EdgeInit == Edge!Init => EdgeInv
<1> SUFFICES ASSUME Edge!Init PROVE EdgeInv OBVIOUS
<1>1. Edge!TypeOK
  <2>1. /\ now \in 0..MaxTime /\ signingKey \in 1..MaxKeys
        /\ authKey \in 0..signingKey /\ cachedKey \in [Containers -> 0..signingKey]
        /\ healed \in 0..CacheTtl
    BY EdgeTimers DEF Edge!Init
  <2>0. readable \in BOOLEAN /\ edge \in BOOLEAN
    BY Zenon DEF Edge!Init
  <2>2. token \in [Tokens -> [key : 0..signingKey, exp : 0..(MaxTime + Lifetime)]]
    BY EdgeTimers DEF Edge!Init
  <2>3. Edge!NoPolicy \in [effect : {"none", "Allow", "Deny"}, covers : SUBSET Routes,
                      until : 0..(MaxTime + CacheTtl)]
    BY EdgeTimers DEF Edge!NoPolicy
  <2>4. Edge!NoAnswer \in [credential : Edge!Credentials, answer : {"none", "Allow", "Deny"}]
    BY DEF Edge!NoAnswer, Edge!Credentials, Edge!Bad
  <2>5. QED BY <2>0, <2>1, <2>2, <2>3, <2>4 DEF Edge!Init, Edge!TypeOK
<1>2. PolicyIsWhole /\ AllowHadReason /\ DenyHadReason /\ SecretHistory
  BY EdgeTimers
  DEF Edge!Init, PolicyIsWhole, AllowHadReason, DenyHadReason, SecretHistory, Edge!Credentials,
      Edge!NoPolicy
<1>3. Edge!ServedWhileValid /\ Edge!RefusalHeals
  BY DEF Edge!Init, Edge!ServedWhileValid, Edge!RefusalHeals, Edge!NoAnswer
<1>4. QED BY <1>1, <1>2, <1>3 DEF EdgeInv

\* The key a container uses is the one it holds, or the secret, or none.
LEMMA KeyType ==
  ASSUME Edge!TypeOK, NEW held \in 0..signingKey, NEW c
  PROVE  /\ Edge!KeyUsed(c, held) \in 0..signingKey
         /\ readable /\ c # "malformed" => Edge!KeyUsed(c, held) # 0
BY EdgeTimers DEF Edge!TypeOK, Edge!KeyUsed, Edge!getKey

\* A verified credential is an issued token that is valid, but for the tolerance;
\* and one that is valid is verified by the key that signed it.
LEMMA VerifyMeans ==
  ASSUME Edge!TypeOK, NEW c \in Edge!Presentable, NEW key \in 0..signingKey
  PROVE  /\ Edge!verify(c, key) => c \in Tokens /\ now < token[c].exp + Tolerance
         /\ ~Edge!verify(c, key) /\ c \in Tokens /\ token[c].key = key
              => token[c].exp + Tolerance <= now
<1>1. c \in Tokens => token[c].key \in 0..signingKey /\ token[c].key # 0 /\ token[c].exp \in Nat
  BY EdgeTimers DEF Edge!TypeOK, Edge!Presentable, Edge!Bad
<1>2. Edge!verify(c, key) => c \in Tokens /\ now < token[c].exp + Tolerance BY DEF Edge!verify
<1>3. ASSUME ~Edge!verify(c, key), c \in Tokens, token[c].key = key
      PROVE  token[c].exp + Tolerance <= now
  <2>1. now \in Nat BY EdgeTimers DEF Edge!TypeOK
  <2>2. ~(now < token[c].exp + Tolerance) BY <1>1, <1>3 DEF Edge!verify
  <2>3. QED BY <1>1, <1>3, <2>1, <2>2, EdgeTimers
<1>4. QED BY <1>2, <1>3

\* Asking a container for a policy.
LEMMA AuthorizeStep ==
  ASSUME EdgeInv,
         NEW k \in Containers, NEW c \in Edge!Presentable, NEW r \in Routes, Edge!Authorize(k, c, r)
  PROVE  EdgeInv'
<1> DEFINE key == Edge!KeyUsed(c, cachedKey[k])
           effect == IF Edge!verify(c, key) THEN "Allow" ELSE "Deny"
           made == [effect |-> effect, covers |-> Routes, until |-> now + CacheTtl]
<1>1. /\ Edge!TypeOK /\ c \in Edge!Credentials /\ key \in 0..signingKey /\ edge
      /\ c \in Tokens => token[c].key # 0
      /\ healed # 0 => key \in {0, signingKey}
      /\ healed # 0 /\ c \in Tokens => key = signingKey
  <2>1. Edge!TypeOK /\ cachedKey[k] \in 0..signingKey /\ edge
    BY DEF EdgeInv, Edge!TypeOK, Edge!Authorize
  <2>2. c \in Tokens => c # "malformed" BY EdgeTimers DEF Edge!Bad
  <2>3. healed # 0 => readable /\ cachedKey[k] \in {0, signingKey} BY DEF EdgeInv, SecretHistory
  <2>4. QED
    BY <2>1, <2>2, <2>3, KeyType, EdgeTimers
    DEF Edge!Presentable, Edge!Credentials, Edge!Bad, Edge!KeyUsed, Edge!getKey
<1>2. /\ cachedKey' = [cachedKey EXCEPT ![k] = key]
      /\ policy' = [policy EXCEPT ![c] = made]
      /\ last' = [credential |-> c, answer |-> effect]
      /\ given' = [given EXCEPT ![c] = {effect}]
      /\ UNCHANGED <<now, signingKey, readable, authKey, edge, token, healed>>
  BY DEF Edge!Authorize, Edge!buildResourceArn, Edge!Answer
<1>3. effect \in {"Allow", "Deny"} OBVIOUS
<1>4. /\ effect = "Allow" => c \in Tokens /\ now < token[c].exp + Tolerance
      /\ effect = "Deny" /\ c \in Tokens /\ healed # 0 /\ token[c].key = signingKey
           => token[c].exp + Tolerance <= now
  BY <1>1, VerifyMeans
<1> HIDE DEF key, effect
<1>5. Edge!TypeOK' BY <1>1, <1>2, <1>3, EdgeTimers DEF Edge!TypeOK
<1>6. PolicyIsWhole'
  BY <1>1, <1>2, <1>3, EdgeTimers DEF EdgeInv, Edge!TypeOK, PolicyIsWhole
<1>7. AllowHadReason'
  BY <1>1, <1>2, <1>4, EdgeTimers DEF EdgeInv, Edge!TypeOK, AllowHadReason, Edge!Credentials
<1>8. DenyHadReason'
  BY <1>1, <1>2, <1>4, EdgeTimers DEF EdgeInv, Edge!TypeOK, DenyHadReason, SecretHistory
<1>9. SecretHistory' BY <1>1, <1>2 DEF EdgeInv, Edge!TypeOK, SecretHistory
<1>10. Edge!ServedWhileValid'
  BY <1>1, <1>2, <1>4, EdgeTimers DEF Edge!TypeOK, Edge!ServedWhileValid
<1>11. Edge!RefusalHeals'
  BY <1>1, <1>2, <1>4, EdgeTimers
  DEF EdgeInv, Edge!TypeOK, Edge!RefusalHeals, SecretHistory, Edge!Expired
<1>12. QED BY <1>5, <1>6, <1>7, <1>8, <1>9, <1>10, <1>11 DEF EdgeInv

\* Answering out of a cached policy: its reasons are as old as it is at most.
LEMMA CacheStep ==
  ASSUME EdgeInv, NEW c \in Edge!Presentable, NEW r \in Routes, Edge!FromCache(c, r)
  PROVE  EdgeInv'
<1> DEFINE p == policy[c]
<1>1. /\ Edge!TypeOK /\ c \in Edge!Credentials /\ edge
      /\ p.effect # "none" /\ now < p.until /\ p.covers = Routes
      /\ given[c] \subseteq {p.effect} /\ p.until <= now + CacheTtl
      /\ p.effect \in {"Allow", "Deny"}
  <2>1. Edge!TypeOK /\ c \in Edge!Credentials /\ Edge!Cached(c) /\ edge
    BY DEF EdgeInv, Edge!Presentable, Edge!Credentials, Edge!FromCache
  <2>2. p.effect # "none" /\ now < p.until BY <2>1 DEF Edge!Cached
  <2>3. QED BY <2>1, <2>2 DEF EdgeInv, PolicyIsWhole, Edge!TypeOK
<1>2. /\ last' = [credential |-> c, answer |-> p.effect]
      /\ given' = [given EXCEPT ![c] = @ \cup {p.effect}]
      /\ UNCHANGED <<now, Edge!keys, edge, token, policy, healed>>
  BY <1>1 DEF Edge!FromCache, Edge!Answer
<1>3. Edge!TypeOK' BY <1>1, <1>2 DEF Edge!TypeOK, Edge!keys
<1>4. PolicyIsWhole' BY <1>1, <1>2 DEF EdgeInv, PolicyIsWhole, Edge!TypeOK
<1>5. AllowHadReason' /\ DenyHadReason' /\ SecretHistory'
  BY <1>2 DEF EdgeInv, AllowHadReason, DenyHadReason, SecretHistory, Edge!keys
<1>6. Edge!ServedWhileValid'
  BY <1>1, <1>2, EdgeTimers DEF EdgeInv, AllowHadReason, Edge!TypeOK, Edge!ServedWhileValid
<1>7. Edge!RefusalHeals'
  BY <1>1, <1>2, EdgeTimers
  DEF EdgeInv, DenyHadReason, Edge!TypeOK, Edge!keys, Edge!RefusalHeals, Edge!Expired
<1>8. QED BY <1>3, <1>4, <1>5, <1>6, <1>7 DEF EdgeInv

\* GET /auth/me where no authorizer ran.
LEMMA MeStep ==
  ASSUME EdgeInv, NEW c \in Edge!Presentable, Edge!Me(c)
  PROVE  EdgeInv'
<1> DEFINE key == Edge!KeyUsed(c, authKey)
           said == IF Edge!verify(c, key) THEN "Allow" ELSE "Deny"
<1>1. /\ Edge!TypeOK /\ c \in Edge!Credentials /\ key \in 0..signingKey /\ ~edge
      /\ healed # 0 => key \in {0, signingKey}
      /\ healed # 0 /\ c \in Tokens => key = signingKey
  <2>1. Edge!TypeOK /\ authKey \in 0..signingKey /\ ~edge BY DEF EdgeInv, Edge!TypeOK, Edge!Me
  <2>2. c \in Tokens => c # "malformed" BY EdgeTimers DEF Edge!Bad
  <2>3. healed # 0 => readable /\ authKey \in {0, signingKey} BY DEF EdgeInv, SecretHistory
  <2>4. QED
    BY <2>1, <2>2, <2>3, KeyType
    DEF Edge!Presentable, Edge!Credentials, Edge!KeyUsed, Edge!getKey
<1>2. /\ authKey' = key /\ last' = [credential |-> c, answer |-> said]
      /\ UNCHANGED <<now, signingKey, readable, cachedKey, edge, token, policy, given,
                     healed>>
  BY DEF Edge!Me, Edge!Answer
<1>3. said \in {"Allow", "Deny"} OBVIOUS
<1>4. /\ said = "Allow" => c \in Tokens /\ now < token[c].exp + Tolerance
      /\ said = "Deny" /\ c \in Tokens /\ healed # 0 /\ token[c].key = signingKey
           => token[c].exp + Tolerance <= now
  BY <1>1, VerifyMeans
<1> HIDE DEF key, said
<1>5. Edge!TypeOK' BY <1>1, <1>2, <1>3 DEF Edge!TypeOK
<1>6. PolicyIsWhole' /\ AllowHadReason' /\ DenyHadReason' /\ SecretHistory'
  BY <1>1, <1>2 DEF EdgeInv, PolicyIsWhole, AllowHadReason, DenyHadReason, SecretHistory
<1>7. Edge!ServedWhileValid' BY <1>1, <1>2, <1>4, EdgeTimers DEF Edge!TypeOK, Edge!ServedWhileValid
<1>8. Edge!RefusalHeals'
  BY <1>1, <1>2, <1>4, EdgeTimers
  DEF EdgeInv, Edge!TypeOK, Edge!RefusalHeals, SecretHistory, Edge!Expired
<1>9. QED BY <1>5, <1>6, <1>7, <1>8 DEF EdgeInv

\* A token is signed: it was not, so no policy speaks of it.
LEMMA IssueStep ==
  ASSUME EdgeInv, NEW t \in Tokens, Edge!Issue(t)
  PROVE  EdgeInv'
<1> DEFINE key == Edge!getKey(authKey)
<1>1. /\ Edge!TypeOK /\ key \in 0..signingKey /\ token[t].key = 0
      /\ authKey' = key /\ last' = Edge!NoAnswer
      /\ token' = [token EXCEPT ![t] = [key |-> key, exp |-> now + Lifetime]]
      /\ UNCHANGED <<now, signingKey, readable, cachedKey, edge, policy, given, healed>>
  BY EdgeTimers DEF EdgeInv, Edge!TypeOK, Edge!Issue, Edge!getKey
<1>0. healed # 0 => key \in {0, signingKey}
  BY DEF EdgeInv, SecretHistory, Edge!getKey
<1> HIDE DEF key
<1>2. Edge!TypeOK' BY <1>1, EdgeTimers DEF Edge!TypeOK, Edge!NoAnswer, Edge!Credentials, Edge!Bad
<1>3. policy[t].effect = "none" BY <1>1 DEF EdgeInv, PolicyIsWhole, Edge!Credentials
<1>4. PolicyIsWhole'
  BY <1>1, <1>3, EdgeTimers DEF EdgeInv, PolicyIsWhole, Edge!TypeOK, Edge!Credentials
<1>5. AllowHadReason' /\ DenyHadReason' /\ SecretHistory'
  BY <1>0, <1>1, <1>3, EdgeTimers
  DEF EdgeInv, AllowHadReason, DenyHadReason, SecretHistory, Edge!TypeOK, Edge!Credentials
<1>6. Edge!ServedWhileValid' /\ Edge!RefusalHeals'
  BY <1>1 DEF Edge!ServedWhileValid, Edge!RefusalHeals, Edge!NoAnswer
<1>7. QED BY <1>2, <1>4, <1>5, <1>6 DEF EdgeInv

\* The clock, the secret and the containers: nothing is answered, and policies stay.
LEMMA OtherStep ==
  ASSUME EdgeInv, Edge!Tick \/ Edge!LoseSecret \/ Edge!RestoreSecret \/ Edge!Rotate \/ Edge!Recycle
  PROVE  EdgeInv'
<1>1. last' = Edge!NoAnswer /\ UNCHANGED <<token, policy, given, edge>>
  BY DEF Edge!Tick, Edge!LoseSecret, Edge!RestoreSecret, Edge!Rotate, Edge!Recycle, Edge!keys
<1>2. Edge!ServedWhileValid' /\ Edge!RefusalHeals'
  BY <1>1 DEF Edge!ServedWhileValid, Edge!RefusalHeals, Edge!NoAnswer
<1>3. CASE Edge!Tick
  <2>1. Edge!TypeOK'
    BY <1>1, <1>3, EdgeTimers
    DEF Edge!Tick, EdgeInv, Edge!TypeOK, Edge!keys, Edge!NoAnswer, Edge!Credentials, Edge!Bad
  <2>2. PolicyIsWhole' /\ AllowHadReason' /\ DenyHadReason'
    BY <1>1, <1>3, EdgeTimers
    DEF Edge!Tick, EdgeInv, Edge!TypeOK, Edge!keys, Edge!Credentials, PolicyIsWhole,
        AllowHadReason, DenyHadReason
  <2>3. SecretHistory'
    <3>1. Edge!KeyAtHand =>
            /\ readable /\ authKey \in {0, signingKey}
            /\ \A k \in Containers : cachedKey[k] \in {0, signingKey}
      <4>1. \A key \in 0..signingKey : key \notin 1..(signingKey - 1) => key \in {0, signingKey}
        BY EdgeTimers DEF EdgeInv, Edge!TypeOK
      <4>2. authKey \in 0..signingKey /\ \A k \in Containers : cachedKey[k] \in 0..signingKey
        BY DEF EdgeInv, Edge!TypeOK
      <4>3. authKey \in Edge!Held /\ \A k \in Containers : cachedKey[k] \in Edge!Held
        BY DEF Edge!Held
      <4>4. QED BY <4>1, <4>2, <4>3 DEF Edge!KeyAtHand
    <3>2. /\ UNCHANGED <<signingKey, readable, authKey, cachedKey>>
          /\ (healed' = healed \/ Edge!KeyAtHand)
      BY <1>3 DEF Edge!Tick, Edge!keys
    <3>3. QED BY <3>1, <3>2 DEF EdgeInv, SecretHistory
  <2>4. QED BY <1>2, <2>1, <2>2, <2>3 DEF EdgeInv
<1>4. CASE Edge!LoseSecret \/ Edge!RestoreSecret \/ Edge!Rotate \/ Edge!Recycle
  <2>1. Edge!TypeOK'
    <3>1. Edge!NoAnswer \in [credential : Edge!Credentials, answer : {"none", "Allow", "Deny"}]
      BY DEF Edge!NoAnswer, Edge!Credentials, Edge!Bad
    <3>2. CASE Edge!LoseSecret \/ Edge!RestoreSecret
      <4>1. /\ UNCHANGED <<now, signingKey, authKey, cachedKey>>
            /\ healed' \in {0, healed}
        BY <3>2 DEF Edge!LoseSecret, Edge!RestoreSecret
      <4>2. readable' \in BOOLEAN BY Zenon, <3>2 DEF Edge!LoseSecret, Edge!RestoreSecret
      <4>3. healed' \in 0..CacheTtl BY <4>1, EdgeTimers DEF EdgeInv, Edge!TypeOK
      <4>4. QED BY <1>1, <3>1, <4>1, <4>2, <4>3 DEF EdgeInv, Edge!TypeOK
    <3>3. CASE Edge!Rotate BY <1>1, <3>1, <3>3, EdgeTimers DEF Edge!Rotate, EdgeInv, Edge!TypeOK
    <3>4. CASE Edge!Recycle BY <1>1, <3>1, <3>4, EdgeTimers DEF Edge!Recycle, EdgeInv, Edge!TypeOK
    <3>5. QED BY <1>4, <3>2, <3>3, <3>4
  <2>2. PolicyIsWhole' /\ AllowHadReason' /\ DenyHadReason'
    BY <1>1, <1>4, EdgeTimers
    DEF Edge!LoseSecret, Edge!RestoreSecret, Edge!Rotate, Edge!Recycle, EdgeInv, Edge!TypeOK,
        Edge!Credentials, PolicyIsWhole, AllowHadReason, DenyHadReason
  <2>3. SecretHistory'
    <3>1. CASE Edge!LoseSecret BY <3>1 DEF Edge!LoseSecret, EdgeInv, SecretHistory
    <3>2. CASE Edge!RestoreSecret BY <3>2 DEF Edge!RestoreSecret, EdgeInv, SecretHistory
    <3>3. CASE Edge!Rotate
      <4>1. /\ UNCHANGED <<readable, authKey, cachedKey>>
            /\ (healed' = healed /\ Edge!Held = {0}) \/ healed' = 0
        BY <3>3 DEF Edge!Rotate
      <4>2. Edge!Held = {0} => authKey = 0 /\ \A k \in Containers : cachedKey[k] = 0
        BY DEF Edge!Held
      <4>3. QED BY <4>1, <4>2 DEF EdgeInv, SecretHistory
    <3>4. CASE Edge!Recycle BY <3>4 DEF Edge!Recycle, EdgeInv, Edge!TypeOK, SecretHistory
    <3>5. QED BY <1>4, <3>1, <3>2, <3>3, <3>4
  <2>4. QED BY <1>2, <2>1, <2>2, <2>3 DEF EdgeInv
<1>5. QED BY <1>3, <1>4

\* One case per action of Next.
LEMMA EdgeStep == EdgeInv /\ [Edge!Next]_(Edge!vars) => EdgeInv'
<1> SUFFICES ASSUME EdgeInv, [Edge!Next]_(Edge!vars) PROVE EdgeInv' OBVIOUS
<1>1. ASSUME NEW t \in Tokens, Edge!Issue(t) PROVE EdgeInv' BY <1>1, IssueStep
<1>2. ASSUME NEW c \in Edge!Presentable, Edge!Me(c) PROVE EdgeInv' BY <1>2, MeStep
<1>3. ASSUME NEW c \in Edge!Presentable, NEW r \in Routes, Edge!FromCache(c, r) PROVE EdgeInv'
  BY <1>3, CacheStep
<1>4. ASSUME NEW c \in Edge!Presentable, NEW r \in Routes, NEW k \in Containers,
             Edge!Authorize(k, c, r)
      PROVE EdgeInv'
  BY <1>4, AuthorizeStep
<1>5. CASE UNCHANGED Edge!vars
  BY <1>5
  DEF Edge!vars, Edge!keys, EdgeInv, Edge!TypeOK, PolicyIsWhole, AllowHadReason, DenyHadReason,
              SecretHistory, Edge!ServedWhileValid, Edge!RefusalHeals, Edge!Expired
<1>6. QED BY <1>1, <1>2, <1>3, <1>4, <1>5, OtherStep DEF Edge!Next

-----------------------------------------------------------------------------
\* The rows that match, by their instants and by what was dropped; those ahead of a row
\* in the order of the list, and how many they are; the rows at some of the places.
Matched(times, gone) == {r \in List!Rows : times[r] > 0 /\ r \notin gone}
AheadOf(times, gone, r) ==
  {s \in Matched(times, gone) : times[s] > times[r] \/ (times[s] = times[r] /\ s > r)}
RankOf(times, gone, r) == Cardinality(AheadOf(times, gone, r))
Within(times, gone, a, b) ==
  {r \in Matched(times, gone) : RankOf(times, gone, r) \in a..b}

\* The same of the table as it is, and the places before the page and after it.
Listed == Matched(createdAt, dropped)
Rank(r) == RankOf(createdAt, dropped, r)
PageAt == (page - 1) * PageSize
PageEnd == page * PageSize

ListOK ==
  /\ createdAt \in [List!Rows -> 0..MaxInstant] /\ dropped \subseteq List!Rows
  /\ page \in Nat \ {0}
  /\ got \subseteq {"rows", "count"} /\ call \in {"asked", "answered"}
  /\ call = "answered" => got = {"rows", "count"}
  /\ items \subseteq List!Rows /\ total \in Nat
  /\ seen \in [List!Rows -> Nat] /\ start \subseteq List!Rows
  /\ created \subseteq List!Rows /\ reviewed \subseteq List!Rows

\* Where the next page of this walk begins.
Passed == IF call = "answered" THEN PageEnd ELSE PageAt

\* Nothing changed: what was shown is what is listed, up to where the walk has come.
WhileQuiet ==
  created = {} /\ reviewed = {} =>
    /\ start = Listed
    /\ "rows" \in got => items = Within(createdAt, dropped, PageAt, PageEnd - 1)
    /\ "count" \in got => total = Cardinality(Listed)
    /\ page # 1 => PageAt < Cardinality(Listed)
    /\ \A r \in List!Rows : seen[r] = IF r \in Listed /\ Rank(r) < Passed THEN 1 ELSE 0

\* On how many pages a row is, with the page in flight, and the place the walk has read
\* up to: both stay as they are when that page is shown and when the next is asked for.
Shown(r) ==
  IF call = "asked" /\ "rows" \in got /\ r \in items THEN seen[r] + 1 ELSE seen[r]
Cut == IF "rows" \in got THEN PageEnd ELSE PageAt

\* The rows of the start that this walk will not show, or has been told not to look for;
\* the rows that it has shown twice, or that still lie ahead after being shown.
Skipped ==
  {r \in start : Shown(r) = 0 /\ \/ r \notin Listed
                                 \/ Rank(r) < Cut
                                 \/ "count" \in got /\ total <= PageEnd}
Repeated ==
  {r \in List!Rows : Shown(r) > 1 \/ (r \in Listed /\ Shown(r) > 0 /\ Rank(r) >= Cut)}

\* Each of them has a review or a creation of its own.
WalkIsPaid ==
  /\ PoolMax = 1 => Cardinality(Skipped) <= Cardinality(reviewed)
  /\ Cardinality(Repeated) <= Cardinality(created)

\* A row that was created exists, one that was reviewed is gone, and one that does not
\* exist was neither there nor shown.
HistoryHolds ==
  /\ \A r \in created : createdAt[r] > 0
  /\ reviewed \subseteq dropped
  /\ \A r \in List!Rows : createdAt[r] = 0 => r \notin start /\ Shown(r) = 0

ListInv ==
  /\ ListOK /\ WhileQuiet /\ WalkIsPaid /\ HistoryHolds
  /\ PoolMax = 1 /\ "count" \in got => "rows" \in got
-----------------------------------------------------------------------------
\* A set with one member more than a finite one is counted one higher at most.
LEMMA OneMore ==
  ASSUME NEW S, NEW T, NEW e, IsFiniteSet(S), T \subseteq S \cup {e}
  PROVE  /\ IsFiniteSet(T) /\ Cardinality(S) \in Nat /\ Cardinality(T) \in Nat
         /\ Cardinality(T) <= Cardinality(S) + 1
<1>1. /\ IsFiniteSet(S \cup {e})
      /\ Cardinality(S \cup {e}) = IF e \in S THEN Cardinality(S) ELSE Cardinality(S) + 1
  BY FS_AddElement
<1>2. IsFiniteSet(T) /\ Cardinality(T) <= Cardinality(S \cup {e}) BY <1>1, FS_Subset
<1>3. Cardinality(S) \in Nat /\ Cardinality(T) \in Nat BY <1>2, FS_CardinalityType
<1>4. QED BY <1>1, <1>2, <1>3

\* The rows of the walk are finitely many, and so are those of any part of them.
LEMMA RowsAreFinite ==
  ASSUME NEW S, S \subseteq List!Rows PROVE IsFiniteSet(S) /\ Cardinality(S) \in Nat
<1>1. IsFiniteSet(List!Rows) BY ListingSizes, FS_Interval DEF List!Rows
<1>2. QED BY <1>1, FS_Subset, FS_CardinalityType

\* The table is finite, and places are numbers.
LEMMA RankTypes ==
  ASSUME NEW times, NEW gone
  PROVE  /\ IsFiniteSet(Matched(times, gone)) /\ Cardinality(Matched(times, gone)) \in Nat
         /\ \A r : IsFiniteSet(AheadOf(times, gone, r)) /\ RankOf(times, gone, r) \in Nat
<1>1. IsFiniteSet(1..MaxRows) BY ListingSizes, FS_Interval
<1>2. Matched(times, gone) \in SUBSET (1..MaxRows) BY DEF Matched, List!Rows
<1>3. IsFiniteSet(Matched(times, gone)) BY <1>1, <1>2, FS_Subset
<1>4. \A r : AheadOf(times, gone, r) \in SUBSET Matched(times, gone) BY DEF AheadOf
<1>5. QED BY <1>3, <1>4, FS_Subset, FS_CardinalityType DEF RankOf

\* A row that comes earlier in the order has fewer rows ahead of it.
LEMMA RankFollowsOrder ==
  ASSUME NEW times \in [List!Rows -> Nat], NEW gone,
         NEW r \in Matched(times, gone), NEW s \in Matched(times, gone),
         times[r] > times[s] \/ (times[r] = times[s] /\ r > s)
  PROVE  RankOf(times, gone, r) < RankOf(times, gone, s)
<1> DEFINE R == AheadOf(times, gone, r)
           S == AheadOf(times, gone, s)
<1>1. /\ \A x \in Matched(times, gone) : x \in Nat /\ times[x] \in Nat
  BY ListingSizes DEF Matched, List!Rows
<1>2. R \subseteq S /\ r \in S /\ r \notin R BY <1>1 DEF AheadOf
<1>3. IsFiniteSet(R) /\ IsFiniteSet(S) /\ RankOf(times, gone, r) \in Nat
      /\ RankOf(times, gone, s) \in Nat
  BY RankTypes
<1>4. Cardinality(R) <= Cardinality(S) /\ (Cardinality(R) = Cardinality(S) => R = S)
  BY <1>2, <1>3, FS_Subset
<1>5. QED BY <1>2, <1>3, <1>4 DEF RankOf

\* Every row that matches is at a place of its own, below the number of rows.
LEMMA RanksApart ==
  ASSUME NEW times \in [List!Rows -> Nat], NEW gone
  PROVE  /\ \A r \in Matched(times, gone) :
              RankOf(times, gone, r) < Cardinality(Matched(times, gone))
         /\ \A r, s \in Matched(times, gone) :
              RankOf(times, gone, r) = RankOf(times, gone, s) => r = s
<1>1. ASSUME NEW r \in Matched(times, gone)
      PROVE  RankOf(times, gone, r) < Cardinality(Matched(times, gone))
  <2> DEFINE R == AheadOf(times, gone, r)
             M == Matched(times, gone)
  <2>1. R \subseteq M /\ r \in M /\ r \notin R
    BY ListingSizes DEF AheadOf, Matched, List!Rows
  <2>2. IsFiniteSet(R) /\ IsFiniteSet(M) /\ Cardinality(M) \in Nat /\ Cardinality(R) \in Nat
    BY RankTypes DEF RankOf
  <2>3. Cardinality(R) <= Cardinality(M) /\ (Cardinality(R) = Cardinality(M) => R = M)
    BY <2>1, <2>2, FS_Subset
  <2>4. QED BY <2>1, <2>2, <2>3 DEF RankOf
<1>2. ASSUME NEW r \in Matched(times, gone), NEW s \in Matched(times, gone), r # s
      PROVE  RankOf(times, gone, r) # RankOf(times, gone, s)
  <2>1. r \in Nat /\ s \in Nat /\ times[r] \in Nat /\ times[s] \in Nat
    BY ListingSizes DEF Matched, List!Rows
  <2>2. \/ times[r] > times[s] \/ (times[r] = times[s] /\ r > s)
        \/ times[s] > times[r] \/ (times[s] = times[r] /\ s > r)
    BY <1>2, <2>1
  <2>3. RankOf(times, gone, r) \in Nat /\ RankOf(times, gone, s) \in Nat BY RankTypes
  <2>4. \/ RankOf(times, gone, r) < RankOf(times, gone, s)
        \/ RankOf(times, gone, s) < RankOf(times, gone, r)
    BY <2>2, RankFollowsOrder
  <2>5. QED BY <2>3, <2>4
<1>3. QED BY <1>1, <1>2

\* No place is empty: the places a to b hold as many rows as there are places, up to
\* the last row.
LEMMA PlacesAreFull ==
  ASSUME NEW times \in [List!Rows -> Nat], NEW gone, NEW a \in Nat, NEW b \in Nat,
         a <= b, b < Cardinality(Matched(times, gone))
  PROVE  Cardinality(Within(times, gone, a, b)) = b - a + 1
<1> DEFINE M == Matched(times, gone)
           n == Cardinality(M)
           f == [r \in M |-> RankOf(times, gone, r)]
<1>1. IsFiniteSet(M) /\ n \in Nat /\ \A r \in M : RankOf(times, gone, r) \in Nat
  BY RankTypes
<1>2. \A r \in M : RankOf(times, gone, r) < n BY RanksApart
<1>3. \A r, s \in M : RankOf(times, gone, r) = RankOf(times, gone, s) => r = s BY RanksApart
<1> HIDE DEF n, M
<1>4. f \in Injection(M, 0..(n - 1))
  <2>1. f \in [M -> 0..(n - 1)] BY <1>1, <1>2
  <2>2. \A r, s \in M : f[r] = f[s] => r = s BY <1>3
  <2>3. QED BY <2>1, <2>2, Fun_IsInj
<1>5. IsFiniteSet(0..(n - 1)) /\ Cardinality(0..(n - 1)) = n BY <1>1, FS_Interval
<1>6. f \in Surjection(M, 0..(n - 1)) BY <1>4, <1>5, FS_Injection DEF n
<1>7. \A k \in a..b : \E r \in M : RankOf(times, gone, r) = k
  <2>1. \A k \in 0..(n - 1) : \E r \in M : f[r] = k BY <1>6 DEF Surjection
  <2>2. \A k \in a..b : k \in 0..(n - 1) BY <1>1 DEF n, M
  <2>3. QED BY <2>1, <2>2
<1> DEFINE W == Within(times, gone, a, b)
           g == [r \in W |-> RankOf(times, gone, r)]
<1>8. W = {r \in M : RankOf(times, gone, r) \in a..b} BY DEF Within, M
<1> HIDE DEF W
<1>9. g \in Bijection(W, a..b)
  <2>1. g \in [W -> a..b] BY <1>8
  <2>2. \A r, s \in W : g[r] = g[s] => r = s BY <1>3, <1>8
  <2>3. \A k \in a..b : \E r \in W : g[r] = k
    <3> SUFFICES ASSUME NEW k \in a..b PROVE \E r \in W : g[r] = k OBVIOUS
    <3>1. PICK r \in M : RankOf(times, gone, r) = k BY <1>7
    <3>2. r \in W BY <1>8, <3>1
    <3>3. QED BY <3>1, <3>2
  <2>4. QED BY <2>1, <2>2, <2>3, Fun_IsBij
<1>10. IsFiniteSet(W) /\ IsFiniteSet(a..b) /\ Cardinality(a..b) = b - a + 1
  <2>1. W \in SUBSET M BY <1>8
  <2>2. a \in Int /\ b \in Int OBVIOUS
  <2>3. QED BY <1>1, <2>1, <2>2, FS_Subset, FS_Interval
<1>11. ExistsBijection(W, a..b) BY <1>9 DEF ExistsBijection
<1>12. Cardinality(a..b) = Cardinality(W) BY <1>10, <1>11, FS_Bijection
<1>13. QED BY <1>10, <1>12 DEF W

\* A creation puts the new row somewhere: the others have as many rows ahead, or one
\* more.
LEMMA CreationPushes ==
  ASSUME NEW times \in [List!Rows -> Nat], NEW gone, NEW c \in List!Rows, NEW t \in Nat,
         times[c] = 0, NEW later, later = [times EXCEPT ![c] = t]
  PROVE  /\ Matched(times, gone) \subseteq Matched(later, gone)
         /\ Matched(later, gone) \subseteq Matched(times, gone) \cup {c}
         /\ \A r \in Matched(times, gone) :
              /\ RankOf(times, gone, r) <= RankOf(later, gone, r)
              /\ RankOf(later, gone, r) <= RankOf(times, gone, r) + 1
<1>1. \A r \in Matched(times, gone) : r # c /\ later[r] = times[r] BY DEF Matched
<1>2. Matched(times, gone) \subseteq Matched(later, gone) BY <1>1 DEF Matched
<1>3. \A r \in Matched(times, gone) :
        AheadOf(times, gone, r) \in SUBSET AheadOf(later, gone, r)
  BY <1>1, <1>2 DEF AheadOf
<1>4. Matched(later, gone) \subseteq Matched(times, gone) \cup {c} BY DEF Matched
<1>5. \A r \in Matched(times, gone) :
        AheadOf(later, gone, r) \subseteq AheadOf(times, gone, r) \cup {c}
  BY <1>1, <1>4 DEF AheadOf, Matched
<1>6. \A r \in Matched(times, gone) : RankOf(times, gone, r) <= RankOf(later, gone, r)
  BY <1>3, RankTypes, FS_Subset DEF RankOf
<1>7. \A r \in Matched(times, gone) : RankOf(later, gone, r) <= RankOf(times, gone, r) + 1
  BY <1>5, RankTypes, OneMore DEF RankOf
<1>8. QED BY <1>2, <1>4, <1>6, <1>7

\* A review takes a row away: the others have as many rows ahead, or one less if it was
\* ahead of them.
LEMMA ReviewPulls ==
  ASSUME NEW times \in [List!Rows -> Nat], NEW gone, NEW d
  PROVE  /\ Matched(times, gone \cup {d}) = Matched(times, gone) \ {d}
         /\ \A r : /\ RankOf(times, gone \cup {d}, r) <= RankOf(times, gone, r)
                   /\ RankOf(times, gone, r) <= RankOf(times, gone \cup {d}, r) + 1
         /\ \A r \in Matched(times, gone) :
              \/ RankOf(times, gone \cup {d}, r) = RankOf(times, gone, r)
              \/ d \in Matched(times, gone)
                 /\ RankOf(times, gone, d) < RankOf(times, gone, r)
<1>1. Matched(times, gone \cup {d}) = Matched(times, gone) \ {d} BY DEF Matched
<1>2. \A r : /\ AheadOf(times, gone \cup {d}, r) \in SUBSET AheadOf(times, gone, r)
             /\ AheadOf(times, gone, r) \subseteq AheadOf(times, gone \cup {d}, r) \cup {d}
  BY <1>1 DEF AheadOf
<1>3. \A r : RankOf(times, gone \cup {d}, r) <= RankOf(times, gone, r)
  BY <1>2, RankTypes, FS_Subset DEF RankOf
<1>4. \A r : RankOf(times, gone, r) <= RankOf(times, gone \cup {d}, r) + 1
  BY <1>2, RankTypes, OneMore DEF RankOf
<1>5. ASSUME NEW r \in Matched(times, gone)
      PROVE  \/ RankOf(times, gone \cup {d}, r) = RankOf(times, gone, r)
             \/ d \in Matched(times, gone)
                /\ RankOf(times, gone, d) < RankOf(times, gone, r)
  <2>1. CASE d \in AheadOf(times, gone, r) BY <2>1, RankFollowsOrder DEF AheadOf
  <2>2. CASE d \notin AheadOf(times, gone, r)
    <3>1. AheadOf(times, gone \cup {d}, r) = AheadOf(times, gone, r) BY <1>2, <2>2
    <3>2. QED BY <3>1 DEF RankOf
  <2>3. QED BY <2>1, <2>2
<1>6. QED BY <1>1, <1>3, <1>4, <1>5

\* Where the pages begin and end, and which of them is the last of a total.
LEMMA PageBounds ==
  ASSUME NEW p \in Nat \ {0}, NEW n \in Nat
  PROVE  /\ (p - 1) * PageSize \in Nat /\ p * PageSize \in Nat
         /\ p * PageSize = (p - 1) * PageSize + PageSize
         /\ p * PageSize > (p - 1) * PageSize
         /\ p >= (n + PageSize - 1) \div PageSize => p * PageSize >= n
         /\ p < (n + PageSize - 1) \div PageSize => p * PageSize < n
<1> DEFINE S == PageSize
           q == (n + S - 1) \div S
<1>1. S \in Nat /\ S > 0 /\ p \in Nat BY ListingSizes
<1> HIDE DEF S
<1>2. q \in Int /\ S * q <= n + S - 1 /\ n + S - 1 < S * q + S BY <1>1
<1> HIDE DEF q
<1>3. (p - 1) * S \in Nat /\ p * S \in Nat /\ p * S = (p - 1) * S + S BY <1>1
<1>4. ASSUME p >= q PROVE p * S >= n
  <2>1. p * S >= S * q BY <1>1, <1>2, <1>4
  <2>2. QED BY <1>1, <1>2, <1>3, <2>1
<1>5. ASSUME p < q PROVE p * S < n
  <2>1. (p + 1) * S <= S * q BY <1>1, <1>2, <1>5
  <2>2. (p + 1) * S = p * S + S BY <1>1
  <2>3. QED BY <1>1, <1>2, <1>3, <2>1, <2>2
<1>6. QED BY <1>1, <1>3, <1>4, <1>5 DEF S, q

\* The model's words for the places: its cardinality is the one of the lemmas.
LEMMA PlacesOfTheModel ==
  ASSUME ListOK
  PROVE  /\ List!Matching = Listed
         /\ \A r : List!Position(r) = Rank(r)
         /\ List!PageRows = Within(createdAt, dropped, PageAt, PageEnd - 1)
<1>1. List!Matching = Listed BY DEF List!Matching, Listed, Matched
<1>2. \A r : List!Position(r) = Rank(r)
  <2>1. \A r : {s \in List!Matching : List!Before(s, r)} = AheadOf(createdAt, dropped, r)
    BY <1>1 DEF Listed, List!Before, AheadOf
  <2>2. QED BY <2>1 DEF List!Position, Rank, RankOf, List!Cardinality, Cardinality
<1>3. List!Offset = PageAt BY DEF List!Offset, PageAt
<1>4. PageAt + PageSize = PageEnd BY ListingSizes DEF PageAt, PageEnd, ListOK
<1>5. List!Offset + PageSize - 1 = PageEnd - 1
  <2>1. PageAt \in Int /\ PageSize \in Int BY ListingSizes, PageBounds DEF ListOK, PageAt
  <2>2. QED BY <1>3, <1>4, <2>1
<1>6. List!PageRows = {r \in Listed : Rank(r) \in PageAt..(PageEnd - 1)}
  BY <1>1, <1>2, <1>3, <1>5 DEF List!PageRows
<1>7. QED BY <1>1, <1>2, <1>6 DEF Within, Listed, Rank
-----------------------------------------------------------------------------
\* A walk of which nothing was shown yet.
Fresh ==
  /\ ListOK /\ got = {} /\ call = "asked" /\ PageAt = 0 /\ start \subseteq Listed
  /\ seen = [r \in List!Rows |-> 0] /\ created = {} /\ reviewed = {}

\* A walk of which nothing was shown yet and that misses nothing of its start owes nothing.
LEMMA FreshWalk == Fresh => WalkIsPaid /\ HistoryHolds
<1> SUFFICES ASSUME Fresh PROVE WalkIsPaid /\ HistoryHolds OBVIOUS
<1> USE DEF Fresh
<1>1. \A r \in List!Rows : Shown(r) = 0 BY DEF Shown
<1>2. Cut = 0 /\ \A r : Rank(r) \in Nat BY RankTypes DEF Cut, Rank
<1>3. Skipped = {} BY <1>2 DEF Skipped
<1>4. Repeated = {} BY <1>1 DEF Repeated
<1>5. Cardinality({}) = 0 BY FS_EmptySet
<1>6. \A r \in Listed : createdAt[r] > 0 BY DEF Listed, Matched
<1>7. HistoryHolds BY <1>1, <1>6 DEF HistoryHolds
<1>8. WalkIsPaid BY <1>3, <1>4, <1>5 DEF WalkIsPaid
<1>9. QED BY <1>7, <1>8

\* Where no row is newly missed and none newly repeated, nothing more is owed.
LEMMA NoneOwed ==
  ASSUME ListOK, ListOK', WalkIsPaid, UNCHANGED <<created, reviewed>>,
         PoolMax = 1 => Skipped' \subseteq Skipped, Repeated' \subseteq Repeated
  PROVE  WalkIsPaid'
<1>1. Skipped \subseteq List!Rows /\ Repeated \subseteq List!Rows
  BY DEF ListOK, Skipped, Repeated
<1>2. /\ IsFiniteSet(Skipped) /\ IsFiniteSet(Repeated)
      /\ Cardinality(Skipped) \in Nat /\ Cardinality(Repeated) \in Nat
  BY <1>1, RowsAreFinite
<1>3. Cardinality(Repeated') <= Cardinality(Repeated) /\ Cardinality(Repeated') \in Nat
  BY <1>2, FS_Subset, FS_CardinalityType
<1>4. PoolMax = 1 =>
        Cardinality(Skipped') <= Cardinality(Skipped) /\ Cardinality(Skipped') \in Nat
  BY <1>2, FS_Subset, FS_CardinalityType
<1>5. Cardinality(created) \in Nat /\ Cardinality(reviewed) \in Nat
  BY RowsAreFinite DEF ListOK
<1>6. QED BY <1>2, <1>3, <1>4, <1>5 DEF WalkIsPaid

\* A new member of what pays covers a new member of what is owed.
LEMMA OnePaysForOne ==
  ASSUME NEW owed, NEW owes, NEW paid, NEW p, owed \subseteq List!Rows,
         paid \subseteq List!Rows, p \in List!Rows, p \notin paid,
         \E x : owes \subseteq owed \cup {x}, Cardinality(owed) <= Cardinality(paid)
  PROVE  Cardinality(owes) <= Cardinality(paid \cup {p})
<1>1. PICK x : owes \subseteq owed \cup {x} OBVIOUS
<1>2. IsFiniteSet(owed) /\ IsFiniteSet(paid) /\ Cardinality(paid) \in Nat BY RowsAreFinite
<1>3. /\ Cardinality(owed) \in Nat /\ Cardinality(owes) \in Nat
      /\ Cardinality(owes) <= Cardinality(owed) + 1
  BY <1>1, <1>2, OneMore
<1>4. Cardinality(paid \cup {p}) = Cardinality(paid) + 1 BY <1>2, FS_AddElement
<1>5. QED BY <1>2, <1>3, <1>4

\* A walk begins at the first page of whatever is there.
LEMMA ListInit == List!Init => ListInv
<1> SUFFICES ASSUME List!Init PROVE ListInv OBVIOUS
<1>1. /\ createdAt \in [List!Rows -> 0..MaxInstant] /\ dropped = {} /\ page = 1 /\ got = {}
      /\ items = {} /\ total = 0 /\ call = "asked" /\ seen = [r \in List!Rows |-> 0]
      /\ start = List!Matching /\ created = {} /\ reviewed = {}
  BY DEF List!Init
<1>2. start = Listed /\ Listed \subseteq List!Rows
  BY <1>1 DEF List!Matching, Listed, Matched
<1>3. ListOK BY <1>1, <1>2 DEF ListOK
<1>4. Passed = 0 /\ PageAt = 0 BY <1>1, ListingSizes DEF Passed, PageAt
<1>5. \A r : Rank(r) \in Nat BY RankTypes DEF Rank
<1>6. WhileQuiet BY <1>1, <1>2, <1>4, <1>5 DEF WhileQuiet
<1>7. WalkIsPaid /\ HistoryHolds BY <1>1, <1>2, <1>3, <1>4, FreshWalk DEF Fresh
<1>8. QED BY <1>1, <1>3, <1>6, <1>7 DEF ListInv

\* A request is created: rows move back by one place at most, so one row more may come
\* again, and none is missed that was not before.
LEMMA CreateKeepsInv ==
  ASSUME ListInv, NEW c \in List!Rows, List!Create(c) PROVE ListInv'
<1>0. ListOK /\ HistoryHolds BY DEF ListInv
<1>1. /\ createdAt[c] = 0 /\ created' = created \cup {c}
      /\ UNCHANGED <<dropped, page, got, items, total, call, seen, start, reviewed>>
  BY DEF List!Create, List!answer
<1>2. PICK t \in 1..MaxInstant : createdAt' = [createdAt EXCEPT ![c] = t] BY DEF List!Create
<1>3. ListOK' BY <1>0, <1>1, <1>2, ListingSizes DEF ListOK
<1>4. createdAt \in [List!Rows -> Nat] /\ t \in Nat BY <1>0, ListingSizes DEF ListOK
<1>5. /\ Listed \subseteq Listed' /\ Listed' \subseteq Listed \cup {c}
      /\ \A r \in Listed : Rank(r) <= Rank(r)' /\ Rank(r)' <= Rank(r) + 1
  BY <1>1, <1>2, <1>4, CreationPushes DEF Listed, Rank
<1>6. /\ PageEnd' = PageEnd /\ Cut' = Cut /\ (\A r : Shown(r)' = Shown(r))
      /\ Cut \in Nat
  <2>1. PageEnd' = PageEnd /\ Cut' = Cut BY <1>1 DEF PageAt, PageEnd, Cut
  <2>2. Cut \in Nat BY <1>0, PageBounds DEF ListOK, PageAt, PageEnd, Cut
  <2>3. QED BY <1>1, <2>1, <2>2 DEF Shown
<1>7. \A r : Rank(r) \in Nat /\ Rank(r)' \in Nat BY RankTypes DEF Rank
<1>8. c \notin created /\ c \notin start /\ Shown(c) = 0 /\ c \notin Listed
  BY <1>0, <1>1 DEF HistoryHolds, Listed, Matched
<1>9. HistoryHolds' BY <1>0, <1>1, <1>2, <1>4, <1>6, <1>8 DEF ListOK, HistoryHolds
<1>10. Skipped' \subseteq Skipped
  <2>1. \A r \in start : r \in Listed' <=> r \in Listed BY <1>5, <1>8
  <2>2. QED BY <1>1, <1>5, <1>6, <1>7, <2>1 DEF Skipped
<1>11. \E x : Repeated' \subseteq Repeated \cup {x}
  <2>1. \A r \in Repeated' \ Repeated : r \in Listed /\ Rank(r) = Cut - 1
    <3> SUFFICES ASSUME NEW r \in Repeated', r \notin Repeated
                 PROVE  r \in Listed /\ Rank(r) = Cut - 1
      OBVIOUS
    <3>1. /\ r \in List!Rows /\ Shown(r) > 0 /\ ~(Shown(r) > 1)
          /\ r \in Listed' /\ Rank(r)' >= Cut
      BY <1>6 DEF Repeated
    <3>2. r \in Listed BY <1>5, <1>8, <3>1
    <3>3. ~(Rank(r) >= Cut) BY <3>1, <3>2 DEF Repeated
    <3>4. QED BY <1>5, <1>6, <1>7, <3>1, <3>2, <3>3
  <2>2. \A r, q \in Listed : Rank(r) = Rank(q) => r = q
    BY <1>4, RanksApart DEF Listed, Rank
  <2>3. \A r, q \in Repeated' \ Repeated : r = q BY <2>1, <2>2
  <2>4. QED BY <2>3
<1>12. WalkIsPaid'
  <2>1. Repeated \subseteq List!Rows /\ Skipped \subseteq List!Rows
    BY <1>0 DEF ListOK, Repeated, Skipped
  <2>2. created \subseteq List!Rows /\ reviewed \subseteq List!Rows BY <1>0 DEF ListOK
  <2>3. Cardinality(Repeated) <= Cardinality(created) BY DEF ListInv, WalkIsPaid
  <2>4. Cardinality(Repeated') <= Cardinality(created')
    BY <1>1, <1>8, <1>11, <2>1, <2>2, <2>3, OnePaysForOne
  <2>5. PoolMax = 1 => Cardinality(Skipped) <= Cardinality(reviewed)
    BY DEF ListInv, WalkIsPaid
  <2>6. /\ Cardinality(Skipped) \in Nat /\ Cardinality(reviewed) \in Nat
        /\ Cardinality(Skipped') \in Nat /\ Cardinality(Skipped') <= Cardinality(Skipped)
    BY <1>10, <2>1, <2>2, RowsAreFinite, FS_Subset, FS_CardinalityType
  <2>7. PoolMax = 1 => Cardinality(Skipped') <= Cardinality(reviewed')
    BY <1>1, <2>5, <2>6
  <2>8. QED BY <2>4, <2>7 DEF WalkIsPaid
<1>13. WhileQuiet' BY <1>1 DEF WhileQuiet
<1>14. QED BY <1>1, <1>3, <1>9, <1>12, <1>13 DEF ListInv

\* A review takes a row away: rows move up by one place at most, so one row more may be
\* missed, the one that was taken or the one that came up past it, and none comes again.
LEMMA ReviewKeepsInv ==
  ASSUME ListInv, NEW d \in List!Rows, List!Review(d) PROVE ListInv'
<1>0. ListOK /\ HistoryHolds BY DEF ListInv
<1>1. /\ dropped' = dropped \cup {d} /\ reviewed' = reviewed \cup {d}
      /\ UNCHANGED <<createdAt, page, got, items, total, call, seen, start, created>>
  BY DEF List!Review, List!answer
<1>2. ListOK' BY <1>0, <1>1 DEF ListOK
<1>3. createdAt \in [List!Rows -> Nat] BY <1>0, ListingSizes DEF ListOK
<1>4. /\ Listed' = Listed \ {d}
      /\ \A r : Rank(r)' <= Rank(r) /\ Rank(r) <= Rank(r)' + 1
      /\ \A r \in Listed : Rank(r)' = Rank(r) \/ (d \in Listed /\ Rank(d) < Rank(r))
  <2>1. /\ Listed' = Matched(createdAt, dropped \cup {d})
        /\ \A r : Rank(r)' = RankOf(createdAt, dropped \cup {d}, r)
    BY <1>1 DEF Listed, Rank
  <2>2. /\ Listed = Matched(createdAt, dropped)
        /\ \A r : Rank(r) = RankOf(createdAt, dropped, r)
    BY DEF Listed, Rank
  <2>3. QED BY <1>3, <2>1, <2>2, ReviewPulls
<1>5. /\ PageEnd' = PageEnd /\ Cut' = Cut /\ (\A r : Shown(r)' = Shown(r))
      /\ Cut \in Nat
  <2>1. PageEnd' = PageEnd /\ Cut' = Cut BY <1>1 DEF PageAt, PageEnd, Cut
  <2>2. Cut \in Nat BY <1>0, PageBounds DEF ListOK, PageAt, PageEnd, Cut
  <2>3. QED BY <1>1, <2>1, <2>2 DEF Shown
<1>6. \A r : Rank(r) \in Nat /\ Rank(r)' \in Nat BY RankTypes DEF Rank
<1>7. d \notin reviewed
  BY <1>0, PlacesOfTheModel DEF List!Review, HistoryHolds, Listed, Matched
<1>8. HistoryHolds' BY <1>0, <1>1, <1>5 DEF HistoryHolds
<1>9. Repeated' \subseteq Repeated BY <1>4, <1>5, <1>6 DEF Repeated
<1>10. \E x : Skipped' \subseteq Skipped \cup {x}
  <2>1. \A r \in Skipped' \ Skipped :
          /\ r \in Listed
          /\ \/ r = d /\ Rank(d) >= Cut
             \/ Rank(r) = Cut /\ Rank(d) < Cut
    <3> SUFFICES ASSUME NEW r \in Skipped', r \notin Skipped
                 PROVE  /\ r \in Listed
                        /\ \/ r = d /\ Rank(d) >= Cut
                           \/ Rank(r) = Cut /\ Rank(d) < Cut
      OBVIOUS
    <3>1. /\ r \in start /\ Shown(r) = 0
          /\ \/ r \notin Listed'
             \/ Rank(r)' < Cut
             \/ "count" \in got /\ total <= PageEnd
      BY <1>1, <1>5 DEF Skipped
    <3>2. r \in Listed /\ ~(Rank(r) < Cut) /\ ~("count" \in got /\ total <= PageEnd)
      BY <3>1 DEF Skipped
    <3>3. r = d \/ Rank(r)' < Cut BY <1>4, <3>1, <3>2
    <3>4. QED BY <1>4, <1>5, <1>6, <3>2, <3>3
  <2>2. \A r, q \in Listed : Rank(r) = Rank(q) => r = q
    BY <1>3, RanksApart DEF Listed, Rank
  <2>3. \A r, q \in Skipped' \ Skipped : r = q BY <1>5, <1>6, <2>1, <2>2
  <2>4. QED BY <2>3
<1>11. WalkIsPaid'
  <2>1. Repeated \subseteq List!Rows /\ Skipped \subseteq List!Rows
    BY <1>0 DEF ListOK, Repeated, Skipped
  <2>2. created \subseteq List!Rows /\ reviewed \subseteq List!Rows BY <1>0 DEF ListOK
  <2>3. PoolMax = 1 => Cardinality(Skipped) <= Cardinality(reviewed)
    BY DEF ListInv, WalkIsPaid
  <2>4. PoolMax = 1 => Cardinality(Skipped') <= Cardinality(reviewed')
    BY <1>1, <1>7, <1>10, <2>1, <2>2, <2>3, OnePaysForOne
  <2>5. Cardinality(Repeated) <= Cardinality(created) BY DEF ListInv, WalkIsPaid
  <2>6. /\ Cardinality(Repeated) \in Nat /\ Cardinality(created) \in Nat
        /\ Cardinality(Repeated') \in Nat /\ Cardinality(Repeated') <= Cardinality(Repeated)
    BY <1>9, <2>1, <2>2, RowsAreFinite, FS_Subset, FS_CardinalityType
  <2>7. Cardinality(Repeated') <= Cardinality(created') BY <1>1, <2>5, <2>6
  <2>8. QED BY <2>4, <2>7 DEF WalkIsPaid
<1>12. WhileQuiet' BY <1>1 DEF WhileQuiet
<1>13. QED BY <1>1, <1>2, <1>8, <1>11, <1>12 DEF ListInv

\* The rows of the page are read.
LEMMA RowsKeepInv == ASSUME ListInv, List!SelectRows PROVE ListInv'
<1>0. ListOK BY DEF ListInv
<1>1. /\ call = "asked" /\ "rows" \notin got /\ got' = got \cup {"rows"}
      /\ UNCHANGED <<createdAt, dropped, page, total, call, seen, start, created, reviewed>>
  BY DEF List!SelectRows
<1>2. items' = {r \in Listed : Rank(r) \in PageAt..(PageEnd - 1)}
  BY <1>0, PlacesOfTheModel DEF List!SelectRows, Within, Listed, Rank
<1>3. /\ Listed' = Listed /\ \A r : Rank(r)' = Rank(r)
      /\ Passed' = PageAt /\ Passed = PageAt /\ PageAt' = PageAt /\ PageEnd' = PageEnd
  BY <1>1 DEF Listed, Rank, Passed, PageAt, PageEnd
<1>4. PageAt \in Nat /\ PageEnd \in Nat BY <1>0, PageBounds DEF ListOK, PageAt, PageEnd
<1>5. \A r : Rank(r) \in Nat BY RankTypes DEF Rank
<1>6. Listed \subseteq List!Rows BY DEF Listed, Matched
<1>7. ListOK' BY <1>0, <1>1, <1>2, <1>6 DEF ListOK
<1>8. WhileQuiet'
  <2>1. Within(createdAt, dropped, PageAt, PageEnd - 1)' = items'
    BY <1>1, <1>2, <1>3 DEF Within, Listed, Rank, RankOf, AheadOf, Matched
  <2>2. QED BY <1>1, <1>3, <2>1 DEF ListInv, WhileQuiet
<1>9. /\ Cut = PageAt /\ Cut' = PageEnd
      /\ \A r \in List!Rows : Shown(r) = seen[r] /\ seen[r] \in Nat
      /\ \A r \in List!Rows : Shown(r)' = IF r \in items' THEN seen[r] + 1 ELSE seen[r]
  BY <1>0, <1>1, <1>3 DEF ListOK, Cut, Shown
<1>10. Repeated' \subseteq Repeated
  <2> SUFFICES ASSUME NEW r \in Repeated' PROVE r \in Repeated OBVIOUS
  <2>1. /\ r \in List!Rows
        /\ Shown(r)' > 1 \/ (r \in Listed /\ Shown(r)' > 0 /\ Rank(r) >= PageEnd)
    BY <1>3, <1>9 DEF Repeated
  <2>2. CASE r \in items'
    <3>1. r \in Listed /\ Rank(r) >= PageAt /\ Rank(r) < PageEnd BY <1>2, <1>4, <1>5, <2>2
    <3>2. seen[r] > 0 BY <1>4, <1>5, <1>9, <2>1, <2>2, <3>1
    <3>3. QED BY <1>9, <2>1, <3>1, <3>2 DEF Repeated
  <2>3. CASE r \notin items'
    <3>1. seen[r] > 1 \/ (r \in Listed /\ seen[r] > 0 /\ Rank(r) >= PageEnd)
      BY <1>9, <2>1, <2>3
    <3>2. PageAt < PageEnd BY <1>0, PageBounds DEF ListOK, PageAt, PageEnd
    <3>3. QED BY <1>4, <1>5, <1>9, <2>1, <3>1, <3>2 DEF Repeated
  <2>4. QED BY <2>2, <2>3
<1>11. PoolMax = 1 => Skipped' \subseteq Skipped
  <2> SUFFICES ASSUME PoolMax = 1, NEW r \in Skipped' PROVE r \in Skipped OBVIOUS
  <2>1. "count" \notin got' BY <1>1 DEF ListInv
  <2>2. r \in start /\ r \in List!Rows BY <1>0, <1>1 DEF ListOK, Skipped
  <2>3. Shown(r)' = 0 /\ (r \notin Listed \/ Rank(r) < PageEnd)
    BY <1>3, <1>9, <2>1 DEF Skipped
  <2>4. r \notin items' /\ seen[r] = 0 BY <1>9, <2>2, <2>3
  <2>5. r \notin Listed \/ Rank(r) < PageAt BY <1>2, <1>4, <1>5, <2>3, <2>4
  <2>6. QED BY <1>9, <2>2, <2>4, <2>5 DEF Skipped
<1>12. WalkIsPaid' BY <1>0, <1>1, <1>7, <1>10, <1>11, NoneOwed DEF ListInv
<1>13. HistoryHolds'
  <2>1. \A r \in List!Rows : createdAt[r] = 0 => r \notin items'
    BY <1>2 DEF Listed, Matched
  <2>2. QED BY <1>1, <1>9, <2>1 DEF ListInv, HistoryHolds
<1>14. QED BY <1>1, <1>7, <1>8, <1>12, <1>13 DEF ListInv

\* The rows are counted: with a pool of one, after they were read.
LEMMA CountKeepsInv == ASSUME ListInv, List!SelectCount PROVE ListInv'
<1>0. ListOK BY DEF ListInv
<1>1. /\ call = "asked" /\ "count" \notin got /\ got' = got \cup {"count"}
      /\ PoolMax > 1 \/ "rows" \in got
      /\ UNCHANGED <<createdAt, dropped, page, items, call, seen, start, created, reviewed>>
  BY DEF List!SelectCount
<1>2. total' = Cardinality(Listed)
  BY <1>0, PlacesOfTheModel DEF List!SelectCount, List!Cardinality, Cardinality
<1>3. /\ Listed' = Listed /\ \A r : Rank(r)' = Rank(r)
      /\ Passed' = Passed /\ PageAt' = PageAt /\ PageEnd' = PageEnd
  BY <1>1 DEF Listed, Rank, Passed, PageAt, PageEnd
<1>4. PageEnd \in Nat BY <1>0, PageBounds DEF ListOK, PageEnd
<1>5. /\ \A r \in Listed : Rank(r) < Cardinality(Listed)
      /\ Cardinality(Listed) \in Nat /\ \A r : Rank(r) \in Nat
  <2>1. createdAt \in [List!Rows -> Nat] BY <1>0, ListingSizes DEF ListOK
  <2>2. QED BY <2>1, RankTypes, RanksApart DEF Listed, Rank
<1>6. ListOK' BY <1>0, <1>1, <1>2, <1>5 DEF ListOK
<1>7. WhileQuiet'
  <2>1. Within(createdAt, dropped, PageAt, PageEnd - 1)' =
          Within(createdAt, dropped, PageAt, PageEnd - 1)
    BY <1>1, <1>3 DEF Within, RankOf, AheadOf, Matched
  <2>2. Cardinality(Listed)' = Cardinality(Listed) BY <1>3
  <2>3. QED BY <1>1, <1>2, <1>3, <2>1, <2>2 DEF ListInv, WhileQuiet
<1>8. Cut' = Cut /\ \A r : Shown(r)' = Shown(r)
  BY <1>1, <1>3 DEF Cut, Shown
<1>9. Repeated' \subseteq Repeated BY <1>3, <1>8 DEF Repeated
<1>10. PoolMax = 1 => Skipped' \subseteq Skipped
  <2> SUFFICES ASSUME PoolMax = 1, NEW r \in Skipped' PROVE r \in Skipped OBVIOUS
  <2>1. Cut = PageEnd BY <1>1 DEF Cut
  <2>2. /\ r \in start /\ Shown(r) = 0
        /\ r \notin Listed \/ Rank(r) < Cut \/ Cardinality(Listed) <= PageEnd
    BY <1>1, <1>2, <1>3, <1>8 DEF Skipped
  <2>3. r \notin Listed \/ Rank(r) < Cut BY <1>4, <1>5, <2>1, <2>2
  <2>4. QED BY <2>2, <2>3 DEF Skipped
<1>11. WalkIsPaid' BY <1>0, <1>1, <1>6, <1>9, <1>10, NoneOwed DEF ListInv
<1>12. HistoryHolds' BY <1>1, <1>8 DEF ListInv, HistoryHolds
<1>13. PoolMax = 1 => "rows" \in got' BY <1>1
<1>14. QED BY <1>6, <1>7, <1>11, <1>12, <1>13 DEF ListInv

\* The page is shown.
LEMMA ShowKeepsInv == ASSUME ListInv, List!Answer PROVE ListInv'
<1>0. ListOK BY DEF ListInv
<1>1. /\ call = "asked" /\ got = {"rows", "count"} /\ call' = "answered"
      /\ seen' = [r \in List!Rows |-> IF r \in items THEN seen[r] + 1 ELSE seen[r]]
      /\ UNCHANGED <<createdAt, dropped, page, got, items, total, start, created, reviewed>>
  BY DEF List!Answer, List!answer
<1>2. /\ Listed' = Listed /\ \A r : Rank(r)' = Rank(r)
      /\ Passed' = PageEnd /\ Passed = PageAt /\ PageAt' = PageAt /\ PageEnd' = PageEnd
  BY <1>1 DEF Listed, Rank, Passed, PageAt, PageEnd
<1>3. PageAt \in Nat /\ PageEnd \in Nat /\ PageAt < PageEnd
  BY <1>0, PageBounds DEF ListOK, PageAt, PageEnd
<1>4. \A r : Rank(r) \in Nat BY RankTypes DEF Rank
<1>5. seen \in [List!Rows -> Nat] BY <1>0 DEF ListOK
<1>6. ListOK' BY <1>0, <1>1 DEF ListOK
<1>7. WhileQuiet'
  <2>1. Within(createdAt, dropped, PageAt, PageEnd - 1)' =
          Within(createdAt, dropped, PageAt, PageEnd - 1)
    BY <1>1, <1>2 DEF Within, RankOf, AheadOf, Matched
  <2>2. Cardinality(Listed)' = Cardinality(Listed) BY <1>2
  <2>3. SUFFICES ASSUME created = {}, reviewed = {}
        PROVE  \A r \in List!Rows :
                 seen'[r] = IF r \in Listed /\ Rank(r) < PageEnd THEN 1 ELSE 0
    BY <1>1, <1>2, <2>1, <2>2 DEF ListInv, WhileQuiet
  <2>4. items = {r \in Listed : Rank(r) \in PageAt..(PageEnd - 1)}
    BY <1>1, <2>3 DEF ListInv, WhileQuiet, Within, Listed, Rank
  <2>5. \A r \in List!Rows : seen[r] = IF r \in Listed /\ Rank(r) < PageAt THEN 1 ELSE 0
    BY <1>2, <2>3 DEF ListInv, WhileQuiet
  <2>6. QED BY <1>1, <1>3, <1>4, <2>4, <2>5
<1>8. Cut' = Cut /\ \A r \in List!Rows : Shown(r)' = Shown(r)
  BY <1>0, <1>1, <1>2 DEF ListOK, Cut, Shown
<1>9. Repeated' \subseteq Repeated BY <1>2, <1>8 DEF Repeated
<1>10. Skipped' \subseteq Skipped BY <1>0, <1>1, <1>2, <1>8 DEF ListOK, Skipped
<1>11. WalkIsPaid' BY <1>0, <1>1, <1>6, <1>9, <1>10, NoneOwed DEF ListInv
<1>12. HistoryHolds' BY <1>1, <1>8 DEF ListInv, HistoryHolds
<1>13. QED BY <1>1, <1>6, <1>7, <1>11, <1>12 DEF ListInv

\* The next page is asked for, if there is one.
LEMMA NextPageKeepsInv == ASSUME ListInv, List!NextPage PROVE ListInv'
<1>0. ListOK BY DEF ListInv
<1>1. /\ call = "answered" /\ page < List!TotalPages
      /\ page' = page + 1 /\ got' = {} /\ call' = "asked"
      /\ UNCHANGED <<createdAt, dropped, items, total, seen, start, created, reviewed>>
  BY DEF List!NextPage, List!answer
<1>2. page \in Nat \ {0} /\ total \in Nat /\ got = {"rows", "count"} BY <1>0, <1>1 DEF ListOK
<1>3. /\ Listed' = Listed /\ \A r : Rank(r)' = Rank(r)
      /\ Passed' = PageEnd /\ Passed = PageEnd /\ PageAt' = PageEnd
  BY <1>1, <1>2 DEF Listed, Rank, Passed, PageAt, PageEnd
<1>4. PageEnd < total
  BY <1>1, <1>2, PageBounds DEF List!TotalPages, PageEnd
<1>5. ListOK' BY <1>0, <1>1 DEF ListOK
<1>6. WhileQuiet'
  <2>1. Cardinality(Listed)' = Cardinality(Listed) BY <1>3
  <2>2. QED BY <1>1, <1>2, <1>3, <1>4, <2>1 DEF ListInv, WhileQuiet
<1>7. Cut' = Cut /\ \A r : Shown(r)' = Shown(r) BY <1>1, <1>2, <1>3 DEF Cut, Shown
<1>8. Repeated' \subseteq Repeated BY <1>3, <1>7 DEF Repeated
<1>9. Skipped' \subseteq Skipped BY <1>1, <1>3, <1>7 DEF Skipped
<1>10. WalkIsPaid' BY <1>0, <1>1, <1>5, <1>8, <1>9, NoneOwed DEF ListInv
<1>11. HistoryHolds' BY <1>1, <1>7 DEF ListInv, HistoryHolds
<1>12. QED BY <1>1, <1>5, <1>6, <1>10, <1>11 DEF ListInv

\* A new walk begins.
LEMMA FirstPageKeepsInv == ASSUME ListInv, List!FirstPage PROVE ListInv'
<1>0. ListOK BY DEF ListInv
<1>1. /\ page' = 1 /\ got' = {} /\ call' = "asked"
      /\ seen' = [r \in List!Rows |-> 0] /\ start' = List!Matching
      /\ created' = {} /\ reviewed' = {}
      /\ UNCHANGED <<createdAt, dropped, items, total>>
  BY DEF List!FirstPage, List!answer
<1>2. Listed' = Listed /\ start' = Listed' /\ Listed \subseteq List!Rows
  BY <1>0, <1>1, PlacesOfTheModel DEF Listed, Matched
<1>3. Passed' = 0 /\ PageAt' = 0 BY <1>1, ListingSizes DEF Passed, PageAt
<1>4. \A r : Rank(r)' \in Nat BY RankTypes DEF Rank
<1>5. ListOK' BY <1>0, <1>1, <1>2 DEF ListOK
<1>6. WhileQuiet' BY <1>1, <1>2, <1>3, <1>4 DEF WhileQuiet
<1>7. Fresh' BY <1>1, <1>2, <1>3, <1>5 DEF Fresh
<1>8. (WalkIsPaid /\ HistoryHolds)' BY <1>7, FreshWalk, PTL
<1>9. QED BY <1>1, <1>5, <1>6, <1>8 DEF ListInv

\* Every step of the listing keeps its invariant.
LEMMA ListStep == ListInv /\ [List!Next]_(List!vars) => ListInv'
<1> SUFFICES ASSUME ListInv, [List!Next]_(List!vars) PROVE ListInv' OBVIOUS
<1>1. CASE UNCHANGED List!vars
  <2>1. UNCHANGED <<createdAt, dropped, page, got, items, total, call, seen, start, created,
                    reviewed>>
    BY <1>1 DEF List!vars, List!answer
  <2>2. /\ Listed' = Listed /\ (\A r : Rank(r)' = Rank(r)) /\ PageAt' = PageAt
        /\ PageEnd' = PageEnd /\ Passed' = Passed
    BY <2>1 DEF Listed, Rank, Passed, PageAt, PageEnd
  <2>3. ListOK' BY <2>1 DEF ListInv, ListOK
  <2>4. WhileQuiet'
    <3>1. Within(createdAt, dropped, PageAt, PageEnd - 1)' =
            Within(createdAt, dropped, PageAt, PageEnd - 1)
      BY <2>1, <2>2 DEF Within, RankOf, AheadOf, Matched
    <3>2. Cardinality(Listed)' = Cardinality(Listed) BY <2>2
    <3>3. QED BY <2>1, <2>2, <3>1, <3>2 DEF ListInv, WhileQuiet
  <2>5. Cut' = Cut /\ \A r : Shown(r)' = Shown(r) BY <2>1, <2>2 DEF Cut, Shown
  <2>6. Repeated' = Repeated /\ Skipped' = Skipped
    BY <2>1, <2>2, <2>5 DEF Repeated, Skipped
  <2>7. WalkIsPaid' BY <2>1, <2>6 DEF ListInv, WalkIsPaid
  <2>8. HistoryHolds' BY <2>1, <2>5 DEF ListInv, HistoryHolds
  <2>9. QED BY <2>1, <2>3, <2>4, <2>7, <2>8 DEF ListInv
<1>2. QED
  BY <1>1, CreateKeepsInv, ReviewKeepsInv, RowsKeepInv, CountKeepsInv, ShowKeepsInv,
     NextPageKeepsInv, FirstPageKeepsInv
  DEF List!Next
-----------------------------------------------------------------------------
\* A row of requests with its events, and a table of them.
SeedStatuses == {"open", "in_review", "reviewed", "rejected"}
SeedEvents == [type : {"created", "reviewed", "status_changed"}, from : {"none"} \cup SeedStatuses,
               to : SeedStatuses]
SeedRows == [status : SeedStatuses, trail : Seq(SeedEvents)]

\* A run that is not in its loop is at the first item.
LoopBegins ==
  \A s \in Runs : pc[s] \notin {"row", "created", "decided"} => item[s] = 1

\* The first n rows are those of the seed.
Seeded(rows, n) ==
  \A i \in 1..n : rows[i] = [status |-> Items[i], trail |-> Seed!SeedTrail(Items[i])]

\* The rows up to item n, which has its events so far.
SeedingRow(s, trail) ==
  /\ accounts = s /\ Len(requests) = item[s] /\ row[s] = item[s]
  /\ Seeded(requests, item[s] - 1)
  /\ requests[item[s]] = [status |-> Items[item[s]], trail |-> trail]

\* How far a run has come, if nobody else has written.
AsFarAs(s) ==
  /\ pc[s] = "clean_users" => requests = <<>>
  /\ pc[s] = "users" => requests = <<>> /\ accounts = Nobody
  /\ pc[s] = "row" => accounts = s /\ Len(requests) = item[s] - 1 /\ Seeded(requests, item[s] - 1)
  /\ pc[s] = "created" => SeedingRow(s, <<>>)
  /\ pc[s] = "decided" => SeedingRow(s, <<Seed!Created>>) /\ Items[item[s]] # "open"
  /\ pc[s] = "done" => accounts = s /\ Len(requests) = Len(Items) /\ Seeded(requests, Len(Items))

SeedInv ==
  /\ Seed!TypeOK /\ requests \in Seq(SeedRows) /\ LoopBegins
  /\ \A s \in Runs : alone[s] => AsFarAs(s)
-----------------------------------------------------------------------------
\* The database is empty and nobody runs.
LEMMA SeedInit == Seed!Init => SeedInv
<1> SUFFICES ASSUME Seed!Init PROVE SeedInv OBVIOUS
<1>1. Seed!TypeOK
  <2>1. 1 \in DOMAIN Items BY SeedData
  <2>2. alone \in [Runs -> BOOLEAN] BY DEF Seed!Init
  <2>3. QED BY <2>1, <2>2, ListingSizes DEF Seed!Init, Seed!TypeOK
<1>2. requests \in Seq(SeedRows) BY DEF Seed!Init
<1>3. LoopBegins BY DEF Seed!Init, LoopBegins
<1>4. \A s \in Runs : ~alone[s] BY DEF Seed!Init
<1>5. QED BY <1>1, <1>2, <1>3, <1>4 DEF SeedInv

\* A run that does not move is as far as it was, if nothing is written.
LEMMA PlaceKept ==
  ASSUME SeedInv, NEW t \in Runs, alone[t], UNCHANGED <<accounts, requests>>,
         pc'[t] = pc[t], item'[t] = item[t], row'[t] = row[t]
  PROVE  AsFarAs(t)'
<1>1. AsFarAs(t) BY DEF SeedInv
<1>2. accounts' = accounts /\ requests' = requests OBVIOUS
<1>3. \A trail : SeedingRow(t, trail) => SeedingRow(t, trail)'
  BY <1>2
  DEF SeedingRow, Seeded, Seed!SeedTrail, Seed!Created, Seed!Decided, Seed!Event,
      Seed!isReviewed
<1>4. QED
  BY <1>1, <1>2, <1>3
  DEF AsFarAs, Seeded, Seed!SeedTrail, Seed!Created, Seed!Decided, Seed!Event,
      Seed!isReviewed

\* A step that writes nothing and moves one run at most: the others are as far as they
\* were.
LEMMA OthersStay ==
  ASSUME SeedInv, NEW s \in Runs, UNCHANGED <<accounts, requests>>,
         \A t \in Runs : t # s => pc'[t] = pc[t] /\ item'[t] = item[t] /\ row'[t] = row[t],
         \A t \in Runs : t # s /\ alone'[t] => alone[t],
         alone'[s] => AsFarAs(s)'
  PROVE  \A t \in Runs : alone'[t] => AsFarAs(t)'
<1> SUFFICES ASSUME NEW t \in Runs, t # s, alone'[t] PROVE AsFarAs(t)' OBVIOUS
<1> QED BY PlaceKept

\* A step that writes leaves no run alone but the writer.
LEMMA WriterAlone ==
  ASSUME SeedInv, NEW s \in Runs, Seed!WrittenBy(s), alone[s] => AsFarAs(s)'
  PROVE  /\ alone' \in [Runs -> BOOLEAN]
         /\ \A t \in Runs : alone'[t] => AsFarAs(t)'
<1>1. alone' = [t \in Runs |-> alone[t] /\ t = s] BY DEF Seed!WrittenBy
<1>2. alone' \in [Runs -> BOOLEAN] BY <1>1
<1>3. ASSUME NEW t \in Runs, alone'[t] PROVE alone[t] /\ t = s BY <1>1, <1>3
<1>4. QED BY <1>2, <1>3

\* The item a run is at is one of the seed's.
LEMMA ItemOfSeed ==
  ASSUME SeedInv, NEW s \in Runs
  PROVE  /\ item[s] \in 1..Len(Items) /\ Len(Items) \in Nat
         /\ Items[item[s]] \in SeedStatuses
BY SeedData DEF SeedInv, Seed!TypeOK, SeedStatuses

\* A row with one event more.
LEMMA RowGrows ==
  ASSUME NEW r \in SeedRows, NEW e \in SeedEvents
  PROVE  /\ [r EXCEPT !.trail = Append(@, e)] =
              [status |-> r.status, trail |-> Append(r.trail, e)]
         /\ [status |-> r.status, trail |-> Append(r.trail, e)] \in SeedRows
<1>1. PICK st \in SeedStatuses, tr \in Seq(SeedEvents) : r = [status |-> st, trail |-> tr]
  BY DEF SeedRows
<1>2. r.status = st /\ r.trail = tr BY <1>1
<1>3. [r EXCEPT !.trail = Append(@, e)] = [status |-> st, trail |-> Append(tr, e)]
  <2>1. \A x : [r EXCEPT !.trail = x] = [status |-> st, trail |-> x] BY <1>1
  <2>2. [r EXCEPT !.trail = Append(@, e)] = [r EXCEPT !.trail = Append(r.trail, e)] OBVIOUS
  <2>3. QED BY <1>2, <2>1, <2>2
<1>4. Append(tr, e) \in Seq(SeedEvents) OBVIOUS
<1>5. QED BY <1>2, <1>3, <1>4 DEF SeedRows

\* A row without its events.
LEMMA RowCleared == ASSUME NEW r \in SeedRows PROVE [r EXCEPT !.trail = <<>>] \in SeedRows
<1>1. PICK st \in SeedStatuses, tr \in Seq(SeedEvents) : r = [status |-> st, trail |-> tr]
  BY DEF SeedRows
<1>2. [r EXCEPT !.trail = <<>>] = [status |-> st, trail |-> <<>>] BY <1>1
<1>3. <<>> \in Seq(SeedEvents) OBVIOUS
<1>4. QED BY <1>2, <1>3 DEF SeedRows

\* An event under a row, or no event where the row is gone.
LEMMA EventInserted ==
  ASSUME SeedInv, NEW s \in Runs, NEW e \in SeedEvents, Seed!InsertEvent(s, e)
  PROVE  /\ requests' \in Seq(SeedRows) /\ Len(requests') = Len(requests)
         /\ accounts' = accounts /\ Seed!WrittenBy(s)
         /\ \A i \in 1..Len(requests) : i # row[s] => requests'[i] = requests[i]
         /\ row[s] # 0 =>
              requests'[row[s]] = [status |-> requests[row[s]].status,
                                   trail |-> Append(requests[row[s]].trail, e)]
<1>1. requests \in Seq(SeedRows) /\ row[s] \in {0} \cup DOMAIN requests
  BY DEF SeedInv, Seed!TypeOK
<1>2. accounts' = accounts /\ Seed!WrittenBy(s) BY DEF Seed!InsertEvent
<1>3. CASE row[s] = 0 BY <1>1, <1>2, <1>3 DEF Seed!InsertEvent
<1>4. CASE row[s] # 0
  <2> DEFINE r == requests[row[s]]
             grown == [status |-> r.status, trail |-> Append(r.trail, e)]
  <2>1. row[s] \in 1..Len(requests) /\ r \in SeedRows BY <1>1, <1>4
  <2>2. grown \in SeedRows /\ [r EXCEPT !.trail = Append(@, e)] = grown BY <2>1, RowGrows
  <2>3. requests' = [requests EXCEPT ![row[s]] = [r EXCEPT !.trail = Append(@, e)]]
    BY <1>4 DEF Seed!InsertEvent
  <2>4. requests' = [requests EXCEPT ![row[s]] = grown] BY <2>2, <2>3
  <2> HIDE DEF grown
  <2>5. requests' \in Seq(SeedRows) /\ Len(requests') = Len(requests)
    BY <1>1, <2>1, <2>2, <2>4
  <2>6. /\ requests'[row[s]] = grown
        /\ \A i \in 1..Len(requests) : i # row[s] => requests'[i] = requests[i]
    BY <1>1, <2>1, <2>4
  <2>7. QED BY <1>2, <2>5, <2>6 DEF grown
<1>5. QED BY <1>3, <1>4

\* A run ends.
LEMMA ExitKeepsInv ==
  ASSUME SeedInv, NEW s \in Runs, NEW how \in {"done", "failed"}, Seed!Exit(s, how),
         accounts' \in Runs \cup {Nobody},
         requests' \in Seq(SeedRows), Len(requests') = Len(requests)
  PROVE  /\ alone' \in [Runs -> BOOLEAN] => Seed!TypeOK'
         /\ LoopBegins'
<1>1. /\ pc' = [pc EXCEPT ![s] = how]
      /\ item' = [item EXCEPT ![s] = 1] /\ row' = [row EXCEPT ![s] = 0]
  BY DEF Seed!Exit, Seed!GoTo
<1>2. 1 \in DOMAIN Items BY SeedData
<1>3. alone' \in [Runs -> BOOLEAN] => Seed!TypeOK'
  <2>1. DOMAIN requests' = DOMAIN requests BY DEF SeedInv
  <2>2. row' \in [Runs -> {0} \cup DOMAIN requests'] BY <1>1, <2>1 DEF SeedInv, Seed!TypeOK
  <2>3. item' \in [Runs -> DOMAIN Items] BY <1>1, <1>2 DEF SeedInv, Seed!TypeOK
  <2>4. /\ pc' \in [Runs -> {"idle", "clean_events", "clean_requests", "clean_users", "users",
                            "row", "created", "decided", "done", "failed"}]
        /\ Len(requests') <= MaxRows
    BY <1>1 DEF SeedInv, Seed!TypeOK
  <2>5. QED BY <2>2, <2>3, <2>4 DEF Seed!TypeOK
<1>4. LoopBegins' BY <1>1 DEF SeedInv, Seed!TypeOK, LoopBegins
<1>5. QED BY <1>3, <1>4

\* A run begins, and nothing is known of it but that.
LEMMA StartKeepsInv == ASSUME SeedInv, NEW s \in Runs, Seed!Start(s) PROVE SeedInv'
<1>1. /\ pc' = [pc EXCEPT ![s] = "clean_events"] /\ UNCHANGED <<accounts, requests, item, row>>
      /\ pc[s] \in {"idle", "done", "failed"}
  BY DEF Seed!Start, Seed!GoTo, Seed!database, Seed!script
<1>2. alone' = [alone EXCEPT ![s] = \A t \in Runs \ {s} : ~Seed!Running(t)] BY DEF Seed!Start
<1>3. alone \in [Runs -> BOOLEAN] BY DEF SeedInv, Seed!TypeOK
<1>4. alone' \in [Runs -> BOOLEAN] BY <1>2, <1>3
<1>5. \A t \in Runs : t # s => alone'[t] = alone[t] BY <1>2, <1>3
<1>6. Seed!TypeOK' BY <1>1, <1>4 DEF SeedInv, Seed!TypeOK
<1>7. LoopBegins' BY <1>1 DEF SeedInv, Seed!TypeOK, LoopBegins
<1>8. AsFarAs(s)' BY <1>1 DEF SeedInv, Seed!TypeOK, AsFarAs
<1>9. \A t \in Runs : t # s => pc'[t] = pc[t] BY <1>1 DEF SeedInv, Seed!TypeOK
<1>10. \A t \in Runs : alone'[t] => AsFarAs(t)' BY <1>1, <1>5, <1>8, <1>9, OthersStay
<1>11. QED BY <1>1, <1>6, <1>7, <1>10 DEF SeedInv

\* A run stops where it is.
LEMMA StopKeepsInv == ASSUME SeedInv, NEW s \in Runs, Seed!Stop(s) PROVE SeedInv'
<1>1. Seed!Exit(s, "failed") /\ UNCHANGED <<accounts, requests, alone>>
  BY DEF Seed!Stop, Seed!database
<1>2. Seed!TypeOK' /\ LoopBegins' BY <1>1, ExitKeepsInv DEF SeedInv, Seed!TypeOK
<1>3. /\ AsFarAs(s)'
      /\ \A t \in Runs : t # s => pc'[t] = pc[t] /\ item'[t] = item[t] /\ row'[t] = row[t]
  BY <1>1 DEF Seed!Exit, Seed!GoTo, SeedInv, Seed!TypeOK, AsFarAs
<1>4. \A t \in Runs : alone'[t] => AsFarAs(t)' BY <1>1, <1>3, OthersStay
<1>5. QED BY <1>1, <1>2, <1>4 DEF SeedInv

\* The tables are emptied, the events first.
LEMMA CleanKeepsInv ==
  ASSUME SeedInv, NEW s \in Runs,
         Seed!DeleteEvents(s) \/ Seed!DeleteRequests(s) \/ Seed!DeleteUsers(s)
  PROVE  SeedInv'
<1>0. Seed!TypeOK /\ requests \in Seq(SeedRows) /\ LoopBegins BY DEF SeedInv
<1>1. CASE Seed!DeleteEvents(s)
  <2>1. /\ requests' = [i \in DOMAIN requests |-> [requests[i] EXCEPT !.trail = <<>>]]
        /\ pc[s] = "clean_events" /\ pc' = [pc EXCEPT ![s] = "clean_requests"]
        /\ Seed!WrittenBy(s) /\ UNCHANGED <<accounts, item, row>>
    BY <1>1 DEF Seed!DeleteEvents, Seed!GoTo, Seed!script
  <2>2. \A i \in DOMAIN requests : [requests[i] EXCEPT !.trail = <<>>] \in SeedRows
    BY <1>0, RowCleared
  <2>3. requests' \in Seq(SeedRows) /\ Len(requests') = Len(requests) BY <1>0, <2>1, <2>2
  <2>4. AsFarAs(s)' BY <1>0, <2>1 DEF Seed!TypeOK, AsFarAs
  <2>5. alone' \in [Runs -> BOOLEAN] /\ \A t \in Runs : alone'[t] => AsFarAs(t)'
    BY <2>1, <2>4, WriterAlone
  <2>6. Seed!TypeOK' BY <1>0, <2>1, <2>3, <2>5 DEF Seed!TypeOK
  <2>7. LoopBegins' BY <1>0, <2>1 DEF Seed!TypeOK, LoopBegins
  <2>8. QED BY <2>3, <2>5, <2>6, <2>7 DEF SeedInv
<1>2. CASE Seed!DeleteRequests(s)
  <2>1. /\ requests' = <<>> /\ row' = [t \in Runs |-> 0]
        /\ pc[s] = "clean_requests" /\ pc' = [pc EXCEPT ![s] = "clean_users"]
        /\ Seed!WrittenBy(s) /\ UNCHANGED <<accounts, item>>
    BY <1>2 DEF Seed!DeleteRequests, Seed!GoTo
  <2>2. AsFarAs(s)' BY <1>0, <2>1 DEF Seed!TypeOK, AsFarAs
  <2>3. alone' \in [Runs -> BOOLEAN] /\ \A t \in Runs : alone'[t] => AsFarAs(t)'
    BY <2>1, <2>2, WriterAlone
  <2>4. Seed!TypeOK'
    <3>1. Len(requests') <= MaxRows BY <2>1, ListingSizes
    <3>2. row' \in [Runs -> {0} \cup DOMAIN requests'] BY <2>1
    <3>3. QED BY <1>0, <2>1, <2>3, <3>1, <3>2 DEF Seed!TypeOK
  <2>5. LoopBegins' BY <1>0, <2>1 DEF Seed!TypeOK, LoopBegins
  <2>6. QED BY <2>1, <2>3, <2>4, <2>5 DEF SeedInv
<1>3. CASE Seed!DeleteUsers(s)
  <2>1. /\ accounts' = Nobody
        /\ pc[s] = "clean_users" /\ pc' = [pc EXCEPT ![s] = "users"]
        /\ Seed!WrittenBy(s) /\ UNCHANGED <<requests, item, row>>
    BY <1>3 DEF Seed!DeleteUsers, Seed!GoTo, Seed!script
  <2>2. alone[s] => AsFarAs(s)' BY <1>0, <2>1 DEF SeedInv, Seed!TypeOK, AsFarAs
  <2>3. alone' \in [Runs -> BOOLEAN] /\ \A t \in Runs : alone'[t] => AsFarAs(t)'
    BY <2>1, <2>2, WriterAlone
  <2>4. Seed!TypeOK' BY <1>0, <2>1, <2>3 DEF Seed!TypeOK
  <2>5. LoopBegins' BY <1>0, <2>1 DEF Seed!TypeOK, LoopBegins
  <2>6. QED BY <2>1, <2>3, <2>4, <2>5 DEF SeedInv
<1>4. QED BY <1>1, <1>2, <1>3

\* The accounts are inserted, if there are none.
LEMMA UsersKeepInv == ASSUME SeedInv, NEW s \in Runs, Seed!InsertUsers(s) PROVE SeedInv'
<1>0. Seed!TypeOK /\ requests \in Seq(SeedRows) /\ LoopBegins BY DEF SeedInv
<1>1. pc[s] = "users" /\ Seed!WrittenBy(s) /\ requests' = requests BY DEF Seed!InsertUsers
<1>2. CASE accounts = Nobody
  <2>1. accounts' = s /\ pc' = [pc EXCEPT ![s] = "row"] /\ UNCHANGED <<item, row>>
    BY <1>2 DEF Seed!InsertUsers, Seed!GoTo, Seed!script
  <2>2. alone[s] => AsFarAs(s)'
    <3>1. SUFFICES ASSUME alone[s] PROVE AsFarAs(s)' OBVIOUS
    <3>2. requests = <<>> /\ item[s] = 1 BY <1>0, <1>1, <3>1 DEF SeedInv, AsFarAs, LoopBegins
    <3>3. pc'[s] = "row" /\ item'[s] - 1 = 0 /\ accounts' = s /\ Len(requests') = 0
      BY <1>0, <1>1, <2>1, <3>2 DEF Seed!TypeOK
    <3>4. QED BY <3>3 DEF AsFarAs, Seeded
  <2>3. alone' \in [Runs -> BOOLEAN] /\ \A t \in Runs : alone'[t] => AsFarAs(t)'
    BY <1>1, <2>2, WriterAlone
  <2>4. Seed!TypeOK' BY <1>0, <1>1, <2>1, <2>3 DEF Seed!TypeOK
  <2>5. LoopBegins' BY <1>0, <1>1, <2>1 DEF Seed!TypeOK, LoopBegins
  <2>6. QED BY <1>0, <1>1, <2>3, <2>4, <2>5 DEF SeedInv
<1>3. CASE accounts # Nobody
  <2>1. Seed!Exit(s, "failed") /\ accounts' = accounts BY <1>3 DEF Seed!InsertUsers
  <2>2. AsFarAs(s)' BY <1>0, <2>1 DEF Seed!Exit, Seed!GoTo, Seed!TypeOK, AsFarAs
  <2>3. alone' \in [Runs -> BOOLEAN] /\ \A t \in Runs : alone'[t] => AsFarAs(t)'
    BY <1>1, <2>2, WriterAlone
  <2>4. Seed!TypeOK' /\ LoopBegins' BY <1>0, <1>1, <2>1, <2>3, ExitKeepsInv DEF Seed!TypeOK
  <2>5. QED BY <1>0, <1>1, <2>3, <2>4 DEF SeedInv
<1>4. QED BY <1>2, <1>3

\* The first rows are those of the seed whatever is written after them.
LEMMA SeededBefore ==
  ASSUME NEW n \in Nat, Seeded(requests, n), n <= Len(requests), requests' \in Seq(SeedRows),
         \A i \in 1..n : requests'[i] = requests[i]
  PROVE  Seeded(requests', n)
BY DEF Seeded, Seed!SeedTrail, Seed!Created, Seed!Decided, Seed!Event, Seed!isReviewed

\* A row is inserted, with its final status and no event.
LEMMA RowKeepsInv == ASSUME SeedInv, NEW s \in Runs, Seed!InsertRow(s) PROVE SeedInv'
<1>0. Seed!TypeOK /\ requests \in Seq(SeedRows) /\ LoopBegins BY DEF SeedInv
<1> DEFINE fresh == [status |-> Items[item[s]], trail |-> <<>>]
<1>1. /\ pc[s] = "row" /\ Len(requests) < MaxRows
      /\ requests' = Append(requests, fresh) /\ row' = [row EXCEPT ![s] = Len(requests) + 1]
      /\ pc' = [pc EXCEPT ![s] = "created"] /\ Seed!WrittenBy(s)
      /\ accounts' = accounts /\ item' = item
  BY DEF Seed!InsertRow, Seed!GoTo
<1>2. fresh \in SeedRows
  <2>1. <<>> \in Seq(SeedEvents) OBVIOUS
  <2>2. QED BY <2>1, ItemOfSeed DEF SeedRows
<1>3. /\ requests' \in Seq(SeedRows) /\ Len(requests') = Len(requests) + 1
      /\ \A i \in 1..Len(requests) : requests'[i] = requests[i]
      /\ requests'[Len(requests) + 1] = fresh
  <2> HIDE DEF fresh
  <2> QED BY <1>0, <1>1, <1>2
<1>4. alone[s] => AsFarAs(s)'
  <2> SUFFICES ASSUME alone[s] PROVE AsFarAs(s)' OBVIOUS
  <2> DEFINE n == item[s] - 1
  <2>1. accounts = s /\ Len(requests) = n /\ Seeded(requests, n) BY <1>1 DEF SeedInv, AsFarAs
  <2>2. n \in Nat BY ItemOfSeed
  <2>3. Seeded(requests', n) BY <1>1, <1>3, <2>1, <2>2, SeededBefore
  <2>4. row'[s] = item[s] /\ Len(requests') = item[s] /\ requests'[item[s]] = fresh
    BY <1>0, <1>1, <1>3, <2>1, ItemOfSeed DEF Seed!TypeOK
  <2>5. SeedingRow(s, <<>>)'
    BY <1>1, <2>1, <2>3, <2>4
    DEF SeedingRow, Seeded, Seed!SeedTrail, Seed!Created, Seed!Decided, Seed!Event,
            Seed!isReviewed
  <2>6. pc'[s] = "created" BY <1>0, <1>1 DEF Seed!TypeOK
  <2>7. QED BY <2>5, <2>6 DEF AsFarAs
<1>5. alone' \in [Runs -> BOOLEAN] /\ \A t \in Runs : alone'[t] => AsFarAs(t)'
  BY <1>1, <1>4, WriterAlone
<1>6. Seed!TypeOK'
  <2>1. row' \in [Runs -> {0} \cup DOMAIN requests']
    <3>1. DOMAIN requests \subseteq DOMAIN requests' /\ Len(requests) + 1 \in DOMAIN requests'
      BY <1>0, <1>3
    <3>2. QED BY <1>0, <1>1, <3>1 DEF Seed!TypeOK
  <2>2. Len(requests') <= MaxRows BY <1>0, <1>1, <1>3, ListingSizes
  <2>3. QED BY <1>0, <1>1, <1>5, <2>1, <2>2 DEF Seed!TypeOK
<1>7. LoopBegins' BY <1>0, <1>1 DEF Seed!TypeOK, LoopBegins
<1>8. QED BY <1>3, <1>5, <1>6, <1>7 DEF SeedInv

\* The loop goes on: to the next item, or to the end of a run that has written the seed.
LEMMA NextKeepsInv ==
  ASSUME SeedInv, NEW s \in Runs, Seed!NextItem(s), Seed!WrittenBy(s), accounts' = accounts,
         requests' \in Seq(SeedRows), Len(requests') = Len(requests),
         alone[s] => /\ accounts = s /\ Len(requests) = item[s]
                     /\ Seeded(requests', item[s])
  PROVE  SeedInv'
<1>0. Seed!TypeOK /\ requests \in Seq(SeedRows) /\ LoopBegins BY DEF SeedInv
<1>1. CASE item[s] = Len(Items)
  <2>1. Seed!Exit(s, "done") BY <1>1 DEF Seed!NextItem
  <2>2. pc'[s] = "done" BY <1>0, <2>1 DEF Seed!Exit, Seed!GoTo, Seed!TypeOK
  <2>3. alone[s] => AsFarAs(s)'
    <3> SUFFICES ASSUME alone[s] PROVE AsFarAs(s)' OBVIOUS
    <3>1. accounts' = s /\ Len(requests') = Len(Items) /\ Seeded(requests', Len(Items))
      BY <1>1
    <3>2. QED
      BY <2>2, <3>1
      DEF AsFarAs, Seeded, Seed!SeedTrail, Seed!Created, Seed!Decided, Seed!Event,
              Seed!isReviewed
  <2>4. alone' \in [Runs -> BOOLEAN] /\ \A t \in Runs : alone'[t] => AsFarAs(t)'
    BY <2>3, WriterAlone
  <2>5. Seed!TypeOK' /\ LoopBegins'
    BY <1>0, <2>1, <2>4, ExitKeepsInv DEF Seed!TypeOK
  <2>6. QED BY <2>4, <2>5 DEF SeedInv
<1>2. CASE item[s] # Len(Items)
  <2>1. pc' = [pc EXCEPT ![s] = "row"] /\ item' = [item EXCEPT ![s] = @ + 1] /\ row' = row
    BY <1>2 DEF Seed!NextItem, Seed!GoTo
  <2>2. item[s] + 1 \in DOMAIN Items BY <1>2, ItemOfSeed, SeedData
  <2>3. pc'[s] = "row" /\ item'[s] = item[s] + 1 BY <1>0, <2>1 DEF Seed!TypeOK
  <2>4. alone[s] => AsFarAs(s)'
    <3> SUFFICES ASSUME alone[s] PROVE AsFarAs(s)' OBVIOUS
    <3>1. item'[s] - 1 = item[s] BY <2>3, ItemOfSeed
    <3>2. QED
      BY <2>3, <3>1
      DEF AsFarAs, Seeded, Seed!SeedTrail, Seed!Created, Seed!Decided, Seed!Event,
              Seed!isReviewed
  <2>5. alone' \in [Runs -> BOOLEAN] /\ \A t \in Runs : alone'[t] => AsFarAs(t)'
    BY <2>4, WriterAlone
  <2>6. Seed!TypeOK'
    <3>1. DOMAIN requests' = DOMAIN requests BY <1>0
    <3>2. item' \in [Runs -> DOMAIN Items] BY <1>0, <2>1, <2>2 DEF Seed!TypeOK
    <3>3. QED BY <1>0, <2>1, <2>5, <3>1, <3>2 DEF Seed!TypeOK
  <2>7. LoopBegins' BY <1>0, <2>1 DEF Seed!TypeOK, LoopBegins
  <2>8. QED BY <2>5, <2>6, <2>7 DEF SeedInv
<1>3. QED BY <1>1, <1>2

\* An event after the creation.
LEMMA CreatedFirst ==
  ASSUME NEW e PROVE Append(<<Seed!Created>>, e) = <<Seed!Created, e>>
<1> DEFINE c == Seed!Created
           s == Append(<<c>>, e)
           t == <<c, e>>
<1>1. <<c>> \in Seq({c, e}) /\ s \in Seq({c, e}) /\ t \in Seq({c, e}) OBVIOUS
<1>2. Len(s) = 2 /\ Len(t) = 2 /\ s[1] = t[1] /\ s[2] = t[2] BY <1>1
<1> HIDE DEF s, t
<1>3. s = t BY <1>1, <1>2, SeqEqual
<1>4. QED BY <1>3 DEF s, t

\* An event is inserted: the creation, or the decision.
LEMMA EventKeepsInv ==
  ASSUME SeedInv, NEW s \in Runs, Seed!InsertCreated(s) \/ Seed!InsertDecided(s)
  PROVE  SeedInv'
<1>0. Seed!TypeOK /\ requests \in Seq(SeedRows) /\ LoopBegins BY DEF SeedInv
<1> DEFINE e == IF pc[s] = "created" THEN Seed!Created ELSE Seed!Decided(Items[item[s]])
<1>1. e \in SeedEvents /\ Seed!InsertEvent(s, e) /\ pc[s] \in {"created", "decided"}
  <2>1. Seed!Created \in SeedEvents
    BY DEF Seed!Created, Seed!Event, SeedEvents, SeedStatuses
  <2>2. Seed!Decided(Items[item[s]]) \in SeedEvents
    BY ItemOfSeed DEF Seed!Decided, Seed!Event, SeedEvents, SeedStatuses
  <2>3. QED BY <2>1, <2>2 DEF Seed!InsertCreated, Seed!InsertDecided
<1> HIDE DEF e
<1>2. /\ requests' \in Seq(SeedRows) /\ Len(requests') = Len(requests)
      /\ accounts' = accounts /\ Seed!WrittenBy(s)
      /\ \A i \in 1..Len(requests) : i # row[s] => requests'[i] = requests[i]
      /\ row[s] # 0 => requests'[row[s]] = [status |-> requests[row[s]].status,
                                            trail |-> Append(requests[row[s]].trail, e)]
  BY <1>1, EventInserted
<1>3. CASE row[s] = 0
  <2>1. Seed!Exit(s, "failed") BY <1>3 DEF Seed!InsertCreated, Seed!InsertDecided
  <2>2. AsFarAs(s)' BY <1>0, <2>1 DEF Seed!Exit, Seed!GoTo, Seed!TypeOK, AsFarAs
  <2>3. alone' \in [Runs -> BOOLEAN] /\ \A t \in Runs : alone'[t] => AsFarAs(t)'
    BY <1>2, <2>2, WriterAlone
  <2>4. Seed!TypeOK' /\ LoopBegins' BY <1>0, <1>2, <2>1, <2>3, ExitKeepsInv DEF Seed!TypeOK
  <2>5. QED BY <1>2, <2>3, <2>4 DEF SeedInv
<1>4. ASSUME row[s] # 0, alone[s]
      PROVE  /\ accounts = s /\ Len(requests) = item[s] /\ row[s] = item[s]
             /\ Seeded(requests', item[s] - 1)
             /\ pc[s] = "created" =>
                  requests'[item[s]] = [status |-> Items[item[s]], trail |-> <<Seed!Created>>]
             /\ pc[s] = "decided" =>
                  /\ requests'[item[s]] = [status |-> Items[item[s]], trail |->
                                             <<Seed!Created, Seed!Decided(Items[item[s]])>>]
                  /\ Items[item[s]] # "open"
  <2>1. AsFarAs(s) BY <1>4 DEF SeedInv
  <2>2. \E trail : SeedingRow(s, trail) BY <1>1, <2>1 DEF AsFarAs
  <2>3. accounts = s /\ Len(requests) = item[s] /\ row[s] = item[s] /\ Seeded(requests, item[s] - 1)
    BY <2>2 DEF SeedingRow
  <2>4. item[s] \in Nat \ {0} BY ItemOfSeed
  <2>5. \A i \in 1..(item[s] - 1) : requests'[i] = requests[i] BY <1>2, <2>3, <2>4
  <2>6. item[s] - 1 \in Nat /\ item[s] - 1 <= Len(requests) BY <2>3, <2>4
  <2>7. Seeded(requests', item[s] - 1) BY <1>2, <2>3, <2>5, <2>6, SeededBefore
  <2>8. ASSUME pc[s] = "created"
        PROVE  requests'[item[s]] = [status |-> Items[item[s]], trail |-> <<Seed!Created>>]
    <3>1. requests[item[s]] = [status |-> Items[item[s]], trail |-> <<>>]
      BY <2>1, <2>8 DEF AsFarAs, SeedingRow
    <3>2. QED BY <1>2, <1>4, <2>3, <2>8, <3>1 DEF e
  <2>9. ASSUME pc[s] = "decided"
        PROVE  /\ requests'[item[s]] = [status |-> Items[item[s]], trail |->
                                          <<Seed!Created, Seed!Decided(Items[item[s]])>>]
               /\ Items[item[s]] # "open"
    <3>1. /\ requests[item[s]] = [status |-> Items[item[s]], trail |-> <<Seed!Created>>]
          /\ Items[item[s]] # "open"
      BY <2>1, <2>9 DEF AsFarAs, SeedingRow
    <3>2. e = Seed!Decided(Items[item[s]]) BY <2>9 DEF e
    <3>3. Append(<<Seed!Created>>, e) = <<Seed!Created, e>>
      BY <1>1, CreatedFirst
    <3>4. requests'[item[s]] = [status |-> requests[item[s]].status,
                                trail |-> Append(requests[item[s]].trail, e)]
      BY <1>2, <1>4, <2>3
    <3>5. QED BY <3>1, <3>2, <3>3, <3>4
  <2>10. QED BY <2>3, <2>7, <2>8, <2>9
<1>5. CASE row[s] # 0 /\ Seed!NextItem(s)
  <2>1. ASSUME pc[s] = "created", Items[item[s]] # "open" PROVE FALSE
    <3>1. pc' = [pc EXCEPT ![s] = "decided"]
      BY <1>5, <2>1 DEF Seed!InsertCreated, Seed!InsertDecided, Seed!GoTo
    <3>2. pc'[s] \in {"done", "row"}
      BY <1>0, <1>5 DEF Seed!NextItem, Seed!Exit, Seed!GoTo, Seed!TypeOK
    <3>3. QED BY <1>0, <3>1, <3>2 DEF Seed!TypeOK
  <2>2. ASSUME alone[s] PROVE accounts = s /\ Len(requests) = item[s] /\ Seeded(requests', item[s])
    <3>1. requests'[item[s]] = [status |-> Items[item[s]],
                                trail |-> Seed!SeedTrail(Items[item[s]])]
      BY <1>1, <1>4, <1>5, <2>1, <2>2 DEF Seed!SeedTrail
    <3>2. Seeded(requests', item[s] - 1) BY <1>4, <1>5, <2>2
    <3>3. item[s] \in Nat \ {0} BY ItemOfSeed
    <3>4. \A i \in 1..item[s] : i \in 1..(item[s] - 1) \/ i = item[s] BY <3>3
    <3>5. Seeded(requests', item[s]) BY <3>1, <3>2, <3>4 DEF Seeded
    <3>6. QED BY <1>4, <1>5, <2>2, <3>5
  <2>3. QED BY <1>2, <1>5, <2>2, NextKeepsInv
<1>6. CASE row[s] # 0 /\ ~Seed!NextItem(s)
  <2>1. /\ pc[s] = "created" /\ Items[item[s]] # "open"
        /\ pc' = [pc EXCEPT ![s] = "decided"] /\ item' = item /\ row' = row
    BY <1>6 DEF Seed!InsertCreated, Seed!InsertDecided, Seed!GoTo, Seed!script
  <2>2. pc'[s] = "decided" BY <1>0, <2>1 DEF Seed!TypeOK
  <2>3. ASSUME alone[s] PROVE AsFarAs(s)'
    <3>1. SeedingRow(s, <<Seed!Created>>)'
      BY <1>2, <1>4, <1>6, <2>1, <2>3
      DEF SeedingRow, Seeded, Seed!SeedTrail, Seed!Created, Seed!Decided, Seed!Event,
              Seed!isReviewed
    <3>2. QED BY <2>1, <2>2, <3>1 DEF AsFarAs
  <2>4. alone' \in [Runs -> BOOLEAN] /\ \A t \in Runs : alone'[t] => AsFarAs(t)'
    BY <1>2, <2>3, WriterAlone
  <2>5. Seed!TypeOK'
    <3>1. DOMAIN requests' = DOMAIN requests BY <1>0, <1>2
    <3>2. QED BY <1>0, <1>2, <2>1, <2>4, <3>1 DEF Seed!TypeOK
  <2>6. LoopBegins' BY <1>0, <2>1 DEF Seed!TypeOK, LoopBegins
  <2>7. QED BY <1>2, <2>4, <2>5, <2>6 DEF SeedInv
<1>7. QED BY <1>3, <1>5, <1>6

\* The API writes, and no run is alone any more.
LEMMA ApiKeepsInv ==
  ASSUME SeedInv,
         \/ Seed!ApiCreate
         \/ \E i \in DOMAIN requests, to \in {"reviewed", "rejected"} : Seed!ApiReview(i, to)
  PROVE  SeedInv'
<1>0. Seed!TypeOK /\ requests \in Seq(SeedRows) /\ LoopBegins BY DEF SeedInv
<1>1. Seed!WrittenBy(Nobody) /\ UNCHANGED <<accounts, pc, item, row>>
  BY DEF Seed!ApiCreate, Seed!ApiReview, Seed!script
<1>2. alone' = [t \in Runs |-> FALSE] BY <1>1, SeedData DEF Seed!WrittenBy
<1>3. /\ requests' \in Seq(SeedRows) /\ Len(requests') <= MaxRows
      /\ Len(requests) <= Len(requests')
  <2>1. CASE Seed!ApiCreate
    <3> DEFINE r == [status |-> "open", trail |-> <<Seed!Created>>]
    <3>1. r \in SeedRows
      <4>1. Seed!Created \in SeedEvents
        BY DEF Seed!Created, Seed!Event, SeedEvents, SeedStatuses
      <4>2. <<Seed!Created>> \in Seq(SeedEvents) BY <4>1
      <4>3. QED BY <4>2 DEF SeedRows, SeedStatuses
    <3>2. requests' = Append(requests, r) /\ Len(requests) < MaxRows BY <2>1 DEF Seed!ApiCreate
    <3> HIDE DEF r
    <3>3. QED BY <1>0, <3>1, <3>2, ListingSizes
  <2>2. ASSUME NEW i \in DOMAIN requests, NEW to \in {"reviewed", "rejected"},
               Seed!ApiReview(i, to)
        PROVE  requests' \in Seq(SeedRows) /\ Len(requests') = Len(requests)
    <3> DEFINE e == Seed!Event("reviewed", requests[i].status, to)
               r == [status |-> to, trail |-> Append(requests[i].trail, e)]
    <3>1. requests[i] \in SeedRows BY <1>0
    <3>2. e \in SeedEvents BY <3>1 DEF Seed!Event, SeedEvents, SeedRows, SeedStatuses
    <3>3. r \in SeedRows
      <4>1. requests[i].trail \in Seq(SeedEvents) BY <3>1 DEF SeedRows
      <4> HIDE DEF e
      <4>2. Append(requests[i].trail, e) \in Seq(SeedEvents) BY <3>2, <4>1
      <4>3. QED BY <4>2 DEF SeedRows, SeedStatuses
    <3>4. requests' = [requests EXCEPT ![i] = r] BY <2>2 DEF Seed!ApiReview
    <3> HIDE DEF r
    <3>5. QED BY <1>0, <3>3, <3>4
  <2>3. QED BY <1>0, <2>1, <2>2 DEF Seed!TypeOK
<1>4. Seed!TypeOK'
  <2>1. DOMAIN requests \subseteq DOMAIN requests' BY <1>0, <1>3
  <2>2. alone' \in [Runs -> BOOLEAN] BY <1>2
  <2>3. QED BY <1>0, <1>1, <1>3, <2>1, <2>2 DEF Seed!TypeOK
<1>5. LoopBegins' BY <1>0, <1>1 DEF LoopBegins
<1>6. QED BY <1>2, <1>3, <1>4, <1>5 DEF SeedInv

\* Every step of the seed keeps its invariant.
LEMMA SeedStep == SeedInv /\ [Seed!Next]_(Seed!vars) => SeedInv'
<1> SUFFICES ASSUME SeedInv, [Seed!Next]_(Seed!vars) PROVE SeedInv' OBVIOUS
<1>1. ASSUME NEW s \in Runs,
             \/ Seed!Start(s) \/ Seed!DeleteEvents(s) \/ Seed!DeleteRequests(s)
             \/ Seed!DeleteUsers(s) \/ Seed!InsertUsers(s) \/ Seed!InsertRow(s)
             \/ Seed!InsertCreated(s) \/ Seed!InsertDecided(s) \/ Seed!Stop(s)
      PROVE  SeedInv'
  BY <1>1, StartKeepsInv, StopKeepsInv, CleanKeepsInv, UsersKeepInv, RowKeepsInv, EventKeepsInv
<1>2. CASE UNCHANGED Seed!vars
  <2>1. UNCHANGED <<accounts, requests, pc, item, row, alone>>
    BY <1>2 DEF Seed!vars, Seed!database, Seed!script
  <2>2. \A t \in Runs : alone'[t] => AsFarAs(t)'
    <3> SUFFICES ASSUME NEW t \in Runs, alone'[t] PROVE AsFarAs(t)' OBVIOUS
    <3> QED BY <2>1, PlaceKept
  <2>3. QED BY <2>1, <2>2 DEF SeedInv, Seed!TypeOK, LoopBegins
<1>3. QED BY <1>1, <1>2, ApiKeepsInv DEF Seed!Next
-----------------------------------------------------------------------------
\* Platform begins as every part begins, and its steps are steps of the parts.
LEMMA PartsBegin == Init => Process!Init /\ Edge!Init /\ List!Init /\ Seed!Init
BY DEF Init

LEMMA PartsStep ==
  [Next]_vars =>
    /\ [Process!Next]_(Process!vars) /\ [Edge!Next]_(Edge!vars)
    /\ [List!Next]_(List!vars) /\ [Seed!Next]_(Seed!vars)
<1> SUFFICES ASSUME [Next]_vars
             PROVE  /\ [Process!Next]_(Process!vars) /\ [Edge!Next]_(Edge!vars)
                    /\ [List!Next]_(List!vars) /\ [Seed!Next]_(Seed!vars)
    OBVIOUS
<1>1. Process!Next \/ UNCHANGED processVars BY DEF Next, vars
<1>2. Edge!Next \/ UNCHANGED edgeVars BY DEF Next, vars
<1>3. List!Next \/ UNCHANGED listingVars BY DEF Next, vars
<1>4. Seed!Next \/ UNCHANGED seedVars BY DEF Next, vars
<1>5. UNCHANGED processVars => UNCHANGED Process!vars
  BY DEF processVars, Process!vars, Process!outside, Process!cold, Process!pool, Process!call,
         Process!history
<1>6. UNCHANGED edgeVars => UNCHANGED Edge!vars BY DEF edgeVars, Edge!vars, Edge!keys
<1>7. UNCHANGED listingVars => UNCHANGED List!vars BY DEF listingVars, List!vars, List!answer
<1>8. UNCHANGED seedVars => UNCHANGED Seed!vars
  BY DEF seedVars, Seed!vars, Seed!database, Seed!script
<1>9. QED BY <1>1, <1>2, <1>3, <1>4, <1>5, <1>6, <1>7, <1>8

\* The inductive invariant of the process: every client is accounted for, and every
\* call knows no more than its uses of the pool have shown.
THEOREM ProcessInvariant == Spec => []ProcessInv
<1>1. Init => ProcessInv BY PartsBegin, ProcessInit
<1>2. ProcessInv /\ [Next]_vars => ProcessInv' BY PartsStep, ProcessStep
<1>3. QED BY <1>1, <1>2, PTL DEF Spec

\* Type correctness of the process, the pool's bounds among it.
THEOREM ProcessTypes == Spec => []Process!TypeOK
<1>1. ProcessInv => Process!TypeOK
  <2> SUFFICES ASSUME ProcessInv PROVE Process!TypeOK OBVIOUS
  <2>1. idle \in 0..PoolMax /\ dead \in 0..PoolMax BY PoolBounds DEF ProcessInv
  <2>2. pools \in Nat /\ open \in 0..PoolMax BY DEF ProcessInv, SetUpOnce, PoolOK
  <2>3. QED BY <2>1, <2>2 DEF ProcessInv, ProcessOK, Process!TypeOK, Uses, UseStates
<1>2. QED BY <1>1, ProcessInvariant, PTL

\* However many calls meet in a cold start and however the database comes and goes,
\* a process opens one pool, within its bound, and loses no client of it.
THEOREM PoolStaysWhole == Spec => []PoolIsWhole
<1>1. ProcessInv => PoolIsWhole
  <2> SUFFICES ASSUME ProcessInv PROVE PoolIsWhole OBVIOUS
  <2>1. pools <= 1 BY DEF ProcessInv, SetUpOnce
  <2>2. ClientsCounted /\ open <= PoolMax BY ProcessSizes DEF ProcessInv, PoolOK
  <2>3. Process!NoClientLost
    BY <2>2 DEF ClientsCounted, Process!NoClientLost, Process!Cardinality, Cardinality
  <2>4. QED BY <2>1, <2>2, <2>3 DEF PoolIsWhole, Process!PoolIsWhole, Process!OnePool
<1>2. QED BY <1>1, ProcessInvariant, PTL

\* A creation that got a 503 wrote nothing, and a healthy answer reached the database.
THEOREM AnswersStayTrue == Spec => []AnswersAreTrue
<1>1. ProcessInv => AnswersAreTrue
  BY DEF ProcessInv, CallsFit, KnowsDatabase, AnswerFits, AnswersAreTrue, Process!AnswersAreTrue,
         Process!RetryableMeansUnwritten, Process!HealthyMeansReached
<1>2. QED BY <1>1, ProcessInvariant, PTL

\* The inductive invariant of the edge: every cached policy had its reason, and it is
\* no older than the life of a policy.
THEOREM PoliciesHadReasons == Spec => []EdgeInv
<1>1. Init => EdgeInv BY PartsBegin, EdgeInit
<1>2. EdgeInv /\ [Next]_vars => EdgeInv' BY PartsStep, EdgeStep
<1>3. QED BY <1>1, <1>2, PTL DEF Spec

\* A token is let in only while it is valid, but for the tolerance of the clocks and
\* the life of a policy; a policy gives every route one answer; and a good token is
\* refused only for the life of a policy after the secret was out of reach or a
\* container held a replaced key.
THEOREM AnswersLagBriefly == Spec => []AnswersFollowTheToken
<1>1. EdgeInv => AnswersFollowTheToken
  <2> SUFFICES ASSUME EdgeInv PROVE Edge!OnePolicyOneAnswer
    BY DEF EdgeInv, AnswersFollowTheToken, Edge!AnswersFollowTheToken
  <2> SUFFICES ASSUME NEW c \in Edge!Credentials PROVE Cardinality(given[c]) <= 1
    BY DEF Edge!OnePolicyOneAnswer, Edge!Cardinality, Cardinality
  <2>1. given[c] \subseteq {policy[c].effect} BY DEF EdgeInv, PolicyIsWhole
  <2>2. QED BY <2>1, AtMostOne
<1>2. QED BY <1>1, PoliciesHadReasons, PTL

\* The inductive invariant of the listing: what a walk has shown and what is behind it,
\* by what happened since it began.
THEOREM ListInvariant == Spec => []ListInv
<1>1. Init => ListInv BY PartsBegin, ListInit
<1>2. ListInv /\ [Next]_vars => ListInv' BY PartsStep, ListStep
<1>3. QED BY <1>1, <1>2, PTL DEF Spec

\* When the walk ends, its pages reach as far as its last count.
LEMMA WalkReachesTotal == ListInv /\ List!WalkEnds => PageEnd >= total
<1> SUFFICES ASSUME ListInv, List!WalkEnds PROVE PageEnd >= total OBVIOUS
<1>1. page \in Nat \ {0} /\ total \in Nat BY DEF ListInv, ListOK
<1>2. CASE total = 0 BY <1>1, <1>2, PageBounds DEF PageEnd
<1>3. CASE total # 0
  <2>1. page >= (total + PageSize - 1) \div PageSize
    BY <1>3 DEF List!WalkEnds, List!TotalPages
  <2>2. QED BY <1>1, <2>1, PageBounds DEF PageEnd
<1>4. QED BY <1>2, <1>3

\* While nothing changes, a walk to the end shows every row of its start once.
LEMMA QuietWalk == ListInv => List!QuietWalkIsExact
<1> SUFFICES ASSUME ListInv, List!WalkEnds, created = {}, reviewed = {}, NEW r \in List!Rows
             PROVE  seen[r] = IF r \in start THEN 1 ELSE 0
  BY DEF List!QuietWalkIsExact
<1>1. ListOK /\ call = "answered" /\ "count" \in got BY DEF ListInv, ListOK, List!WalkEnds
<1>2. start = Listed /\ total = Cardinality(Listed) BY <1>1 DEF ListInv, WhileQuiet
<1>3. seen[r] = IF r \in Listed /\ Rank(r) < PageEnd THEN 1 ELSE 0
  BY <1>1 DEF ListInv, WhileQuiet, Passed
<1>4. PageEnd >= total BY WalkReachesTotal
<1>5. createdAt \in [List!Rows -> Nat] BY <1>1, ListingSizes DEF ListOK
<1>6. r \in Listed => Rank(r) < total BY <1>2, <1>5, RanksApart DEF Listed, Rank
<1>7. PageEnd \in Nat /\ total \in Nat /\ Rank(r) \in Nat
  BY <1>1, RankTypes, PageBounds DEF ListOK, PageEnd, Rank
<1>8. QED BY <1>2, <1>3, <1>4, <1>6, <1>7

\* While nothing changes, the summary counts the rows under it: no place of the page is
\* empty.
LEMMA SummaryCounts == ListInv => List!SummaryCountsRows
<1> SUFFICES ASSUME ListInv, call = "answered", created = {}, reviewed = {}
             PROVE  Cardinality(items) =
                      IF total = 0 THEN 0 ELSE List!LastItem - List!FirstItem + 1
  BY DEF List!SummaryCountsRows, List!Cardinality, Cardinality
<1>1. ListOK /\ got = {"rows", "count"} BY DEF ListInv, ListOK
<1>2. /\ items = Within(createdAt, dropped, PageAt, PageEnd - 1)
      /\ total = Cardinality(Listed) /\ (page # 1 => PageAt < total)
  BY <1>1 DEF ListInv, WhileQuiet
<1>3. createdAt \in [List!Rows -> Nat] BY <1>1, ListingSizes DEF ListOK
<1>4. PageAt \in Nat /\ PageEnd \in Nat /\ total \in Nat /\ PageAt < PageEnd
  BY <1>1, PageBounds DEF ListOK, PageAt, PageEnd
<1>5. \A r \in Listed : Rank(r) \in Nat /\ Rank(r) < total
  BY <1>2, <1>3, RankTypes, RanksApart DEF Listed, Rank
<1>6. CASE total = 0
  <2>1. Listed = {} BY <1>5, <1>6
  <2>2. items = {} BY <1>2, <2>1 DEF Within, Listed
  <2>3. QED BY <1>6, <2>2, FS_EmptySet
<1>7. CASE total # 0
  <2> DEFINE shownTo == IF PageEnd < total THEN PageEnd ELSE total
  <2>1. PageAt < total
    <3>1. page = 1 => PageAt = 0 BY ListingSizes DEF PageAt
    <3>2. QED BY <1>2, <1>4, <1>7, <3>1
  <2>2. shownTo - 1 \in Nat /\ PageAt <= shownTo - 1 /\ shownTo - 1 < total BY <1>4, <2>1
  <2>3. items = Within(createdAt, dropped, PageAt, shownTo - 1)
    <3>1. \A r \in Listed : Rank(r) \in PageAt..(PageEnd - 1) <=>
                              Rank(r) \in PageAt..(shownTo - 1)
      BY <1>4, <1>5
    <3> HIDE DEF shownTo
    <3>2. QED BY <1>2, <3>1 DEF Within, Listed, Rank
  <2>4. Cardinality(items) = (shownTo - 1) - PageAt + 1
    <3> HIDE DEF shownTo
    <3>1. QED BY <1>2, <1>3, <1>4, <2>2, <2>3, PlacesAreFull DEF Listed
  <2>5. List!LastItem = shownTo /\ List!FirstItem = PageAt + 1
    BY <1>7 DEF List!LastItem, List!FirstItem, List!Offset, PageAt, PageEnd
  <2>6. QED BY <1>4, <1>7, <2>4, <2>5
<1>8. QED BY <1>6, <1>7

\* What a walk shows twice is paid for by creations.
LEMMA RepeatsPaid == ListInv => List!RepeatsNeedCreations
<1> SUFFICES ASSUME ListInv PROVE List!RepeatsNeedCreations OBVIOUS
<1> DEFINE twice == {r \in List!Rows : seen[r] > 1}
<1>1. ListOK /\ Cardinality(Repeated) <= Cardinality(created) BY DEF ListInv, WalkIsPaid
<1>2. twice \subseteq Repeated BY <1>1 DEF ListOK, Repeated, Shown
<1>3. Repeated \subseteq List!Rows BY DEF Repeated
<1>4. IsFiniteSet(Repeated) /\ Cardinality(Repeated) \in Nat BY <1>3, RowsAreFinite
<1>5. Cardinality(twice) <= Cardinality(Repeated) /\ Cardinality(twice) \in Nat
  BY <1>2, <1>4, FS_Subset, FS_CardinalityType
<1>6. Cardinality(created) \in Nat BY <1>1, RowsAreFinite DEF ListOK
<1>7. Cardinality(twice) <= Cardinality(created) BY <1>1, <1>4, <1>5, <1>6
<1>8. QED BY <1>7 DEF List!RepeatsNeedCreations, List!Cardinality, Cardinality

\* What a walk to the end misses is paid for by reviews, where the count comes after the
\* rows: the last count sends no row of the start beyond the last page.
LEMMA SkipsPaid == PoolMax = 1 /\ ListInv => List!SkipsNeedReviews
<1> SUFFICES ASSUME PoolMax = 1, ListInv, List!WalkEnds
             PROVE  Cardinality({r \in start : seen[r] = 0}) <= Cardinality(reviewed)
  BY DEF List!SkipsNeedReviews, List!Cardinality, Cardinality
<1>1. ListOK /\ Cardinality(Skipped) <= Cardinality(reviewed) BY DEF ListInv, WalkIsPaid
<1>2. call = "answered" /\ got = {"rows", "count"} BY <1>1 DEF ListOK, List!WalkEnds
<1>3. PageEnd >= total /\ PageEnd \in Nat /\ total \in Nat
  BY <1>1, WalkReachesTotal, PageBounds DEF ListOK, PageEnd
<1>4. Skipped = {r \in start : seen[r] = 0} BY <1>2, <1>3 DEF Skipped, Shown
<1>5. QED BY <1>1, <1>4

\* A walk to the end shows every row once while nothing changes, its summary counts
\* what it shows, and it repeats at most one row for each creation: for any pool, any
\* page size and any table.
THEOREM WalkIsExact ==
  Spec => [](List!QuietWalkIsExact /\ List!RepeatsNeedCreations /\ List!SummaryCountsRows)
<1>1. ListInv => List!QuietWalkIsExact /\ List!RepeatsNeedCreations /\ List!SummaryCountsRows
  BY QuietWalk, RepeatsPaid, SummaryCounts
<1>2. QED BY <1>1, ListInvariant, PTL

\* With the pool of one connection that the services deploy with, where the count waits
\* for the rows, it misses at most one row for each review, and none for a creation.
THEOREM WalkShowsAll == ASSUME PoolMax = 1 PROVE Spec => []WalkShowsTheRows
<1>1. ListInv => WalkShowsTheRows
  BY QuietWalk, RepeatsPaid, SummaryCounts, SkipsPaid
  DEF WalkShowsTheRows, List!WalkShowsTheRows
<1>2. QED BY <1>1, ListInvariant, PTL

\* The inductive invariant of the seed: a run that has been alone since it began has
\* written as much of the seed as it has come through.
THEOREM SeedInvariant == Spec => []SeedInv
<1>1. Init => SeedInv BY PartsBegin, SeedInit
<1>2. SeedInv /\ [Next]_vars => SeedInv' BY PartsStep, SeedStep
<1>3. QED BY <1>1, <1>2, PTL DEF Spec

\* A run of the seed that ends with nobody else writing leaves the accounts and the
\* requests of the seed, each with its events, and nothing else.
THEOREM SeedIsRestored == Spec => []RerunRestoresTheSeed
<1>1. SeedInv => RerunRestoresTheSeed
  <2> SUFFICES ASSUME SeedInv, NEW s \in Runs, pc[s] = "done", alone[s]
               PROVE  /\ accounts = s
                      /\ requests = [n \in DOMAIN Items |->
                           [status |-> Items[n], trail |-> Seed!SeedTrail(Items[n])]]
    BY DEF RerunRestoresTheSeed, Seed!RerunRestoresTheSeed
  <2>1. accounts = s /\ Len(requests) = Len(Items) /\ Seeded(requests, Len(Items))
    BY DEF SeedInv, AsFarAs
  <2>2. requests \in Seq(SeedRows) BY DEF SeedInv
  <2>3. DOMAIN requests = DOMAIN Items BY <2>1, <2>2, SeedData
  <2>4. requests = [n \in DOMAIN requests |-> requests[n]] BY <2>2
  <2>5. \A n \in DOMAIN Items :
          requests[n] = [status |-> Items[n], trail |-> Seed!SeedTrail(Items[n])]
    BY <2>1, SeedData DEF Seeded
  <2>6. QED BY <2>1, <2>3, <2>4, <2>5
<1>2. QED BY <1>1, SeedInvariant, PTL
=============================================================================
