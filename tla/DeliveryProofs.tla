---------------------------- MODULE DeliveryProofs ----------------------------
(***************************************************************************)
(* What stands between a change and an environment, for any other checks,  *)
(* any number of pushes and comments, any services and any routes. The run *)
(* of ci.yml: the report is the last job, so nothing it has seen changes   *)
(* under it. The run of deploy.yml: what was good when a job began is good *)
(* while it runs, because a job that is over stays as it is. The script    *)
(* that compares routes: what it passed are the declarations as they are,  *)
(* and a gateway with the routes of the application prefers the one the    *)
(* application has for the address. The theorems about Delivery, one       *)
(* workflow at a time, are at the end.                                     *)
(***************************************************************************)
EXTENDS Delivery, FiniteSetTheorems, SequenceTheorems, TLAPS

CiOK ==
  /\ push \in Nat /\ job \in [Ci!Jobs -> Ci!Results \cup {"waiting", "running"}]
  /\ stage \in {"needs", "list", "write", "close", "done"} /\ talk \in Seq(Nat)

\* The report begins when every other job is over, and only a report writes.
ReportIsLast ==
  /\ job["relatorio"] # "waiting" => Ci!Finished(Ci!Verifying)
  /\ doc # Ci!Nothing => job["relatorio"] # "waiting"
  /\ stage \in {"list", "write", "close"} => job["relatorio"] = "running"
  /\ stage # "done" => push > 0

\* The Playwright suite is never skipped, and that broke has failed.
AutomationTold ==
  /\ push > 0 => job["automacao"] # "skipped"
  /\ "automacao" \in broken => job["automacao"] = "failure"
  /\ push > 0 /\ job["relatorio"] = "success" => job["automacao"] = "success"

\* A comment of the report in the first page is the only one, and the one that is about
\* to be written is edited if it is there.
CommentsFit ==
  /\ \A i, k \in DOMAIN talk : i <= PerPage /\ talk[i] > 0 /\ talk[k] > 0 => i = k
  /\ stage = "write" =>
       IF listed = 0 THEN \A i \in DOMAIN talk : i <= PerPage => talk[i] = 0
                     ELSE listed \in DOMAIN talk /\ listed <= PerPage /\ talk[listed] > 0

CiInv == CiOK /\ ReportIsLast /\ AutomationTold /\ Ci!RedJobMakesRedReport /\ CommentsFit
-----------------------------------------------------------------------------
DeployOK ==
  /\ input \in Deploy!Inputs /\ pronto \in BOOLEAN
  /\ deployJob \in [Deploy!Jobs -> Deploy!Results \cup {"waiting", "running"}]
  /\ env \in [Deploy!Tracks -> {"untouched", "partial", "applied"}]

Begun(j) == deployJob[j] \notin {"waiting", "skipped"}

\* A plan is of the chosen track.
PlannedAsChosen == \A t \in Deploy!Tracks : Begun(Deploy!Plan[t]) => input.trilha = t

\* The verification is skipped only when it was waived; whoever applies has a plan, was
\* not asked for a mere one, and has the verification behind; who touched has begun.
AppliedAfterAll ==
  /\ deployJob["verificacao"] = "skipped" => input.pularVerificacao
  /\ \A t \in Deploy!Tracks :
       /\ Begun(Deploy!Apply[t]) =>
            /\ deployJob[Deploy!Plan[t]] = "success" /\ ~input.somentePlano
            /\ deployJob["verificacao"] \in {"success", "skipped"}
       /\ env[t] # "untouched" => Begun(Deploy!Apply[t])

\* The report is the last job, and packages are built before it.
ReportSeesAll ==
  /\ deployJob["relatorio"] # "waiting" => Deploy!Finished(Deploy!Deploying)
  /\ deployDoc # Deploy!Nothing => deployJob["relatorio"] # "waiting"

DeployInv ==
  /\ DeployOK /\ PlannedAsChosen /\ AppliedAfterAll /\ ReportSeesAll
  /\ Deploy!RedJobMakesRedReport /\ Deploy!MissingPackageShows
-----------------------------------------------------------------------------
\* The names of the jobs are apart; every one but the report is one of those it waits for.
LEMMA CiNames ==
  /\ Ci!Jobs = Ci!Verifying \cup {"relatorio"} /\ "relatorio" \notin Ci!Verifying
  /\ "automacao" \in Ci!Verifying
  /\ "waiting" \notin Ci!Results /\ "running" \notin Ci!Results
  /\ Ci!Results = {"success", "failure", "cancelled", "skipped"}
  /\ Ci!Red = {"failure", "cancelled"}
BY RunSizes DEF Ci!Jobs, Ci!Verifying, Ci!Results, Ci!Red

\* A red job is in the account the document is made of, and makes it red.
LEMMA WorstShows == ASSUME NEW S, "falha" \in S PROVE Ci!Consolidar(S) = "falha"
BY DEF Ci!Consolidar, Ci!SITUACOES, Ci!Nothing

\* Nothing is pushed yet.
LEMMA CiInit == Ci!Init => CiInv
<1> SUFFICES ASSUME Ci!Init PROVE CiInv OBVIOUS
<1>1. /\ push = 0 /\ job = [j \in Ci!Jobs |-> "skipped"] /\ broken = {} /\ doc = Ci!Nothing
      /\ stage = "done" /\ talk = <<>>
  BY DEF Ci!Init
<1>2. CiOK BY <1>1, CiNames DEF CiOK
<1>3. ReportIsLast BY <1>1, CiNames DEF ReportIsLast, Ci!Finished
<1>4. AutomationTold BY <1>1 DEF AutomationTold
<1>5. Ci!RedJobMakesRedReport BY <1>1 DEF Ci!RedJobMakesRedReport
<1>6. CommentsFit BY <1>1 DEF CommentsFit
<1>7. QED BY <1>2, <1>3, <1>4, <1>5, <1>6 DEF CiInv

\* A push begins a run of its own.
LEMMA PushKeepsInv == ASSUME CiInv, Ci!Push PROVE CiInv'
<1>0. CiOK /\ CommentsFit BY DEF CiInv
<1>1. /\ push' = push + 1 /\ job' = [j \in Ci!Jobs |-> "waiting"] /\ broken' = {}
      /\ doc' = Ci!Nothing /\ stage' = "needs" /\ talk' = talk
  BY DEF Ci!Push
<1>2. push' \in Nat /\ push' > 0 BY <1>0, <1>1 DEF CiOK
<1>3. CiOK' BY <1>0, <1>1, <1>2 DEF CiOK, Ci!Jobs, Ci!Verifying, Ci!Results
<1>4. job'["relatorio"] = "waiting" /\ job'["automacao"] = "waiting" BY <1>1, CiNames
<1>5. ReportIsLast' BY <1>1, <1>2, <1>4 DEF ReportIsLast, Ci!Nothing
<1>6. AutomationTold' BY <1>1, <1>4 DEF AutomationTold
<1>7. Ci!RedJobMakesRedReport' BY <1>1 DEF Ci!RedJobMakesRedReport, Ci!Nothing
<1>8. CommentsFit' BY <1>0, <1>1 DEF CommentsFit
<1>9. QED BY <1>3, <1>5, <1>6, <1>7, <1>8 DEF CiInv

\* A job that is not the report begins, ends or is cancelled before the report begins.
LEMMA JobMoves ==
  ASSUME CiInv,
         job' \in [Ci!Jobs -> Ci!Results \cup {"waiting", "running"}],
         job["relatorio"] = "waiting", job'["relatorio"] = "waiting",
         push > 0 => job'["automacao"] # "skipped",
         "automacao" \in broken' => job'["automacao"] = "failure",
         UNCHANGED <<push, doc, listed, stage, talk>>
  PROVE  CiInv'
<1>0. CiOK /\ ReportIsLast /\ CommentsFit BY DEF CiInv
<1>1. CiOK' BY <1>0 DEF CiOK, Ci!Jobs, Ci!Verifying, Ci!Results
<1>2. ReportIsLast' BY <1>0 DEF ReportIsLast, Ci!Nothing
<1>3. AutomationTold' BY DEF AutomationTold
<1>4. doc' = Ci!Nothing BY <1>0 DEF ReportIsLast
<1>5. Ci!RedJobMakesRedReport' BY <1>4 DEF Ci!RedJobMakesRedReport, Ci!Nothing
<1>6. CommentsFit' BY <1>0 DEF CommentsFit
<1>7. QED BY <1>1, <1>2, <1>3, <1>5, <1>6 DEF CiInv

\* A job starts when those it needs are over.
LEMMA StartKeepsInv == ASSUME CiInv, NEW j \in Ci!Jobs, Ci!Start(j) PROVE CiInv'
<1>0. CiOK /\ ReportIsLast /\ AutomationTold /\ CommentsFit BY DEF CiInv
<1> DEFINE r == IF Ci!Wanted(j) THEN "running" ELSE "skipped"
<1>1. /\ job[j] = "waiting" /\ Ci!Finished(Ci!Needs(j)) /\ job' = [job EXCEPT ![j] = r]
      /\ UNCHANGED <<push, broken, doc, listed, stage, talk>>
  BY DEF Ci!Start
<1>2. r \in {"running", "skipped"} /\ (Ci!Wanted(j) => r = "running") OBVIOUS
<1> HIDE DEF r
<1>3. job \in [Ci!Jobs -> Ci!Results \cup {"waiting", "running"}] BY <1>0 DEF CiOK
<1>4. /\ job' \in [Ci!Jobs -> Ci!Results \cup {"waiting", "running"}]
      /\ job'[j] = r /\ \A i \in Ci!Jobs : i # j => job'[i] = job[i]
  BY <1>1, <1>2, <1>3, CiNames
<1>5. CASE j = "relatorio"
  <2>1. Ci!Finished(Ci!Verifying) BY <1>1, <1>5 DEF Ci!Needs
  <2>2. r = "running" BY <1>2, <1>5 DEF Ci!Wanted
  <2>3. CiOK' BY <1>0, <1>1, <1>4 DEF CiOK, Ci!Jobs, Ci!Verifying, Ci!Results
  <2>4. \A i \in Ci!Verifying : job'[i] = job[i] BY <1>4, <1>5, CiNames
  <2>5. ReportIsLast'
    <3>1. Ci!Finished(Ci!Verifying)' BY <2>1, <2>4 DEF Ci!Finished, Ci!Verifying, Ci!Results
    <3>2. job'["relatorio"] = "running" BY <1>4, <1>5, <2>2
    <3>3. QED BY <1>0, <1>1, <3>1, <3>2 DEF ReportIsLast, Ci!Nothing
  <2>6. AutomationTold'
    BY <1>0, <1>1, <1>4, <1>5, <2>2, <2>4, CiNames DEF AutomationTold
  <2>7. doc' = Ci!Nothing BY <1>0, <1>1, <1>5 DEF ReportIsLast
  <2>8. Ci!RedJobMakesRedReport' BY <2>7 DEF Ci!RedJobMakesRedReport, Ci!Nothing
  <2>9. CommentsFit' BY <1>0, <1>1 DEF CommentsFit
  <2>10. QED BY <2>3, <2>5, <2>6, <2>8, <2>9 DEF CiInv
<1>6. CASE j # "relatorio"
  <2>1. j \in Ci!Verifying /\ "relatorio" \in Ci!Jobs /\ "automacao" \in Ci!Jobs
    BY <1>6, CiNames
  <2>2. job["relatorio"] = "waiting"
    BY <1>0, <1>1, <2>1, CiNames DEF ReportIsLast, Ci!Finished
  <2>3. job'["relatorio"] = "waiting" BY <1>4, <1>6, <2>1, <2>2
  <2>4. job'["automacao"] # "skipped" \/ job'["automacao"] = job["automacao"]
    <3>1. CASE j = "automacao"
      <4>1. Ci!Needs(j) = {} BY <3>1 DEF Ci!Needs
      <4>2. Ci!Wanted(j) BY <3>1, <4>1 DEF Ci!Wanted
      <4>3. QED BY <1>2, <1>4, <3>1, <4>2
    <3>2. CASE j # "automacao" BY <1>4, <2>1, <3>2
    <3>3. QED BY <3>1, <3>2
  <2>5. job["automacao"] = "failure" => job'["automacao"] = "failure" BY <1>1, <1>4, <2>1
  <2>6. QED BY <1>0, <1>1, <1>4, <2>2, <2>3, <2>4, <2>5, JobMoves DEF AutomationTold
<1>7. QED BY <1>5, <1>6

\* A job that runs is not over, so the report has not begun.
LEMMA RunningIsBefore ==
  ASSUME CiInv, NEW j \in Ci!Jobs, j # "relatorio", job[j] \notin Ci!Results
  PROVE  j \in Ci!Verifying /\ job["relatorio"] = "waiting"
BY CiNames DEF CiInv, ReportIsLast, Ci!Finished

\* A check ends with the outcome of its step: that of the suite is the suite's own.
LEMMA CheckKeepsInv == ASSUME CiInv, NEW j \in Ci!Jobs, Ci!Check(j) PROVE CiInv'
<1>0. CiOK /\ ReportIsLast /\ AutomationTold BY DEF CiInv
<1>1. PICK works \in BOOLEAN :
        /\ broken' = IF works THEN broken ELSE broken \cup {j}
        /\ job' = [job EXCEPT ![j] = Ci!Outcome(j, works)]
  BY DEF Ci!Check
<1>2. /\ j # "relatorio" /\ job[j] = "running"
      /\ UNCHANGED <<push, doc, listed, stage, talk>>
  BY DEF Ci!Check
<1> DEFINE r == Ci!Outcome(j, works)
<1>3. /\ r \in {"success", "failure"}
      /\ j = "automacao" => r = IF works THEN "success" ELSE "failure"
  BY DEF Ci!Outcome, Ci!WithPipefail, Ci!Piped
<1> HIDE DEF r
<1>4. job' = [job EXCEPT ![j] = r] BY <1>1 DEF r
<1>5. job["relatorio"] = "waiting" BY <1>2, CiNames, RunningIsBefore
<1>6. /\ job' \in [Ci!Jobs -> Ci!Results \cup {"waiting", "running"}]
      /\ job'[j] = r /\ \A i \in Ci!Jobs : i # j => job'[i] = job[i]
  BY <1>0, <1>3, <1>4, CiNames DEF CiOK
<1>7. job'["relatorio"] = "waiting" BY <1>2, <1>5, <1>6, CiNames
<1>8. CASE j = "automacao"
  <2>1. job'["automacao"] # "skipped" BY <1>3, <1>6, <1>8
  <2>3. push > 0 => job'["automacao"] # "skipped" BY <2>1
  <2>4. "automacao" \in broken' => job'["automacao"] = "failure"
    <3>1. "automacao" \notin broken BY <1>0, <1>2, <1>8 DEF AutomationTold
    <3>2. works => broken' = broken BY <1>1
    <3>3. ~works => job'["automacao"] = "failure" BY <1>3, <1>6, <1>8
    <3>4. QED BY <3>1, <3>2, <3>3
  <2>5. QED BY <1>2, <1>5, <1>6, <1>7, <2>3, <2>4, JobMoves
<1>9. CASE j # "automacao"
  <2>1. job'["automacao"] = job["automacao"] BY <1>6, <1>9, CiNames
  <2>2. "automacao" \in broken' => "automacao" \in broken BY <1>1, <1>9
  <2>3. QED BY <1>0, <1>2, <1>5, <1>6, <1>7, <2>1, <2>2, JobMoves DEF AutomationTold
<1>10. QED BY <1>8, <1>9
\* A job dies of its infrastructure.
LEMMA CollapseKeepsInv == ASSUME CiInv, NEW j \in Ci!Jobs, Ci!Collapse(j) PROVE CiInv'
<1>0. CiOK /\ AutomationTold BY DEF CiInv
<1>1. PICK r \in {"failure", "cancelled"} :
        /\ j # "relatorio" /\ job[j] = "running" /\ job' = [job EXCEPT ![j] = r]
        /\ UNCHANGED <<push, broken, doc, listed, stage, talk>>
  BY CiNames DEF Ci!Collapse
<1>2. job["relatorio"] = "waiting" BY <1>1, CiNames, RunningIsBefore
<1>3. /\ job' \in [Ci!Jobs -> Ci!Results \cup {"waiting", "running"}]
      /\ job'[j] = r /\ \A i \in Ci!Jobs : i # j => job'[i] = job[i]
  BY <1>0, <1>1, CiNames DEF CiOK
<1>4. job'["relatorio"] = "waiting" BY <1>1, <1>2, <1>3, CiNames
<1>5. /\ job'["automacao"] \in {"failure", "cancelled"} \/ job'["automacao"] = job["automacao"]
      /\ job["automacao"] = "failure" => job'["automacao"] = "failure"
  BY <1>1, <1>3, CiNames
<1>6. QED BY <1>0, <1>1, <1>2, <1>3, <1>4, <1>5, JobMoves DEF AutomationTold

\* What has not finished is cancelled, the report excepted.
LEMMA CancelKeepsInv == ASSUME CiInv, Ci!Cancel PROVE CiInv'
<1>0. CiOK /\ ReportIsLast /\ AutomationTold BY DEF CiInv
<1> DEFINE cut == {j \in Ci!Verifying : job[j] \notin Ci!Results}
<1>1. /\ ~Ci!Finished(Ci!Verifying)
      /\ job' = [j \in Ci!Jobs |-> IF j \in cut THEN "cancelled" ELSE job[j]]
      /\ UNCHANGED <<push, broken, doc, listed, stage, talk>>
  BY DEF Ci!Cancel
<1>2. "relatorio" \notin cut BY CiNames
<1>3. \A j \in cut : job[j] # "failure" BY CiNames
<1> HIDE DEF cut
<1>4. job["relatorio"] = "waiting" BY <1>0, <1>1 DEF ReportIsLast
<1>5. job' \in [Ci!Jobs -> Ci!Results \cup {"waiting", "running"}]
  BY <1>0, <1>1, CiNames DEF CiOK
<1>6. job'["relatorio"] = "waiting" BY <1>1, <1>2, <1>4, CiNames
<1>7. /\ job'["automacao"] # "skipped" \/ job'["automacao"] = job["automacao"]
      /\ job["automacao"] = "failure" => job'["automacao"] = "failure"
  BY <1>1, <1>3, CiNames
<1>8. QED BY <1>0, <1>1, <1>4, <1>5, <1>6, <1>7, JobMoves DEF AutomationTold

\* The document is made when every job is over, of what each of them was.
LEMMA ConsolidateKeepsInv == ASSUME CiInv, Ci!Consolidate PROVE CiInv'
<1>0. CiOK /\ ReportIsLast /\ AutomationTold /\ CommentsFit BY DEF CiInv
<1>1. /\ job["relatorio"] = "running" /\ stage = "needs" /\ stage' = "list"
      /\ UNCHANGED <<push, job, broken, listed, talk>>
      /\ doc' = Ci!Consolidar({frag[j] : j \in Ci!Verifying}
                              \cup {Ci!ResumoJobs(job, Ci!Verifying)})
  BY DEF Ci!Consolidate
<1>2. CiOK' BY <1>0, <1>1 DEF CiOK, Ci!Jobs, Ci!Verifying, Ci!Results
<1>3. ReportIsLast'
  BY <1>0, <1>1 DEF ReportIsLast, Ci!Finished, Ci!Verifying, Ci!Results, Ci!Nothing
<1>4. AutomationTold' BY <1>0, <1>1 DEF AutomationTold
<1>5. (\E j \in Ci!Verifying : job[j] \in Ci!Red) => doc' = "falha"
  <2> SUFFICES ASSUME \E j \in Ci!Verifying : job[j] \in Ci!Red PROVE doc' = "falha" OBVIOUS
  <2>1. Ci!ResumoJobs(job, Ci!Verifying) = "falha" BY DEF Ci!ResumoJobs
  <2>2. QED BY <1>1, <2>1, WorstShows
<1>6. Ci!RedJobMakesRedReport'
  BY <1>1, <1>5 DEF Ci!RedJobMakesRedReport, Ci!Verifying, Ci!Red, Ci!Nothing
<1>7. CommentsFit' BY <1>0, <1>1 DEF CommentsFit
<1>8. QED BY <1>2, <1>3, <1>4, <1>6, <1>7 DEF CiInv

\* A step of the report that writes no document and changes no job.
LEMMA ReportStays ==
  ASSUME CiInv, UNCHANGED <<push, job, broken, doc>>, talk' \in Seq(Nat),
         \/ stage' \in {"list", "write", "close"} /\ job["relatorio"] = "running" /\ push > 0
         \/ stage' = stage,
         CommentsFit'
  PROVE  CiInv'
<1>0. CiOK /\ ReportIsLast /\ AutomationTold /\ Ci!RedJobMakesRedReport BY DEF CiInv
<1>1. CiOK' BY <1>0 DEF CiOK, Ci!Jobs, Ci!Verifying, Ci!Results
<1>2. ReportIsLast' BY <1>0 DEF ReportIsLast, Ci!Finished, Ci!Verifying, Ci!Results, Ci!Nothing
<1>3. AutomationTold' BY <1>0 DEF AutomationTold
<1>4. Ci!RedJobMakesRedReport'
  BY <1>0 DEF Ci!RedJobMakesRedReport, Ci!Verifying, Ci!Red, Ci!Nothing
<1>5. QED BY <1>1, <1>2, <1>3, <1>4 DEF CiInv

\* The page is the beginning of the conversation.
LEMMA ListCommentsKeepsInv == ASSUME CiInv, Ci!ListComments PROVE CiInv'
<1>0. CiOK /\ ReportIsLast /\ CommentsFit BY DEF CiInv
<1> DEFINE page == SubSeq(talk, 1, IF Len(talk) < PerPage THEN Len(talk) ELSE PerPage)
           mine == {i \in DOMAIN page : page[i] > 0}
<1>1. /\ stage = "list" /\ stage' = "write" /\ UNCHANGED <<push, job, broken, doc, talk>>
      /\ listed' = IF mine = {} THEN 0 ELSE CHOOSE i \in mine : \A k \in mine : i <= k
  BY DEF Ci!ListComments
<1>2. push > 0 /\ job["relatorio"] = "running" BY <1>0, <1>1 DEF ReportIsLast
<1>3. CommentsFit'
  <2> SUFFICES IF listed' = 0
                 THEN \A i \in DOMAIN talk : i <= PerPage => talk[i] = 0
                 ELSE listed' \in DOMAIN talk /\ listed' <= PerPage /\ talk[listed'] > 0
    BY <1>0, <1>1 DEF CommentsFit
  <2>1. mine = {i \in DOMAIN talk : i <= PerPage /\ talk[i] > 0}
    <3> DEFINE n == IF Len(talk) < PerPage THEN Len(talk) ELSE PerPage
    <3>1. talk \in Seq(Nat) /\ Len(talk) \in Nat /\ PerPage \in Nat
      BY <1>0, RunSizes DEF CiOK
    <3>2. n \in 0..Len(talk) /\ DOMAIN talk = 1..Len(talk)
          /\ \A i \in DOMAIN talk : i <= PerPage <=> i \in 1..n
      BY <3>1
    <3> HIDE DEF n
    <3>3. DOMAIN SubSeq(talk, 1, n) = 1..n /\ \A i \in 1..n : SubSeq(talk, 1, n)[i] = talk[i]
      BY <3>1, <3>2
    <3>4. page = SubSeq(talk, 1, n) BY DEF n
    <3>5. \A i \in 1..n : i \in DOMAIN talk BY <3>1, <3>2
    <3>6. QED BY <3>2, <3>3, <3>4, <3>5
  <2>2. \A i \in DOMAIN talk : talk[i] \in Nat /\ i \in Nat \ {0} BY <1>0 DEF CiOK
  <2>4. \A i, k \in mine : i = k BY <1>0, <2>1 DEF CommentsFit
  <2> HIDE DEF page, mine
  <2>5. CASE mine = {} BY <1>1, <2>1, <2>2, <2>5
  <2>6. CASE mine # {}
    <3>1. \E i \in mine : \A k \in mine : i <= k BY <2>1, <2>2, <2>4, <2>6
    <3>2. listed' \in mine BY <1>1, <2>6, <3>1
    <3>3. QED BY <2>1, <2>2, <3>2
  <2>7. QED BY <2>5, <2>6
<1>4. talk' \in Seq(Nat) BY <1>0, <1>1 DEF CiOK
<1>5. QED BY <1>1, <1>2, <1>3, <1>4, ReportStays

\* The comment that was found is edited; where none was, there is none to be edited.
LEMMA WriteCommentKeepsInv == ASSUME CiInv, Ci!WriteComment PROVE CiInv'
<1>0. CiOK /\ ReportIsLast /\ CommentsFit BY DEF CiInv
<1>1. /\ stage = "write" /\ stage' = "close" /\ UNCHANGED <<push, job, broken, doc, listed>>
      /\ talk' = IF listed = 0 THEN Append(talk, push) ELSE [talk EXCEPT ![listed] = push]
  BY DEF Ci!WriteComment
<1>2. push > 0 /\ job["relatorio"] = "running" BY <1>0, <1>1 DEF ReportIsLast
<1>3. talk \in Seq(Nat) /\ push \in Nat /\ Len(talk) \in Nat /\ PerPage \in Nat
  BY <1>0, RunSizes DEF CiOK
<1>4. CASE listed = 0
  <2>1. talk' \in Seq(Nat) /\ Len(talk') = Len(talk) + 1 /\ talk'[Len(talk) + 1] = push
        /\ DOMAIN talk' = DOMAIN talk \cup {Len(talk) + 1}
        /\ \A i \in DOMAIN talk : talk'[i] = talk[i]
    BY <1>1, <1>3, <1>4
  <2>2. CommentsFit'
    <3> SUFFICES ASSUME NEW i \in DOMAIN talk', NEW k \in DOMAIN talk',
                        i <= PerPage, talk'[i] > 0, talk'[k] > 0
                 PROVE  i = k
      BY <1>1 DEF CommentsFit
    <3>1. \A m \in DOMAIN talk : m <= PerPage => talk[m] = 0
      BY <1>0, <1>1, <1>4 DEF CommentsFit
    <3>2. i = Len(talk) + 1 BY <1>3, <2>1, <3>1
    <3>3. \A m \in DOMAIN talk : m <= PerPage /\ talk'[m] = talk[m] BY <1>3, <2>1, <3>2
    <3>4. QED BY <2>1, <3>1, <3>2, <3>3
  <2>3. QED BY <1>1, <1>2, <2>1, <2>2, ReportStays
<1>5. CASE listed # 0
  <2>1. talk' = [talk EXCEPT ![listed] = push] BY <1>1, <1>5
  <2>2. talk' \in Seq(Nat) /\ Len(talk') = Len(talk) /\ DOMAIN talk' = DOMAIN talk
        /\ \A i \in DOMAIN talk : i # listed => talk'[i] = talk[i]
    <3>1. CASE listed \in DOMAIN talk BY <1>3, <2>1, <3>1
    <3>2. CASE listed \notin DOMAIN talk
      <4>1. talk' = talk BY <2>1, <3>2, <1>3
      <4>2. QED BY <1>3, <4>1
    <3>3. QED BY <3>1, <3>2
  <2>3. CommentsFit'
    <3> SUFFICES \A i, k \in DOMAIN talk :
                   i <= PerPage /\ talk'[i] > 0 /\ talk'[k] > 0 => i = k
      BY <1>1, <2>2 DEF CommentsFit
    <3>1. listed \in DOMAIN talk /\ talk[listed] > 0
      BY <1>0, <1>1, <1>5 DEF CommentsFit
    <3>2. \A i \in DOMAIN talk : talk'[i] > 0 => talk[i] > 0 BY <2>2, <3>1
    <3>3. QED BY <1>0, <3>2 DEF CommentsFit
  <2>4. QED BY <1>1, <1>2, <2>2, <2>3, ReportStays
<1>6. QED BY <1>4, <1>5

\* Somebody else comments.
LEMMA PersonKeepsInv == ASSUME CiInv, Ci!PersonComments PROVE CiInv'
<1>0. CiOK /\ CommentsFit BY DEF CiInv
<1>1. talk' = Append(talk, 0) /\ UNCHANGED <<push, job, broken, doc, listed, stage>>
  BY DEF Ci!PersonComments
<1>2. talk \in Seq(Nat) /\ Len(talk) \in Nat /\ PerPage \in Nat BY <1>0, RunSizes DEF CiOK
<1>3. talk' \in Seq(Nat) /\ Len(talk') = Len(talk) + 1 /\ talk'[Len(talk) + 1] = 0
      /\ DOMAIN talk' = DOMAIN talk \cup {Len(talk) + 1}
      /\ \A i \in DOMAIN talk : talk'[i] = talk[i]
  BY <1>1, <1>2
<1>4. CommentsFit'
  <2>1. \A i \in DOMAIN talk' : talk'[i] > 0 => i \in DOMAIN talk /\ talk[i] > 0 BY <1>3
  <2>2. QED BY <1>0, <1>1, <1>3, <2>1 DEF CommentsFit
<1>5. QED BY <1>1, <1>3, <1>4, ReportStays

\* The report closes, red when a job is red, or fails.
LEMMA CloseKeepsInv == ASSUME CiInv, Ci!Close \/ Ci!ReportFails PROVE CiInv'
<1>0. CiOK /\ ReportIsLast /\ AutomationTold /\ Ci!RedJobMakesRedReport /\ CommentsFit
  BY DEF CiInv
<1>1. PICK r \in {"success", "failure"} :
        /\ job' = [job EXCEPT !["relatorio"] = r] /\ stage' = "done"
        /\ job["relatorio"] = "running" /\ push > 0
        /\ r = "success" => \A j \in Ci!Verifying : job[j] \notin Ci!Red
        /\ UNCHANGED <<push, broken, doc, listed, talk>>
  <2>1. CASE Ci!Close BY <1>0, <2>1 DEF Ci!Close, ReportIsLast
  <2>2. CASE Ci!ReportFails BY <1>0, <2>2 DEF Ci!ReportFails, ReportIsLast
  <2>3. QED BY <2>1, <2>2
<1>2. /\ job' \in [Ci!Jobs -> Ci!Results \cup {"waiting", "running"}]
      /\ job'["relatorio"] = r /\ \A j \in Ci!Verifying : job'[j] = job[j]
  BY <1>0, <1>1, CiNames DEF CiOK
<1>3. CiOK' BY <1>0, <1>1, <1>2 DEF CiOK, Ci!Jobs, Ci!Verifying, Ci!Results
<1>4. Ci!Finished(Ci!Verifying) BY <1>0, <1>1 DEF ReportIsLast
<1>5. Ci!Finished(Ci!Verifying)' BY <1>2, <1>4 DEF Ci!Finished, Ci!Verifying, Ci!Results
<1>6. ReportIsLast' BY <1>0, <1>1, <1>2, <1>5 DEF ReportIsLast, Ci!Nothing
<1>7. AutomationTold'
  <2>1. r = "success" => job["automacao"] = "success"
    <3>1. job["automacao"] \in Ci!Results /\ job["automacao"] # "skipped"
      BY <1>0, <1>1, <1>4, CiNames DEF AutomationTold, Ci!Finished
    <3>2. QED BY <1>1, <3>1, CiNames
  <2>2. job'["automacao"] = job["automacao"] BY <1>2, CiNames
  <2>3. QED BY <1>0, <1>1, <1>2, <2>1, <2>2 DEF AutomationTold
<1>8. Ci!RedJobMakesRedReport'
  BY <1>0, <1>1, <1>2 DEF Ci!RedJobMakesRedReport, Ci!Verifying, Ci!Red, Ci!Nothing
<1>9. CommentsFit' BY <1>0, <1>1 DEF CommentsFit
<1>10. QED BY <1>3, <1>6, <1>7, <1>8, <1>9 DEF CiInv

\* Every step of ci.yml keeps its invariant.
LEMMA CiStep == CiInv /\ [Ci!Next]_(Ci!vars) => CiInv'
<1> SUFFICES ASSUME CiInv, [Ci!Next]_(Ci!vars) PROVE CiInv' OBVIOUS
<1>1. CASE UNCHANGED Ci!vars
  <2>1. talk' \in Seq(Nat) BY <1>1 DEF Ci!vars, CiInv, CiOK
  <2>2. CommentsFit' BY <1>1 DEF Ci!vars, CiInv, CommentsFit
  <2>3. QED BY <1>1, <2>1, <2>2, ReportStays DEF Ci!vars
<1>2. CASE Ci!Report
  BY <1>2, ConsolidateKeepsInv, ListCommentsKeepsInv, WriteCommentKeepsInv, CloseKeepsInv
  DEF Ci!Report
<1>3. QED
  BY <1>1, <1>2, PushKeepsInv, CancelKeepsInv, PersonKeepsInv, StartKeepsInv, CheckKeepsInv,
     CollapseKeepsInv
  DEF Ci!Next
-----------------------------------------------------------------------------
\* The names of the jobs of deploy.yml are apart.
LEMMA DeployNames ==
  /\ Deploy!Jobs = Deploy!Deploying \cup {"relatorio"} /\ "relatorio" \notin Deploy!Deploying
  /\ {"contexto", "verificacao", "empacotar", "pos-deploy", "plano", "pacote-serverless"}
       \subseteq Deploy!Deploying
  /\ \A t \in Deploy!Tracks : {Deploy!Plan[t], Deploy!Apply[t]} \subseteq Deploy!Deploying
  /\ "waiting" \notin Deploy!Results /\ "running" \notin Deploy!Results
  /\ Deploy!Results = {"success", "failure", "cancelled", "skipped"}
  /\ Deploy!Red = {"failure", "cancelled"}
  /\ Deploy!Tracks = {"terraform", "serverless"}
BY DEF Deploy!Jobs, Deploy!Deploying, Deploy!Results, Deploy!Red, Deploy!Tracks, Deploy!Plan,
       Deploy!Apply

\* A plan and an application belong to one track.
LEMMA TracksApart ==
  /\ \A t, u \in Deploy!Tracks :
       /\ Deploy!Plan[t] = Deploy!Plan[u] => t = u
       /\ Deploy!Apply[t] = Deploy!Apply[u] => t = u
       /\ Deploy!Plan[t] # Deploy!Apply[u]
  /\ \A t \in Deploy!Tracks :
       {Deploy!Plan[t], Deploy!Apply[t]}
         \cap {"contexto", "relatorio", "verificacao", "empacotar", "pos-deploy"} = {}
BY DEF Deploy!Tracks, Deploy!Plan, Deploy!Apply

\* A fragment that is red makes the document red.
LEMMA WorstDeploymentShows == ASSUME NEW S, "falha" \in S PROVE Deploy!Consolidar(S) = "falha"
BY DEF Deploy!Consolidar, Deploy!SITUACOES, Deploy!Nothing

\* Nothing has begun.
LEMMA DeployInit == Deploy!Init => DeployInv
<1> SUFFICES ASSUME Deploy!Init PROVE DeployInv OBVIOUS
<1>1. /\ input \in Deploy!Inputs /\ pronto = FALSE
      /\ deployJob = [j \in Deploy!Jobs |-> "waiting"]
      /\ env = [t \in Deploy!Tracks |-> "untouched"] /\ deployDoc = Deploy!Nothing
  BY DEF Deploy!Init
<1>2. \A j \in Deploy!Jobs : deployJob[j] = "waiting" /\ ~Begun(j) BY <1>1 DEF Begun
<1>3. DeployOK BY <1>1 DEF DeployOK
<1>4. \A t \in Deploy!Tracks : ~Begun(Deploy!Plan[t]) /\ ~Begun(Deploy!Apply[t])
  BY <1>2, DeployNames
<1>5. deployJob["verificacao"] = "waiting" /\ deployJob["relatorio"] = "waiting"
  BY <1>2, DeployNames
<1>6. PlannedAsChosen BY <1>4 DEF PlannedAsChosen
<1>7. AppliedAfterAll BY <1>1, <1>4, <1>5 DEF AppliedAfterAll
<1>8. ReportSeesAll BY <1>1, <1>5 DEF ReportSeesAll
<1>9. Deploy!RedJobMakesRedReport /\ Deploy!MissingPackageShows
  BY <1>1 DEF Deploy!RedJobMakesRedReport, Deploy!MissingPackageShows
<1>10. QED BY <1>3, <1>6, <1>7, <1>8, <1>9 DEF DeployInv

\* As long as a job is not over there is no document, and the report waits.
LEMMA NoDocumentYet ==
  ASSUME DeployInv, NEW j \in Deploy!Deploying, deployJob[j] \notin Deploy!Results
  PROVE  deployJob["relatorio"] = "waiting" /\ deployDoc = Deploy!Nothing
BY DEF DeployInv, ReportSeesAll, Deploy!Finished

\* A job that starts has what its condition asks for.
LEMMA DeployStartKeepsInv ==
  ASSUME DeployInv, NEW j \in Deploy!Jobs, Deploy!Start(j) PROVE DeployInv'
<1>0. DeployOK /\ PlannedAsChosen /\ AppliedAfterAll /\ ReportSeesAll BY DEF DeployInv
<1> DEFINE r == IF Deploy!Wanted(j) THEN "running" ELSE "skipped"
<1>1. /\ deployJob[j] = "waiting" /\ Deploy!Finished(Deploy!Needs(j))
      /\ deployJob' = [deployJob EXCEPT ![j] = r]
      /\ UNCHANGED <<input, pronto, zips, planned, env, deployDoc>>
  BY DEF Deploy!Start
<1>2. r \in {"running", "skipped"} /\ (r = "running" <=> Deploy!Wanted(j)) OBVIOUS
<1> HIDE DEF r
<1>3. /\ deployJob' \in [Deploy!Jobs -> Deploy!Results \cup {"waiting", "running"}]
      /\ deployJob'[j] = r /\ \A i \in Deploy!Jobs : i # j => deployJob'[i] = deployJob[i]
  BY <1>0, <1>1, <1>2, DeployNames DEF DeployOK
<1>4. DeployOK'
  BY <1>0, <1>1, <1>3 DEF DeployOK, Deploy!Jobs, Deploy!Deploying, Deploy!Results, Deploy!Inputs,
                          Deploy!Tracks, Deploy!Plan, Deploy!Apply
\* Who had begun goes on as before.
<1>5. \A i \in Deploy!Jobs : deployJob[i] # "waiting" => deployJob'[i] = deployJob[i]
  BY <1>1, <1>3
<1>6. \A i \in Deploy!Jobs :
        /\ deployJob'[i] \notin {"waiting", "skipped"} =>
             deployJob[i] \notin {"waiting", "skipped"} \/ (i = j /\ Deploy!Wanted(j))
        /\ deployJob'[i] \in {"success", "failure"} => deployJob'[i] = deployJob[i]
  BY <1>2, <1>3
<1>7. PlannedAsChosen'
  <2>1. ASSUME NEW t \in Deploy!Tracks,
               deployJob'[Deploy!Plan[t]] \notin {"waiting", "skipped"}
        PROVE  input.trilha = t
    <3>1. Deploy!Plan[t] \in Deploy!Jobs BY DeployNames
    <3>2. CASE deployJob[Deploy!Plan[t]] \notin {"waiting", "skipped"}
      BY <1>0, <3>2 DEF PlannedAsChosen, Begun
    <3>3. CASE Deploy!Plan[t] = j /\ Deploy!Wanted(j)
      <4>1. Deploy!MayPlan(t)
        BY <3>3, TracksApart DEF Deploy!Wanted
      <4>2. QED BY <4>1 DEF Deploy!MayPlan
    <3>4. QED BY <1>6, <2>1, <3>1, <3>2, <3>3
  <2>2. QED BY <1>1, <2>1 DEF PlannedAsChosen, Begun, Deploy!Plan, Deploy!Tracks
<1>8. AppliedAfterAll'
  <2>1. deployJob'["verificacao"] = "skipped" => input.pularVerificacao
    <3>1. CASE j = "verificacao"
      <4>1. ~input.pularVerificacao => Deploy!Wanted(j) BY <3>1 DEF Deploy!Wanted
      <4>2. QED BY <1>2, <1>3, <3>1, <4>1
    <3>2. CASE j # "verificacao" BY <1>0, <1>3, <3>2, DeployNames DEF AppliedAfterAll
    <3>3. QED BY <3>1, <3>2
  <2>2. ASSUME NEW t \in Deploy!Tracks
        PROVE  /\ deployJob'[Deploy!Apply[t]] \notin {"waiting", "skipped"} =>
                    /\ deployJob'[Deploy!Plan[t]] = "success" /\ ~input.somentePlano
                    /\ deployJob'["verificacao"] \in {"success", "skipped"}
               /\ env[t] # "untouched" =>
                    deployJob'[Deploy!Apply[t]] \notin {"waiting", "skipped"}
    <3>1. /\ Deploy!Apply[t] \in Deploy!Jobs /\ Deploy!Plan[t] \in Deploy!Jobs
          /\ "verificacao" \in Deploy!Jobs
      BY DeployNames
    <3>2. ASSUME /\ deployJob[Deploy!Plan[t]] = "success" /\ ~input.somentePlano
                 /\ deployJob["verificacao"] \in {"success", "skipped"}
          PROVE  /\ deployJob'[Deploy!Plan[t]] = "success" /\ ~input.somentePlano
                 /\ deployJob'["verificacao"] \in {"success", "skipped"}
      BY <1>5, <3>1, <3>2
    <3>3. Deploy!Apply[t] = j /\ Deploy!Wanted(j) => Deploy!MayApply(t)
      BY TracksApart DEF Deploy!Wanted
    <3>4. deployJob'[Deploy!Apply[t]] \notin {"waiting", "skipped"} =>
            /\ deployJob[Deploy!Plan[t]] = "success" /\ ~input.somentePlano
            /\ deployJob["verificacao"] \in {"success", "skipped"}
      BY <1>0, <1>6, <3>1, <3>3 DEF AppliedAfterAll, Begun, Deploy!MayApply, Deploy!Good
    <3>5. env[t] # "untouched" => deployJob'[Deploy!Apply[t]] \notin {"waiting", "skipped"}
      BY <1>0, <1>5, <3>1 DEF AppliedAfterAll, Begun
    <3>6. QED BY <3>2, <3>4, <3>5
  <2>3. QED
    BY <1>1, <2>1, <2>2 DEF AppliedAfterAll, Begun, Deploy!Plan, Deploy!Apply, Deploy!Tracks
<1>9. deployDoc = Deploy!Nothing
  <2>1. CASE j = "relatorio" BY <1>0, <1>1, <2>1 DEF ReportSeesAll
  <2>2. CASE j # "relatorio" BY <1>1, <2>2, DeployNames, NoDocumentYet
  <2>3. QED BY <2>1, <2>2
<1>10. ReportSeesAll'
  <2>1. CASE j = "relatorio"
    <3>1. Deploy!Finished(Deploy!Deploying) BY <1>1, <2>1 DEF Deploy!Needs
    <3>2. \A i \in Deploy!Deploying : deployJob'[i] = deployJob[i]
      BY <1>3, <2>1, DeployNames
    <3>3. Deploy!Finished(Deploy!Deploying)'
      BY <3>1, <3>2 DEF Deploy!Finished, Deploy!Deploying, Deploy!Results, Deploy!Plan,
                        Deploy!Apply, Deploy!Tracks
    <3>4. QED BY <1>1, <1>9, <3>3 DEF ReportSeesAll, Deploy!Nothing
  <2>2. CASE j # "relatorio"
    <3>1. deployJob["relatorio"] = "waiting" BY <1>1, <2>2, DeployNames, NoDocumentYet
    <3>2. deployJob'["relatorio"] = "waiting" BY <1>3, <2>2, <3>1, DeployNames
    <3>3. QED BY <1>1, <1>9, <3>2 DEF ReportSeesAll, Deploy!Nothing
  <2>3. QED BY <2>1, <2>2
<1>11. (Deploy!RedJobMakesRedReport /\ Deploy!MissingPackageShows)'
  BY <1>1, <1>9 DEF Deploy!RedJobMakesRedReport, Deploy!MissingPackageShows, Deploy!Nothing
<1>12. QED BY <1>4, <1>7, <1>8, <1>10, <1>11 DEF DeployInv

\* A job that ends was running, so the report still waits; only the track that runs
\* touches the environment.
LEMMA DeployEndKeepsInv ==
  ASSUME DeployInv, NEW j \in Deploy!Deploying, NEW r \in {"success", "failure", "cancelled"},
         Deploy!Ends(j, r), UNCHANGED <<input, deployDoc>>, pronto' \in BOOLEAN,
         env' \in [Deploy!Tracks -> {"untouched", "partial", "applied"}],
         \A t \in Deploy!Tracks : env'[t] # env[t] => j = Deploy!Apply[t]
  PROVE  DeployInv'
<1>0. DeployOK /\ PlannedAsChosen /\ AppliedAfterAll /\ ReportSeesAll BY DEF DeployInv
<1>1. deployJob[j] = "running" /\ deployJob' = [deployJob EXCEPT ![j] = r] BY DEF Deploy!Ends
<1>2. /\ deployJob' \in [Deploy!Jobs -> Deploy!Results \cup {"waiting", "running"}]
      /\ deployJob'[j] = r /\ \A i \in Deploy!Jobs : i # j => deployJob'[i] = deployJob[i]
  BY <1>0, <1>1, DeployNames DEF DeployOK
<1>3. deployJob["relatorio"] = "waiting" /\ deployDoc = Deploy!Nothing
  BY <1>1, DeployNames, NoDocumentYet
<1>4. DeployOK'
  BY <1>0, <1>2 DEF DeployOK, Deploy!Jobs, Deploy!Deploying, Deploy!Results, Deploy!Inputs,
                    Deploy!Tracks, Deploy!Plan, Deploy!Apply
<1>5. \A i \in Deploy!Jobs :
        /\ deployJob'[i] \notin {"waiting", "skipped"} <=>
             deployJob[i] \notin {"waiting", "skipped"}
        /\ deployJob[i] \in {"success", "skipped"} => deployJob'[i] = deployJob[i]
        /\ deployJob'[i] = "skipped" => deployJob[i] = "skipped"
  BY <1>1, <1>2
<1>6. PlannedAsChosen'
  <2>1. \A t \in Deploy!Tracks :
          deployJob'[Deploy!Plan[t]] \notin {"waiting", "skipped"} => input.trilha = t
    BY <1>0, <1>5, DeployNames DEF PlannedAsChosen, Begun
  <2>2. QED BY <2>1 DEF PlannedAsChosen, Begun, Deploy!Plan, Deploy!Tracks
<1>7. AppliedAfterAll'
  <2>1. deployJob'["verificacao"] = "skipped" => input.pularVerificacao
    BY <1>0, <1>5, DeployNames DEF AppliedAfterAll
  <2>2. ASSUME NEW t \in Deploy!Tracks
        PROVE  /\ deployJob'[Deploy!Apply[t]] \notin {"waiting", "skipped"} =>
                    /\ deployJob'[Deploy!Plan[t]] = "success" /\ ~input.somentePlano
                    /\ deployJob'["verificacao"] \in {"success", "skipped"}
               /\ env'[t] # "untouched" =>
                    deployJob'[Deploy!Apply[t]] \notin {"waiting", "skipped"}
    <3>1. /\ Deploy!Apply[t] \in Deploy!Jobs /\ Deploy!Plan[t] \in Deploy!Jobs
          /\ "verificacao" \in Deploy!Jobs
      BY DeployNames
    <3>2. deployJob'[Deploy!Apply[t]] \notin {"waiting", "skipped"} =>
            /\ deployJob'[Deploy!Plan[t]] = "success" /\ ~input.somentePlano
            /\ deployJob'["verificacao"] \in {"success", "skipped"}
      BY <1>0, <1>5, <3>1 DEF AppliedAfterAll, Begun
    <3>3. env'[t] # "untouched" => deployJob[Deploy!Apply[t]] \notin {"waiting", "skipped"}
      BY <1>0, <1>1 DEF AppliedAfterAll, Begun
    <3>4. QED BY <1>5, <3>1, <3>2, <3>3
  <2>3. QED
    BY <2>1, <2>2 DEF AppliedAfterAll, Begun, Deploy!Plan, Deploy!Apply, Deploy!Tracks
<1>8. ReportSeesAll'
  <2>1. deployJob'["relatorio"] = "waiting" BY <1>2, <1>3, DeployNames
  <2>2. QED BY <1>3, <2>1 DEF ReportSeesAll, Deploy!Nothing
<1>9. (Deploy!RedJobMakesRedReport /\ Deploy!MissingPackageShows)'
  BY <1>3 DEF Deploy!RedJobMakesRedReport, Deploy!MissingPackageShows, Deploy!Nothing
<1>10. QED BY <1>4, <1>6, <1>7, <1>8, <1>9 DEF DeployInv

\* The report ends: every other job is over, and what was red is in the document.
LEMMA RelatorioKeepsInv ==
  ASSUME DeployInv, Deploy!Relatorio \/ Deploy!Collapse("relatorio") PROVE DeployInv'
<1>0. /\ DeployOK /\ PlannedAsChosen /\ AppliedAfterAll /\ ReportSeesAll
      /\ Deploy!RedJobMakesRedReport /\ Deploy!MissingPackageShows
  BY DEF DeployInv
<1>1. PICK r \in {"success", "failure", "cancelled"} : Deploy!Ends("relatorio", r)
  BY DeployNames DEF Deploy!Relatorio, Deploy!Collapse
<1>2. UNCHANGED <<input, pronto, zips, planned, env>>
  BY DEF Deploy!Relatorio, Deploy!Collapse
<1>3. /\ deployJob["relatorio"] = "running"
      /\ deployJob' \in [Deploy!Jobs -> Deploy!Results \cup {"waiting", "running"}]
      /\ deployJob'["relatorio"] = r
      /\ \A i \in Deploy!Deploying : deployJob'[i] = deployJob[i]
  BY <1>0, <1>1, DeployNames DEF DeployOK, Deploy!Ends
<1>4. deployDoc' = deployDoc \/
        /\ (\E j \in Deploy!Deploying : deployJob[j] \in Deploy!Red) => deployDoc' = "falha"
        /\ deployJob["empacotar"] = "success" /\ zips # Services => deployDoc' = "falha"
  <2>1. CASE Deploy!Collapse("relatorio") BY <2>1 DEF Deploy!Collapse
  <2>2. CASE Deploy!Relatorio
    <3>1. PICK check \in Deploy!Situations \cup {Deploy!Nothing}, plan \in {"adds", "destroys"} :
            deployDoc' = Deploy!Consolidar(Deploy!Fragments(check, plan))
      BY <2>2 DEF Deploy!Relatorio
    <3>2. ASSUME \E j \in Deploy!Deploying : deployJob[j] \in Deploy!Red
          PROVE  "falha" \in Deploy!Fragments(check, plan)
      BY <3>2 DEF Deploy!Fragments, Deploy!ResumoJobs
    <3>3. ASSUME deployJob["empacotar"] = "success", zips # Services
          PROVE  "falha" \in Deploy!Fragments(check, plan)
      <4>1. Deploy!ResumoBuild("success", zips = Services) = "falha"
        BY <3>3 DEF Deploy!ResumoBuild
      <4>2. QED BY <3>3, <4>1 DEF Deploy!Fragments, Deploy!Good
    <3>4. QED BY <3>1, <3>2, <3>3, WorstDeploymentShows
  <2>3. QED BY <2>1, <2>2
<1>5. DeployOK'
  BY <1>0, <1>2, <1>3 DEF DeployOK, Deploy!Jobs, Deploy!Deploying, Deploy!Results, Deploy!Inputs,
                          Deploy!Tracks, Deploy!Plan, Deploy!Apply
<1>6. \A t \in Deploy!Tracks : /\ deployJob'[Deploy!Plan[t]] = deployJob[Deploy!Plan[t]]
                               /\ deployJob'[Deploy!Apply[t]] = deployJob[Deploy!Apply[t]]
  BY <1>3, DeployNames
<1>7. /\ deployJob'["verificacao"] = deployJob["verificacao"]
      /\ deployJob'["empacotar"] = deployJob["empacotar"]
  BY <1>3, DeployNames
<1>8. PlannedAsChosen'
  BY <1>0, <1>2, <1>6 DEF PlannedAsChosen, Begun, Deploy!Plan, Deploy!Tracks
<1>9. AppliedAfterAll'
  BY <1>0, <1>2, <1>6, <1>7 DEF AppliedAfterAll, Begun, Deploy!Plan, Deploy!Apply, Deploy!Tracks
<1>10. ReportSeesAll'
  <2>1. Deploy!Finished(Deploy!Deploying)' /\ deployJob'["relatorio"] # "waiting"
    BY <1>0, <1>3 DEF ReportSeesAll, Deploy!Finished, Deploy!Deploying, Deploy!Results,
                      Deploy!Plan, Deploy!Apply, Deploy!Tracks
  <2>2. QED BY <2>1 DEF ReportSeesAll
<1>11. Deploy!RedJobMakesRedReport'
  <2>1. (\E j \in Deploy!Deploying : deployJob'[j] \in Deploy!Red) <=>
          (\E j \in Deploy!Deploying : deployJob[j] \in Deploy!Red)
    BY <1>3
  <2>2. deployDoc' # Deploy!Nothing /\ (\E j \in Deploy!Deploying : deployJob'[j] \in Deploy!Red)
          => deployDoc' = "falha"
    BY <1>0, <1>4, <2>1 DEF Deploy!RedJobMakesRedReport
  <2>3. QED
    BY <2>2 DEF Deploy!RedJobMakesRedReport, Deploy!Deploying, Deploy!Red, Deploy!Nothing,
                Deploy!Plan, Deploy!Apply, Deploy!Tracks
<1>12. Deploy!MissingPackageShows'
  BY <1>0, <1>2, <1>4, <1>7 DEF Deploy!MissingPackageShows, Deploy!Good, Deploy!Nothing
<1>13. QED BY <1>5, <1>8, <1>9, <1>10, <1>11, <1>12 DEF DeployInv

\* Whatever a job leaves behind, only the track that applies touches the environment.
LEMMA WorkKeepsInv == ASSUME DeployInv, Deploy!Work PROVE DeployInv'
<1>0. DeployOK BY DEF DeployInv
<1>1. env \in [Deploy!Tracks -> {"untouched", "partial", "applied"}] /\ pronto \in BOOLEAN
  BY <1>0 DEF DeployOK
<1>2. /\ {"contexto", "verificacao", "empacotar", "pos-deploy", "plano", "pacote-serverless"}
           \subseteq Deploy!Deploying
      /\ \A t \in Deploy!Tracks : Deploy!Apply[t] \in Deploy!Deploying
  BY DeployNames
<1>3. \A works \in BOOLEAN :
        /\ Deploy!Piped(works) = "success"
        /\ Deploy!WithPipefail(works) \in {"success", "failure"}
  BY DEF Deploy!Piped, Deploy!WithPipefail
<1>4. ASSUME NEW j \in Deploy!Deploying, NEW r \in {"success", "failure", "cancelled"},
             Deploy!Ends(j, r), UNCHANGED <<input, env, deployDoc>>, pronto' \in BOOLEAN
      PROVE  DeployInv'
  BY <1>1, <1>4, DeployEndKeepsInv
<1>5. CASE Deploy!Contexto BY <1>2, <1>4, <1>5 DEF Deploy!Contexto
<1>6. CASE Deploy!Verificacao
  <2>1. PICK r \in {"success", "failure", "cancelled"} : Deploy!Ends("verificacao", r)
    BY <1>6, DeployNames DEF Deploy!Verificacao
  <2>2. QED BY <1>1, <1>2, <1>4, <1>6, <2>1 DEF Deploy!Verificacao
<1>7. CASE Deploy!Empacotar
  <2>1. Deploy!Ends("empacotar", "success") BY <1>7 DEF Deploy!Empacotar, Deploy!Piped
  <2>2. QED BY <1>1, <1>2, <1>4, <1>7, <2>1 DEF Deploy!Empacotar
<1>8. CASE Deploy!PlanoTerraform
  <2>1. PICK saved \in BOOLEAN : Deploy!Ends("plano", Deploy!WithPipefail(saved))
    BY <1>8 DEF Deploy!PlanoTerraform
  <2>2. UNCHANGED <<input, pronto, env, deployDoc>> BY <1>8 DEF Deploy!PlanoTerraform
  <2>3. QED BY <1>1, <1>2, <1>3, <1>4, <2>1, <2>2
<1>9. CASE Deploy!PacoteServerless
  <2>1. Deploy!Ends("pacote-serverless", "success")
    BY <1>9 DEF Deploy!PacoteServerless, Deploy!Piped
  <2>2. UNCHANGED <<input, pronto, env, deployDoc>> BY <1>9 DEF Deploy!PacoteServerless
  <2>3. QED BY <1>1, <1>2, <1>4, <2>1, <2>2
<1>10. CASE Deploy!PosDeploy
  <2>1. Deploy!Ends("pos-deploy", "success") BY <1>10 DEF Deploy!PosDeploy, Deploy!Piped
  <2>2. QED BY <1>1, <1>2, <1>4, <1>10, <2>1 DEF Deploy!PosDeploy
<1>11. ASSUME NEW t \in Deploy!Tracks, Deploy!Refused(t) PROVE DeployInv'
  BY <1>1, <1>2, <1>4, <1>11, TracksApart DEF Deploy!Refused
<1>12. ASSUME NEW t \in Deploy!Tracks, Deploy!Aplicar(t) PROVE DeployInv'
  <2>1. PICK e \in {"untouched", "partial", "applied"}, addressed \in BOOLEAN :
          /\ env' = [env EXCEPT ![t] = e]
          /\ Deploy!Ends(Deploy!Apply[t],
                         IF addressed THEN Deploy!Piped(e = "applied") ELSE "failure")
    BY <1>12 DEF Deploy!Aplicar
  <2>2. PICK r \in {"success", "failure"} : Deploy!Ends(Deploy!Apply[t], r)
    BY <2>1 DEF Deploy!Piped
  <2>3. UNCHANGED <<input, pronto, deployDoc>> BY <1>12 DEF Deploy!Aplicar
  <2>4. /\ env' \in [Deploy!Tracks -> {"untouched", "partial", "applied"}]
        /\ \A u \in Deploy!Tracks : env'[u] # env[u] => Deploy!Apply[t] = Deploy!Apply[u]
    BY <1>1, <2>1
  <2>5. QED BY <1>1, <1>2, <2>2, <2>3, <2>4, DeployEndKeepsInv
<1>13. ASSUME NEW j \in Deploy!Jobs, Deploy!Collapse(j) PROVE DeployInv'
  <2>1. CASE j = "relatorio" BY <1>13, <2>1, RelatorioKeepsInv
  <2>2. CASE j # "relatorio"
    <3>1. j \in Deploy!Deploying BY <2>2, DeployNames
    <3>2. PICK r \in {"failure", "cancelled"} : Deploy!Ends(j, r)
      BY <1>13, DeployNames DEF Deploy!Collapse
    <3>3. QED BY <1>1, <1>4, <1>13, <3>1, <3>2 DEF Deploy!Collapse
  <2>3. QED BY <2>1, <2>2
<1>14. CASE Deploy!Relatorio BY <1>14, RelatorioKeepsInv
<1>15. QED
  BY <1>5, <1>6, <1>7, <1>8, <1>9, <1>10, <1>11, <1>12, <1>13, <1>14 DEF Deploy!Work

\* Every step of deploy.yml keeps its invariant.
LEMMA DeployStep == DeployInv /\ [Deploy!Next]_(Deploy!vars) => DeployInv'
<1> SUFFICES ASSUME DeployInv, [Deploy!Next]_(Deploy!vars) PROVE DeployInv' OBVIOUS
<1>1. CASE UNCHANGED Deploy!vars
  BY <1>1 DEF Deploy!vars, DeployInv, DeployOK, PlannedAsChosen, AppliedAfterAll, Begun,
    ReportSeesAll, Deploy!RedJobMakesRedReport, Deploy!MissingPackageShows, Deploy!Finished,
    Deploy!Good, Deploy!Jobs, Deploy!Deploying, Deploy!Results, Deploy!Red, Deploy!Inputs,
    Deploy!Tracks, Deploy!Plan, Deploy!Apply, Deploy!Nothing
<1>2. QED BY <1>1, DeployStartKeepsInv, WorkKeepsInv DEF Deploy!Next
-----------------------------------------------------------------------------
\* What the script passed has not been edited since.
RoutesInv ==
  /\ Routes!TypeOK
  /\ verdict = "green" => Routes!Divergences(declared) = {}

\* Every edit leaves declarations, and takes the verdict back.
LEMMA EditsAreDeclarations ==
  ASSUME declared \in Routes!Tables,
         \/ \E r \in Universe : Routes!EditRouter(r) \/ Routes!EditHandler(r)
         \/ \E r \in Universe \cup {Routes!Health} : Routes!EditTerraform(r)
         \/ \E p \in Prefixes : Routes!EditPrefix(p)
         \/ \E e \in Routes!Events : Routes!EditServerless(e)
  PROVE  declared' \in Routes!Tables /\ verdict' = "none"
<1> DEFINE Gateway == {Routes!InGateway(r) : r \in Universe \cup {Routes!Health}}
           Serverless == Routes!Events
<1>1. Routes!Tables = [handled : SUBSET Universe, listed : SUBSET Universe, prefix : Prefixes,
                       tf : SUBSET Gateway, tfPrefix : Prefixes, sls : SUBSET Serverless]
  BY DEF Routes!Tables
<1>2. \A r \in Universe \cup {Routes!Health} : Routes!InGateway(r) \in Gateway OBVIOUS
<1>3. \A e \in Routes!Events : e \in Serverless OBVIOUS
<1> HIDE DEF Gateway, Serverless
<1>4. declared.handled \subseteq Universe /\ declared.listed \subseteq Universe
      /\ declared.tf \subseteq Gateway /\ declared.sls \subseteq Serverless
  BY <1>1
<1>5. ASSUME NEW r \in Universe, Routes!EditRouter(r)
      PROVE  declared' \in Routes!Tables /\ verdict' = "none"
  <2> DEFINE h == Routes!Toggle(r, declared.handled)
             l == Routes!Toggle(r, declared.listed)
  <2>1. h \subseteq Universe /\ l \subseteq Universe BY <1>4 DEF Routes!Toggle
  <2>2. declared' = [declared EXCEPT !.handled = h, !.listed = l] /\ verdict' = "none"
    BY <1>5 DEF Routes!EditRouter, Routes!Becomes
  <2> HIDE DEF h, l
  <2>3. QED BY <1>1, <2>1, <2>2
<1>6. ASSUME NEW r \in Universe, Routes!EditHandler(r)
      PROVE  declared' \in Routes!Tables /\ verdict' = "none"
  BY <1>1, <1>4, <1>6 DEF Routes!EditHandler, Routes!Becomes, Routes!Toggle
<1>7. ASSUME NEW r \in Universe \cup {Routes!Health}, Routes!EditTerraform(r)
      PROVE  declared' \in Routes!Tables /\ verdict' = "none"
  <2> DEFINE g == Routes!InGateway(r)
  <2>1. g \in Gateway BY <1>2
  <2>2. declared' = [declared EXCEPT !.tf = Routes!Toggle(g, @)] /\ verdict' = "none"
    BY <1>7 DEF Routes!EditTerraform, Routes!Becomes
  <2> HIDE DEF g
  <2>3. QED BY <1>1, <1>4, <2>1, <2>2 DEF Routes!Toggle
<1>8. ASSUME NEW p \in Prefixes, Routes!EditPrefix(p)
      PROVE  declared' \in Routes!Tables /\ verdict' = "none"
  BY <1>1, <1>8 DEF Routes!EditPrefix, Routes!Becomes
<1>9. ASSUME NEW e \in Routes!Events, Routes!EditServerless(e)
      PROVE  declared' \in Routes!Tables /\ verdict' = "none"
  BY <1>1, <1>3, <1>4, <1>9 DEF Routes!EditServerless, Routes!Becomes, Routes!Toggle
<1>10. QED BY <1>5, <1>6, <1>7, <1>8, <1>9

\* The declarations of today are declarations.
LEMMA RoutesInit == Routes!Init => RoutesInv
<1> SUFFICES ASSUME Routes!Init PROVE RoutesInv OBVIOUS
<1> DEFINE Gateway == {Routes!InGateway(r) : r \in Universe \cup {Routes!Health}}
           Today == {Routes!InGateway(r) : r \in Ours \cup {Routes!Health}}
           Serverless == Routes!Events
<1>1. declared = [handled |-> Ours, listed |-> Ours, prefix |-> Home, tf |-> Today,
                  tfPrefix |-> Home, sls |-> Routes!Greedy(Home)] /\ verdict = "none"
  BY DEF Routes!Init
<1>2. Today \subseteq Gateway BY RouteData
<1>3. Routes!Greedy(Home) \subseteq Serverless BY RouteData DEF Routes!Events
<1>4. Routes!Tables = [handled : SUBSET Universe, listed : SUBSET Universe, prefix : Prefixes,
                       tf : SUBSET Gateway, tfPrefix : Prefixes, sls : SUBSET Serverless]
  BY DEF Routes!Tables
<1> HIDE DEF Gateway, Today, Serverless
<1>5. declared \in Routes!Tables BY <1>1, <1>2, <1>3, <1>4, RouteData
<1>6. QED BY <1>1, <1>5 DEF RoutesInv, Routes!TypeOK

\* The script judges the declarations as they are; an edit takes its verdict back.
LEMMA RoutesStep == RoutesInv /\ [Routes!Next]_(Routes!vars) => RoutesInv'
<1> SUFFICES ASSUME RoutesInv, [Routes!Next]_(Routes!vars) PROVE RoutesInv' OBVIOUS
<1>0. declared \in Routes!Tables BY DEF RoutesInv, Routes!TypeOK
<1>1. ASSUME UNCHANGED declared,
             verdict' \in {"none", "green", "red"},
             verdict' = "green" => Routes!Divergences(declared) = {}
      PROVE  RoutesInv'
  <2>1. Routes!TypeOK' BY <1>0, <1>1 DEF Routes!TypeOK, Routes!Tables
  <2>2. (verdict = "green" => Routes!Divergences(declared) = {})' BY <1>1
  <2>3. QED BY <2>1, <2>2 DEF RoutesInv
<1>2. ASSUME declared' \in Routes!Tables, verdict' = "none" PROVE RoutesInv'
  <2>1. Routes!TypeOK' BY <1>2 DEF Routes!TypeOK, Routes!Tables
  <2>2. QED BY <1>2, <2>1 DEF RoutesInv
<1>3. CASE UNCHANGED Routes!vars
  BY <1>1, <1>3 DEF RoutesInv, Routes!TypeOK, Routes!vars
<1>4. CASE Routes!CheckRoutes BY <1>1, <1>4 DEF Routes!CheckRoutes
<1>5. CASE \/ \E r \in Universe : Routes!EditRouter(r) \/ Routes!EditHandler(r)
           \/ \E r \in Universe \cup {Routes!Health} : Routes!EditTerraform(r)
           \/ \E p \in Prefixes : Routes!EditPrefix(p)
           \/ \E e \in Routes!Events : Routes!EditServerless(e)
  <2>1. declared' \in Routes!Tables /\ verdict' = "none" BY <1>0, <1>5, EditsAreDeclarations
  <2>2. QED BY <1>2, <2>1
<1>6. QED BY <1>3, <1>4, <1>5 DEF Routes!Next

\* Without divergences the gateway has the routes of ROUTES and the health route.
LEMMA NoDivergenceMeans ==
  ASSUME Routes!Divergences(declared) = {} PROVE declared.tf = Routes!fromRouter(declared)
<1>1. Routes!RouteDivergences(declared) = {} BY DEF Routes!Divergences
<1>2. /\ Routes!fromRouter(declared) \ declared.tf = {}
      /\ declared.tf \ Routes!fromRouter(declared) = {}
  BY <1>1 DEF Routes!RouteDivergences
<1>3. QED BY <1>2

\* The two notations of a parameter are two words.
LEMMA ParameterWords ==
  \E a, b :
    /\ \A x : Routes!IsParam(x) <=> x = a \/ x = b
    /\ \A p : Routes!toApiGatewayPath(p) = [i \in DOMAIN p |-> IF p[i] = a THEN b ELSE p[i]]
<1>1. \A x : Routes!IsParam(x) <=> x = ":id" \/ x = "{id}" BY Zenon DEF Routes!IsParam
<1>2. \A p : Routes!toApiGatewayPath(p) =
              [i \in DOMAIN p |-> IF p[i] = ":id" THEN "{id}" ELSE p[i]]
  BY Zenon DEF Routes!toApiGatewayPath
<1>3. QED BY <1>1, <1>2, Zenon

\* A path of the gateway fits the addresses its route fits, with its parameters where
\* the route has its own.
LEMMA NotationsAgree ==
  ASSUME NEW T, NEW p \in Seq(T), NEW g, g = Routes!toApiGatewayPath(p)
  PROVE  /\ Len(g) = Len(p) /\ DOMAIN g = DOMAIN p
         /\ \A i \in DOMAIN p : Routes!IsParam(g[i]) <=> Routes!IsParam(p[i])
         /\ \A at : Routes!Matches(g, at) <=> Routes!Matches(p, at)
<1>1. PICK a, b : /\ \A x : Routes!IsParam(x) <=> x = a \/ x = b
                  /\ \A q : Routes!toApiGatewayPath(q) =
                             [i \in DOMAIN q |-> IF q[i] = a THEN b ELSE q[i]]
  BY ParameterWords, Zenon
<1>2. DOMAIN p = 1..Len(p) /\ Len(p) \in Nat OBVIOUS
<1>3. DOMAIN g = DOMAIN p /\ \A i \in DOMAIN p : g[i] = IF p[i] = a THEN b ELSE p[i]
  <2>1. g = [i \in DOMAIN p |-> IF p[i] = a THEN b ELSE p[i]] BY <1>1, Zenon
  <2>2. QED BY <2>1, Zenon
<1>4. Len(g) = Len(p)
  <2> DEFINE W == T \cup {b}
  <2>1. g = [i \in 1..Len(p) |-> IF p[i] = a THEN b ELSE p[i]]
    <3>1. g = [i \in DOMAIN p |-> IF p[i] = a THEN b ELSE p[i]] BY <1>1, Zenon
    <3>2. QED BY <1>2, <3>1
  <2>2. \A i \in 1..Len(p) : (IF p[i] = a THEN b ELSE p[i]) \in W OBVIOUS
  <2> HIDE DEF W
  <2>3. g \in [1..Len(p) -> W] BY <2>1, <2>2
  <2>4. QED BY <1>2, <2>3
<1>5. \A i \in DOMAIN p : /\ Routes!IsParam(g[i]) <=> Routes!IsParam(p[i])
                          /\ ~Routes!IsParam(p[i]) => g[i] = p[i]
  BY <1>1, <1>3, Zenon
<1>6. \A at : Routes!Matches(g, at) <=> Routes!Matches(p, at)
  BY <1>3, <1>4, <1>5, Zenon DEF Routes!Matches
<1>7. QED BY <1>3, <1>4, <1>5, <1>6

\* The words for no route and for no method are no routes.
LEMMA NoRouteIsAWord ==
  /\ Routes!NotFound # Routes!Denied
  /\ \A r \in Universe \cup {Routes!Health} : r.path # Routes!NotFound
  /\ \A r \in Universe \cup {Routes!Health} : \E T : r.path \in Seq(T)
<1>1. "404" # "403" /\ "health" # "404" OBVIOUS
<1>2. <<"404">> # <<"403">> /\ <<"health">> # <<"404">> BY <1>1
<1>3. \A r \in Universe : r.path \in Seq(STRING) /\ r.path # <<"404">> BY RouteData
<1>4. \E T : <<"health">> \in Seq(T)
  <2>1. \A w : <<w>> \in Seq({w}) OBVIOUS
  <2>2. <<"health">> \in Seq({"health"}) BY <2>1, Zenon
  <2>3. QED BY <2>2, Zenon
<1>5. Routes!Health.path = <<"health">> BY DEF Routes!Health, Routes!Route
<1>6. \A r \in Universe \cup {Routes!Health} : r.path # <<"404">> BY <1>2, <1>3, <1>5
<1>7. \A r \in Universe \cup {Routes!Health} : \E T : r.path \in Seq(T)
  BY <1>3, <1>4, <1>5
<1>8. QED BY <1>2, <1>6, <1>7 DEF Routes!NotFound, Routes!Denied

\* Of some paths an address fits one is chosen, and it is as literal as any of them.
LEMMA MostLiteralIsOne ==
  ASSUME NEW a \in Routes!Asked, NEW S,
         S \subseteq {r \in Universe \cup {Routes!Health} : Routes!Matches(r.path, a[2])},
         S # {}
  PROVE  LET m == Routes!MostLiteral({r.path : r \in S})
         IN  m \in {r.path : r \in S} /\ \A r \in S : Routes!AsLiteral(m, r.path)
<1> DEFINE P == {r.path : r \in S}
<1>1. PICK r \in S : \A s \in S : Routes!AsLiteral(r.path, s.path) BY RouteWords
<1>2. \E p \in P : \A q \in P : Routes!AsLiteral(p, q) BY <1>1
<1>3. LET m == Routes!MostLiteral(P) IN m \in P /\ \A q \in P : Routes!AsLiteral(m, q)
  BY <1>2 DEF Routes!MostLiteral
<1>4. QED BY <1>3

\* Declarations that pass and are as the script reads them: an address the
\* application serves passes the gateway, and one it does not serve stops there.
LEMMA GatewayServes ==
  ASSUME RoutesInv, verdict = "green", Routes!AsRead(declared),
         NEW p \in Prefixes, NEW a \in Routes!Asked
  PROVE  LET served == Routes!Served(declared, a[1], p, a[2])
             behind == Routes!ByTerraform(declared, a[1], p, a[2])
         IN  /\ served # Routes!NotFound => behind = served
             /\ behind # Routes!NotFound
<1> DEFINE H == declared.handled \cup {Routes!Health}
           U == Universe \cup {Routes!Health}
           Fit == {r \in U : Routes!Matches(r.path, a[2])}
           Mine == {r \in H : r.verb = a[1] /\ Routes!Matches(r.path, a[2])}
           Any == {r \in H : Routes!Matches(r.path, a[2])}
           At(r) == Routes!toApiGatewayPath(r.path)
           Edge == {x \in declared.tf : Routes!Matches(x.path, a[2])}
           m == Routes!MostLiteral({r.path : r \in Mine})
           e == Routes!MostLiteral({x.path : x \in Edge})
           served == Routes!Served(declared, a[1], p, a[2])
           behind == Routes!ByTerraform(declared, a[1], p, a[2])
\* What the gateway and the application have.
<1>1. /\ declared.tf = {Routes!InGateway(r) : r \in H} /\ H \subseteq U
      /\ declared.prefix = declared.tfPrefix
  <2>1. declared.handled \subseteq Universe BY DEF RoutesInv, Routes!TypeOK, Routes!Tables
  <2>2. declared.tf = Routes!fromRouter(declared) BY NoDivergenceMeans DEF RoutesInv
  <2>3. declared.handled = declared.listed /\ declared.prefix = declared.tfPrefix
    BY DEF Routes!AsRead
  <2>4. QED BY <2>1, <2>2, <2>3 DEF Routes!fromRouter
<1>2. \A r \in U : /\ Routes!InGateway(r).path = At(r) /\ Routes!InGateway(r).verb = r.verb
                   /\ Routes!InGateway(r) = Routes!Route(r.verb, At(r))
  BY DEF Routes!InGateway, Routes!Route
<1>3. \A r \in U : Routes!Matches(At(r), a[2]) <=> Routes!Matches(r.path, a[2])
  BY NoRouteIsAWord, NotationsAgree
<1>4. \A r, s \in Fit : Routes!AsLiteral(At(r), At(s)) <=> Routes!AsLiteral(r.path, s.path)
  <2> SUFFICES ASSUME NEW r \in Fit, NEW s \in Fit
               PROVE  Routes!AsLiteral(At(r), At(s)) <=> Routes!AsLiteral(r.path, s.path)
    OBVIOUS
  <2>1. PICK T, W : r.path \in Seq(T) /\ s.path \in Seq(W) BY NoRouteIsAWord
  <2>2. DOMAIN r.path = DOMAIN s.path BY <2>1 DEF Routes!Matches
  <2>3. /\ DOMAIN At(r) = DOMAIN r.path
        /\ \A i \in DOMAIN r.path : Routes!IsParam(At(r)[i]) <=> Routes!IsParam(r.path[i])
    BY <2>1, NotationsAgree
  <2>4. \A i \in DOMAIN r.path : Routes!IsParam(At(s)[i]) <=> Routes!IsParam(s.path[i])
    BY <2>1, <2>2, NotationsAgree
  <2> HIDE DEF At
  <2>5. QED BY <2>3, <2>4, Zenon DEF Routes!AsLiteral
<1> HIDE DEF At
<1>5. Any \subseteq Fit /\ Mine \subseteq Any BY <1>1
<1>6. {x.path : x \in Edge} = {At(r) : r \in Any} BY <1>1, <1>2, <1>3
\* What the application chooses, if it has anything.
<1>7. Mine # {} => \E r \in Mine : m = r.path
  BY <1>5, MostLiteralIsOne
\* What the gateway chooses is as literal as anything it has.
<1>8. Any # {} => \E r \in Any : e = At(r) /\ \A s \in Any : Routes!AsLiteral(r.path, s.path)
  <2> SUFFICES ASSUME Any # {}
               PROVE  \E r \in Any : e = At(r) /\ \A s \in Any : Routes!AsLiteral(r.path, s.path)
    OBVIOUS
  <2>1. PICK t \in Any : \A s \in Any : Routes!AsLiteral(t.path, s.path) BY <1>5, RouteWords
  <2>2. \E g \in {At(r) : r \in Any} : \A h \in {At(r) : r \in Any} : Routes!AsLiteral(g, h)
    BY <1>4, <1>5, <2>1
  <2>3. e \in {At(r) : r \in Any} /\ \A h \in {At(r) : r \in Any} : Routes!AsLiteral(e, h)
    BY <1>6, <2>2 DEF Routes!MostLiteral
  <2>4. QED BY <1>4, <1>5, <2>3
<1>9. served = IF p # declared.prefix \/ Mine = {} THEN Routes!NotFound ELSE m
  BY DEF Routes!Served
<1>10. behind = IF p # declared.tfPrefix \/ Any = {} \/ Routes!Route(a[1], e) \notin declared.tf
                THEN Routes!Denied ELSE served
  BY <1>6 DEF Routes!ByTerraform
<1> HIDE DEF Edge, m, e, served, behind
<1>11. ASSUME served # Routes!NotFound PROVE behind = served
  <2>1. p = declared.tfPrefix /\ Mine # {} BY <1>1, <1>9, <1>11
  <2>2. PICK r \in Mine : TRUE BY <2>1
  <2>3. PICK t \in Any : e = At(t) /\ \A s \in Any : Routes!AsLiteral(t.path, s.path)
    BY <1>5, <1>8, <2>2
  <2>4. r \in Any /\ Routes!AsLiteral(t.path, r.path) BY <1>5, <2>2, <2>3
  <2>5. CASE t.path = r.path
    <3>1. Routes!InGateway(r) = Routes!Route(a[1], e)
      BY <1>1, <1>2, <2>2, <2>3, <2>5 DEF At
    <3>2. QED BY <1>1, <1>10, <2>1, <2>4, <3>1
  <2>6. CASE t.path # r.path
    <3>1. t.verb = a[1] BY <1>5, <2>3, <2>4, <2>6, RouteWords
    <3>2. Routes!InGateway(t) = Routes!Route(a[1], e) BY <1>1, <1>2, <2>3, <3>1
    <3>3. QED BY <1>1, <1>10, <2>1, <2>4, <3>2
  <2>7. QED BY <2>5, <2>6
<1>12. behind # Routes!NotFound
  <2> SUFFICES ASSUME behind = Routes!NotFound PROVE FALSE OBVIOUS
  <2>1. /\ p = declared.prefix /\ Any # {} /\ Routes!Route(a[1], e) \in declared.tf
        /\ served = Routes!NotFound
    BY <1>1, <1>10, NoRouteIsAWord
  <2>2. PICK t \in Any : e = At(t) BY <1>8, <2>1
  <2>3. PICK r \in H : Routes!InGateway(r) = Routes!Route(a[1], e) BY <1>1, <2>1
  <2>4. r \in U /\ r.verb = a[1] /\ At(r) = At(t)
    BY <1>1, <1>2, <2>2, <2>3 DEF Routes!Route
  <2>5. Routes!Matches(r.path, a[2]) BY <1>3, <1>5, <2>2, <2>4
  <2>6. r \in Mine BY <2>3, <2>4, <2>5
  <2>7. PICK s \in Mine : m = s.path BY <1>7, <2>6
  <2>8. s \in U /\ served = s.path BY <1>1, <1>9, <2>1, <2>7
  <2>9. QED BY <2>1, <2>8, NoRouteIsAWord
<1>13. QED BY <1>11, <1>12 DEF served, behind
-----------------------------------------------------------------------------
\* Nothing is begun.
LEMMA DeliveryInit == Init => CiInv /\ DeployInv /\ RoutesInv
BY CiInit, DeployInit, RoutesInit DEF Init

\* A step is one of the workflow at work; the others stand still.
LEMMA OneWorkflowSteps ==
  [Next]_vars =>
    [Ci!Next]_(Ci!vars) /\ [Deploy!Next]_(Deploy!vars) /\ [Routes!Next]_(Routes!vars)
<1> SUFFICES ASSUME [Next]_vars
             PROVE  /\ [Ci!Next]_(Ci!vars) /\ [Deploy!Next]_(Deploy!vars)
                    /\ [Routes!Next]_(Routes!vars)
  OBVIOUS
<1>1. [Ci!Next]_ciVars /\ [Deploy!Next]_deployVars /\ [Routes!Next]_routeVars
  BY DEF Next, vars
<1>2. Ci!vars = ciVars /\ Ci!vars' = ciVars' BY DEF Ci!vars, ciVars
<1>3. Deploy!vars = deployVars /\ Deploy!vars' = deployVars' BY DEF Deploy!vars, deployVars
<1>4. Routes!vars = routeVars /\ Routes!vars' = routeVars' BY DEF Routes!vars, routeVars
<1>5. QED BY <1>1, <1>2, <1>3, <1>4

\* The workflows keep what they rest on, whatever jobs die, are cancelled or hang, and
\* whatever is edited.
THEOREM DeliveryInvariant == Spec => [](CiInv /\ DeployInv /\ RoutesInv)
<1>1. Init => CiInv /\ DeployInv /\ RoutesInv BY DeliveryInit
<1>2. (CiInv /\ DeployInv /\ RoutesInv) /\ [Next]_vars => (CiInv /\ DeployInv /\ RoutesInv)'
  BY OneWorkflowSteps, CiStep, DeployStep, RoutesStep
<1>3. QED BY <1>1, <1>2, PTL DEF Spec

\* Red never looks green, in either workflow: a job that failed or was cancelled, and
\* a package that is not there, make the document red, and the required job is green
\* only where the Playwright suite really passed.
THEOREM RedShows == Spec => []RedNeverLooksGreen
<1>1. CiInv /\ DeployInv => RedNeverLooksGreen
  <2> SUFFICES ASSUME CiInv, DeployInv PROVE RedNeverLooksGreen OBVIOUS
  <2>1. Ci!RedJobMakesRedReport /\ AutomationTold BY DEF CiInv
  <2>2. Ci!GreenMeansAutomationPassed BY <2>1 DEF AutomationTold, Ci!GreenMeansAutomationPassed
  <2>3. QED BY <2>1, <2>2 DEF RedNeverLooksGreen, DeployInv
<1>2. QED BY <1>1, DeliveryInvariant, PTL

\* A comment of the report among the ones its first page lists is the only one it has.
THEOREM OneVoice == Spec => []OneCommentPerPage
<1>1. CiInv => OneCommentPerPage
  <2> SUFFICES ASSUME CiInv, NEW i \in DOMAIN talk, i <= PerPage, talk[i] > 0
               PROVE  Ci!Cardinality({k \in DOMAIN talk : talk[k] > 0}) = 1
    BY DEF OneCommentPerPage, Ci!OneCommentPerPage
  <2>1. {k \in DOMAIN talk : talk[k] > 0} = {i} BY DEF CiInv, CommentsFit
  <2>2. Cardinality({i}) = 1 BY FS_Singleton
  <2>3. Ci!Cardinality({i}) = 1 BY <2>2 DEF Ci!Cardinality, Cardinality
  <2>4. QED BY <2>1, <2>3
<1>2. QED BY <1>1, DeliveryInvariant, PTL

\* An environment is touched only by the track that was asked for, not for a mere plan,
\* and after a verification that passed or was waived.
THEOREM AppliedAsAsked == Spec => []TouchedAsAsked
<1>1. DeployInv => TouchedAsAsked
  <2> SUFFICES ASSUME DeployInv PROVE TouchedAsAsked OBVIOUS
  <2>1. PlannedAsChosen /\ AppliedAfterAll BY DEF DeployInv
  <2>2. \A t \in Deploy!Tracks :
          Begun(Deploy!Apply[t]) =>
            /\ deployJob[Deploy!Plan[t]] = "success" /\ ~input.somentePlano
            /\ deployJob["verificacao"] \in {"success", "skipped"} /\ input.trilha = t
    BY <2>1 DEF PlannedAsChosen, AppliedAfterAll, Begun
  <2>3. Deploy!TouchedAsAsked BY <2>1, <2>2 DEF AppliedAfterAll, Deploy!TouchedAsAsked
  <2>4. Deploy!VerifiedOrWaived BY <2>1, <2>2 DEF AppliedAfterAll, Deploy!VerifiedOrWaived
  <2>5. QED BY <2>3, <2>4 DEF TouchedAsAsked
<1>2. QED BY <1>1, DeliveryInvariant, PTL

\* What the script passes, when ROUTES is what the router registers and the prefixes
\* are one, answers through the gateway as it does in development, for any routes that
\* keep to RouteWords: nothing the application serves is refused, and nothing it does
\* not serve reaches it.
THEOREM TablesAgree == Spec => []PassedTablesAgree
<1>1. RoutesInv => PassedTablesAgree
  <2> SUFFICES ASSUME RoutesInv, verdict = "green", Routes!AsRead(declared),
                      NEW p \in Prefixes, NEW a \in Routes!Asked
               PROVE  /\ Routes!Served(declared, a[1], p, a[2]) # Routes!NotFound =>
                           Routes!ByTerraform(declared, a[1], p, a[2])
                             = Routes!Served(declared, a[1], p, a[2])
                      /\ Routes!ByTerraform(declared, a[1], p, a[2]) # Routes!NotFound
    BY DEF PassedTablesAgree, Routes!PassedTablesAgree, Routes!DeployedRoutesAreServed,
           Routes!NoWastedInvocation, Routes!Passed
  <2>1. QED BY GatewayServes
<1>2. QED BY <1>1, DeliveryInvariant, PTL
=============================================================================
