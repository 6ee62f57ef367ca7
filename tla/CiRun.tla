-------------------------------- MODULE CiRun --------------------------------
(***************************************************************************)
(* A run of ci.yml per push to a pull request: the jobs that verify the    *)
(* repository, the job that closes the run with a report, and the comment  *)
(* the report leaves in the conversation.  A job's check really works or   *)
(* breaks, whatever its step reports; a job can also die of its            *)
(* infrastructure, and a newer push or a person can cancel the run.        *)
(***************************************************************************)
EXTENDS PipelineReport, Sequences

CONSTANTS
  Checks,      \* the other jobs, whose fragment only says whether the step passed
  MaxPushes,   \* bound: runs of one pull request
  MaxPeople,   \* bound: comments of people
  PerPage      \* comments in the first page of the API

\* plano finds the matrices; testes and empacotar wait for it; ensaio runs when
\* the pull request is labelled for it.
Verifying == Checks \cup {"plano", "testes", "empacotar", "automacao", "ensaio"}
Jobs == Verifying \cup {"relatorio"}

VARIABLES
  push,     \* the push whose run this is; 0 before the first
  asked,    \* the pull request carries the label ensaio-de-deploy
  job,      \* each job: waiting, running, or its result
  broken,   \* jobs whose check really failed in this run
  frag,     \* each job's fragment, once uploaded
  doc,      \* the document of this run
  listed,   \* the place of the report's comment found by the running report
  stage,    \* where the report job is
  talk      \* the conversation: 0 for a person, n for the report of push n

vars == <<push, asked, job, broken, frag, doc, listed, stage, talk>>

Over == job["relatorio"] \in Results
Finished(js) == \A j \in js : job[j] \in Results

Init ==
  /\ push = 0 /\ asked \in BOOLEAN
  /\ job = [j \in Jobs |-> "skipped"] /\ frag = [j \in Jobs |-> Nothing]
  /\ broken = {} /\ doc = Nothing /\ listed = 0 /\ stage = "done" /\ talk = <<>>

\* A push starts a run; the concurrency group holds it until the last one closed.
Push ==
  /\ Over /\ push < MaxPushes
  /\ push' = push + 1
  /\ job' = [j \in Jobs |-> "waiting"] /\ frag' = [j \in Jobs |-> Nothing]
  /\ broken' = {} /\ doc' = Nothing /\ listed' = 0 /\ stage' = "needs"
  /\ UNCHANGED <<asked, talk>>

Needs(j) ==
  CASE j = "relatorio" -> Verifying
    [] j \in {"testes", "empacotar"} -> {"plano"}
    [] OTHER -> {}

\* Without a status function in its condition a job needs every need to succeed;
\* the report's condition is always().
Wanted(j) ==
  CASE j = "relatorio" -> TRUE
    [] j = "ensaio" -> asked
    [] OTHER -> \A n \in Needs(j) : job[n] = "success"

\* Mutant: the report job loses its always().
Start_ReportNeedsSuccess(j) ==
  /\ job[j] = "waiting" /\ Finished(Needs(j))
  /\ job' = [job EXCEPT ![j] =
                IF Wanted(j) /\ \A n \in Needs(j) : job[n] \in {"success", "skipped"}
                THEN "running" ELSE "skipped"]
  /\ UNCHANGED <<push, asked, broken, frag, doc, listed, stage, talk>>

Start(j) ==
  /\ job[j] = "waiting" /\ Finished(Needs(j))
  /\ job' = [job EXCEPT ![j] = IF Wanted(j) THEN "running" ELSE "skipped"]
  /\ UNCHANGED <<push, asked, broken, frag, doc, listed, stage, talk>>

\* The outcome of a job's check.  plano has no pipe.
\* Mutant: the Playwright step without `set -o pipefail`.
Outcome_NoPipefail(j, works) ==
  IF j = "plano" THEN WithPipefail(works) ELSE Piped(works)

Outcome(j, works) ==
  IF j \in {"plano", "automacao"} THEN WithPipefail(works) ELSE Piped(works)

\* The fragment of a check that never ran: no results and no zip.
NeverRan(j, outcome) ==
  CASE j = "testes" -> ResumoTestes(outcome, Nothing, FALSE)
    [] j = "empacotar" -> ResumoBuild(outcome, FALSE)
    [] j = "automacao" -> ResumoAutomacao(outcome, Nothing)
    [] j = "plano" -> Nothing
    [] OTHER -> Fragmento(outcome)

\* The fragments a check that works, or one that breaks, may leave.  A suite that
\* breaks leaves its failures, no results at all, or only its coverage low.
FragmentsOf(j, works, outcome) ==
  CASE ~works /\ j = "testes" ->
         {ResumoTestes(outcome, "failed", FALSE), ResumoTestes(outcome, "passed", TRUE),
          NeverRan(j, outcome)}
    [] ~works /\ j = "automacao" -> {ResumoAutomacao(outcome, "failed"), NeverRan(j, outcome)}
    [] ~works /\ j \notin {"testes", "automacao"} -> {NeverRan(j, outcome)}
    [] works /\ j = "automacao" -> {ResumoAutomacao(outcome, r) : r \in {"passed", "flaky"}}
    [] OTHER -> {"ok"}

\* The check runs to its end and the job's last step looks at its outcome.
Check(j) ==
  /\ j # "relatorio" /\ job[j] = "running"
  /\ \E works \in BOOLEAN :
       LET outcome == Outcome(j, works)
       IN  /\ broken' = IF works THEN broken ELSE broken \cup {j}
           /\ job' = [job EXCEPT ![j] = outcome]
           /\ \E f \in FragmentsOf(j, works, outcome) : frag' = [frag EXCEPT ![j] = f]
  /\ UNCHANGED <<push, asked, doc, listed, stage, talk>>

\* The job dies of its infrastructure, or of its time limit, which counts as cancelled:
\* before the check, which is then skipped, or after it, and the fragment may or may
\* not have been uploaded.
Collapse(j) ==
  /\ j # "relatorio" /\ job[j] = "running"
  /\ \E r \in Red : job' = [job EXCEPT ![j] = r]
  /\ \E f \in FragmentsOf(j, TRUE, "success") \cup {NeverRan(j, "skipped"), Nothing} :
       frag' = [frag EXCEPT ![j] = f]
  /\ UNCHANGED <<push, asked, broken, doc, listed, stage, talk>>

\* A newer push of the group, or a person, cancels what has not finished; the
\* steps marked always() may still leave a fragment.
Cancel ==
  /\ ~Finished(Verifying)
  /\ LET cut == {j \in Verifying : job[j] \notin Results}
     IN  /\ job' = [j \in Jobs |-> IF j \in cut THEN "cancelled" ELSE job[j]]
         /\ \E kept \in BOOLEAN :
              frag' = [j \in Jobs |-> IF kept /\ j \in cut /\ job[j] = "running"
                                      THEN NeverRan(j, "cancelled") ELSE frag[j]]
  /\ UNCHANGED <<push, asked, broken, doc, listed, stage, talk>>

\* The report job: the fragments and the results of the jobs become a document.
Consolidate ==
  /\ job["relatorio"] = "running" /\ stage = "needs"
  /\ doc' = Consolidar({frag[j] : j \in Verifying} \cup {ResumoJobs(job, Verifying)})
  /\ stage' = "list"
  /\ UNCHANGED <<push, asked, job, broken, frag, listed, talk>>

\* comentar-pr.mjs: the first page of the conversation is searched for the marker.
ListComments ==
  /\ stage = "list"
  /\ LET page == SubSeq(talk, 1, IF Len(talk) < PerPage THEN Len(talk) ELSE PerPage)
         mine == {i \in DOMAIN page : page[i] > 0}
     IN  listed' = IF mine = {} THEN 0 ELSE CHOOSE i \in mine : \A k \in mine : i <= k
  /\ stage' = "write"
  /\ UNCHANGED <<push, asked, job, broken, frag, doc, talk>>

\* Mutant: the report never edits a comment.
WriteComment_AlwaysPosts ==
  /\ stage = "write" /\ stage' = "close"
  /\ talk' = Append(talk, push)
  /\ UNCHANGED <<push, asked, job, broken, frag, doc, listed>>

WriteComment ==
  /\ stage = "write" /\ stage' = "close"
  /\ talk' = IF listed = 0 THEN Append(talk, push) ELSE [talk EXCEPT ![listed] = push]
  /\ UNCHANGED <<push, asked, job, broken, frag, doc, listed>>

\* Last step: the report closes red when a job it needs is red.
Close ==
  /\ stage = "close" /\ stage' = "done"
  /\ job' = [job EXCEPT !["relatorio"] =
                IF \E j \in Verifying : job[j] \in Red THEN "failure" ELSE "success"]
  /\ UNCHANGED <<push, asked, broken, frag, doc, listed, talk>>

\* A step of the report job fails: the API refuses, or the runner dies.
ReportFails ==
  /\ job["relatorio"] = "running" /\ stage \in {"needs", "list", "write", "close"}
  /\ job' = [job EXCEPT !["relatorio"] = "failure"] /\ stage' = "done"
  /\ UNCHANGED <<push, asked, broken, frag, doc, listed, talk>>

PersonComments ==
  /\ Cardinality({i \in DOMAIN talk : talk[i] = 0}) < MaxPeople
  /\ talk' = Append(talk, 0)
  /\ UNCHANGED <<push, asked, job, broken, frag, doc, listed, stage>>

Report == Consolidate \/ ListComments \/ WriteComment \/ Close \/ ReportFails

Next ==
  \/ Push \/ Cancel \/ Report \/ PersonComments
  \/ \E j \in Jobs : Start(j) \/ Check(j) \/ Collapse(j)

Spec == Init /\ [][Next]_vars
-----------------------------------------------------------------------------
\* Types: results, situations and a conversation of the bounds' size.
TypeOK ==
  /\ push \in 0..MaxPushes /\ asked \in BOOLEAN
  /\ job \in [Jobs -> Results \cup {"waiting", "running"}]
  /\ frag \in [Jobs -> Situations \cup {Nothing}]
  /\ broken \subseteq Verifying /\ doc \in {"ok", "alerta", "falha", Nothing}
  /\ stage \in {"needs", "list", "write", "close", "done"}
  /\ talk \in Seq(0..push) /\ listed \in 0..Len(talk)

\* A run with a red job has a red document: a job that died or was cancelled
\* shows even when every fragment that reached the report says ok.
RedJobMakesRedReport ==
  doc # Nothing /\ (\E j \in Verifying : job[j] \in Red) => doc = "falha"

\* The one job branch protection requires is green only in a run that was not cut
\* short and whose Playwright suite really passed.
GreenMeansAutomationPassed ==
  (push > 0 /\ job["relatorio"] = "success") =>
    job["automacao"] = "success" /\ "automacao" \notin broken

\* The report speaks twice in a conversation only when its first comment came after a
\* full page: one in the page that is searched stays the only one, however long the
\* conversation grows and however many pushes follow.
OneCommentPerPage ==
  (\E i \in DOMAIN talk : i <= PerPage /\ talk[i] > 0) =>
    Cardinality({i \in DOMAIN talk : talk[i] > 0}) = 1
=============================================================================
