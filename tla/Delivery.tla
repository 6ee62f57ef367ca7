------------------------------ MODULE Delivery ------------------------------
(***************************************************************************)
(* What stands between a change and an environment, one workflow at a time:*)
(* the run of ci.yml and its comment, the run of deploy.yml, and the       *)
(* declarations of routes with the script that compares them.              *)
(***************************************************************************)
EXTENDS Integers, Sequences, FiniteSets

CONSTANTS
  Checks, MaxPushes, MaxPeople, PerPage,   \* the run of ci.yml
  Services,                                \* the run of deploy.yml
  Prefixes, Universe, Ours, Home           \* the routes of one service

\* A page of comments has a size; the jobs that leave no more than a word are others
\* than those that leave more.
ASSUME RunSizes ==
  /\ MaxPushes \in Nat /\ MaxPeople \in Nat /\ PerPage \in Nat \ {0}
  /\ Checks \cap {"plano", "testes", "empacotar", "automacao", "ensaio", "relatorio"} = {}

\* The service declares routes somebody may declare, under one of the prefixes; no
\* route is the word for none.
ASSUME RouteData ==
  /\ Universe \subseteq [verb : STRING, path : Seq(STRING)]
  /\ Ours \subseteq Universe /\ Home \in Prefixes
  /\ \A r \in Universe : r.path # <<"404">>

VARIABLES
  flow,   \* the workflow at work
  push, labelled, job, broken, frag, doc, listed, stage, talk,
  input, pronto, deployJob, zips, planned, env, deployDoc,
  declared, verdict

ciVars == <<push, labelled, job, broken, frag, doc, listed, stage, talk>>
deployVars == <<input, pronto, deployJob, zips, planned, env, deployDoc>>
routeVars == <<declared, verdict>>
vars == <<flow, ciVars, deployVars, routeVars>>

\* A pull request, its runs and its comments.
Ci == INSTANCE CiRun WITH asked <- labelled

\* A dispatch of the deployment.
Deploy == INSTANCE DeployRun WITH job <- deployJob, doc <- deployDoc

\* The declarations of routes and the script that compares them.
Routes == INSTANCE RouteTables

\* Of routes an address fits, one is the most literal, and a word that stands where
\* others have a parameter is a route of the verb asked for only: this is so in the
\* three services, and the script does not look for it.
ASSUME RouteWords ==
  \A a \in Routes!Asked :
    LET fit == {r \in Universe \cup {Routes!Health} : Routes!Matches(r.path, a[2])}
    IN  /\ \A S \in SUBSET fit :
             S # {} => \E r \in S : \A s \in S : Routes!AsLiteral(r.path, s.path)
        /\ \A r, s \in fit :
             r.path # s.path /\ Routes!AsLiteral(r.path, s.path) => r.verb = a[1]

Flows == {"ci", "deploy", "routes"}

\* The workflows that are not at work have one state only.
Init ==
  /\ flow \in Flows
  /\ Ci!Init /\ (flow # "ci" => ~labelled)
  /\ Deploy!Init
  /\ (flow # "deploy" => input.trilha = "terraform" /\ ~input.somentePlano /\ ~input.pularVerificacao)
  /\ Routes!Init

Next ==
  \/ flow = "ci" /\ Ci!Next /\ UNCHANGED <<flow, deployVars, routeVars>>
  \/ flow = "deploy" /\ Deploy!Next /\ UNCHANGED <<flow, ciVars, routeVars>>
  \/ flow = "routes" /\ Routes!Next /\ UNCHANGED <<flow, ciVars, deployVars>>

\* Jobs are started and have a time limit; pushes and edits owe nothing.
Fairness ==
  /\ WF_ciVars(flow = "ci" /\ Ci!Report)
  /\ \A j \in Ci!Jobs :
       /\ WF_ciVars(flow = "ci" /\ Ci!Start(j))
       /\ WF_ciVars(flow = "ci" /\ (Ci!Check(j) \/ Ci!Collapse(j)))
  /\ WF_deployVars(flow = "deploy" /\ Deploy!Work)
  /\ \A j \in Deploy!Jobs : WF_deployVars(flow = "deploy" /\ Deploy!Start(j))

Spec == Init /\ [][Next]_vars /\ Fairness
-----------------------------------------------------------------------------
\* Red never looks green: a job that failed or was cancelled, and a package that is
\* not there, make the document red, and the one required job is green only where
\* the Playwright suite really passed.
RedNeverLooksGreen ==
  /\ Ci!RedJobMakesRedReport /\ Ci!GreenMeansAutomationPassed
  /\ Deploy!RedJobMakesRedReport /\ Deploy!MissingPackageShows

\* A comment of the report in the page that is searched stays the only one.
OneCommentPerPage == Ci!OneCommentPerPage

\* Whatever became of the jobs before, an environment is touched by the chosen track
\* only, after a verification that passed or was waived, and not at all for a mere plan.
TouchedAsAsked == Deploy!TouchedAsAsked /\ Deploy!VerifiedOrWaived

\* After any edits, tables that pass serve what the application serves, and no more.
PassedTablesAgree == Routes!PassedTablesAgree

\* Every run of either workflow gets its verdict from the report, whatever became
\* of the jobs before it.
Open ==
  CASE flow = "ci" -> push > 0 /\ stage = "needs"
    [] flow = "deploy" -> TRUE
    [] OTHER -> FALSE
Closed ==
  CASE flow = "ci" -> job["relatorio"] \in {"success", "failure"}
    [] flow = "deploy" -> deployJob["relatorio"] \in {"success", "failure", "cancelled"}
    [] OTHER -> TRUE
EveryRunReports == Open ~> Closed
=============================================================================
