------------------------------ MODULE DeployRun ------------------------------
(***************************************************************************)
(* A run of deploy.yml: the verification (ci.yml, called), the packages,   *)
(* the plan of the chosen track, the approval, the application, and the    *)
(* migrations and smoke test that close it.  Two tracks, Terraform and     *)
(* Serverless, share an environment only one of them may touch.            *)
(***************************************************************************)
EXTENDS PipelineReport

CONSTANTS Services   \* microservices with a build script

Tracks == {"terraform", "serverless"}
Plan == [terraform |-> "plano", serverless |-> "pacote-serverless"]
Apply == [terraform |-> "aplicar", serverless |-> "aplicar-serverless"]
Deploying == {"contexto", "verificacao", "empacotar", "pos-deploy"}
             \cup {Plan[t] : t \in Tracks} \cup {Apply[t] : t \in Tracks}
Jobs == Deploying \cup {"relatorio"}

VARIABLES
  input,    \* what the dispatch asked: trilha, somentePlano, pularVerificacao
  pronto,   \* contexto found the repository configured
  job,      \* each job: waiting, running, or its result
  zips,     \* packages uploaded by empacotar
  planned,  \* packages the saved plan or stack was made from, all of them if it is whole
  env,      \* what each track did to the environment: untouched, partial, applied
  doc       \* the document of the run

vars == <<input, pronto, job, zips, planned, env, doc>>

Inputs == [trilha : Tracks, somentePlano : BOOLEAN, pularVerificacao : BOOLEAN]
Finished(js) == \A j \in js : job[j] \in Results
Good(j) == job[j] = "success"

Init ==
  /\ input \in Inputs /\ pronto = FALSE
  /\ job = [j \in Jobs |-> "waiting"] /\ zips = {} /\ planned = {}
  /\ env = [t \in Tracks |-> "untouched"]
  /\ doc = Nothing

Needs(j) ==
  CASE j = "empacotar" -> {"contexto"}
    [] j \in {"plano", "pacote-serverless"} -> {"contexto", "empacotar"}
    [] j = "aplicar" -> {"contexto", "plano", "verificacao"}
    [] j = "aplicar-serverless" -> {"contexto", "pacote-serverless", "verificacao"}
    [] j = "pos-deploy" -> {"contexto", "aplicar", "aplicar-serverless"}
    [] j = "relatorio" -> Deploying
    [] OTHER -> {}

\* The plan of a track is made for the environment that chose it.
\* Mutant: both tracks plan, and so apply.
MayPlan_AnyTrack(t) == pronto /\ Good("contexto") /\ Good("empacotar")

MayPlan(t) == pronto /\ Good("contexto") /\ Good("empacotar") /\ input.trilha = t

\* The application runs under always(), so it says itself which needs must be good.
\* Mutant: it looks at the plan only.
MayApply_Unverified(t) == Good(Plan[t]) /\ ~input.somentePlano

MayApply(t) ==
  /\ Good(Plan[t]) /\ ~input.somentePlano
  /\ job["verificacao"] \in {"success", "skipped"}

Wanted(j) ==
  \/ j \in {"contexto", "relatorio"}
  \/ j = "verificacao" /\ ~input.pularVerificacao
  \/ j = "empacotar" /\ Good("contexto") /\ pronto
  \/ j = "pos-deploy" /\ \E t \in Tracks : Good(Apply[t])
  \/ \E t \in Tracks : (j = Plan[t] /\ MayPlan(t)) \/ (j = Apply[t] /\ MayApply(t))

Start(j) ==
  /\ job[j] = "waiting" /\ Finished(Needs(j))
  /\ job' = [job EXCEPT ![j] = IF Wanted(j) THEN "running" ELSE "skipped"]
  /\ UNCHANGED <<input, pronto, zips, planned, env, doc>>

\* j ends with result r.
Ends(j, r) == job[j] = "running" /\ job' = [job EXCEPT ![j] = r]

\* contexto: names what the repository lacks, and is green either way.
Contexto ==
  /\ Ends("contexto", "success") /\ pronto' \in BOOLEAN
  /\ UNCHANGED <<input, zips, planned, env, doc>>

\* ci.yml: its result says what its jobs report, see CiRun.
Verificacao ==
  /\ \E r \in Results \ {"skipped"} : Ends("verificacao", r)
  /\ UNCHANGED <<input, pronto, zips, planned, env, doc>>

\* empacotar: a build that breaks leaves no zip, its step is green behind tee, and
\* uploading a file that is not there is only a warning.
Empacotar ==
  /\ Ends("empacotar", Piped(FALSE)) /\ zips' \in SUBSET Services
  /\ UNCHANGED <<input, pronto, planned, env, doc>>

\* plano: `terraform plan` pipes into tee, `terraform show` of the saved plan does not
\* and fails when nothing was saved. A plan that breaks on its way - over a zip that is
\* not there - may still be saved, incomplete and marked as errored; it is then shown
\* and uploaded by a green step.
PlanoTerraform ==
  /\ \E works, saved \in BOOLEAN :
       /\ works => zips = Services /\ saved
       /\ Ends("plano", WithPipefail(saved))
       /\ planned' \in IF works THEN {zips} ELSE IF saved THEN SUBSET zips \ {Services} ELSE {{}}
  /\ UNCHANGED <<input, pronto, zips, env, doc>>

\* pacote-serverless: `serverless package` pipes into tee, so a package that failed
\* is green.
PacoteServerless ==
  /\ \E works \in BOOLEAN :
       /\ works => zips = Services
       /\ Ends("pacote-serverless", Piped(works))
       /\ planned' = IF works THEN zips ELSE {}
  /\ UNCHANGED <<input, pronto, zips, env, doc>>

\* The environment's reviewer refuses, or never answers.
Refused(t) ==
  /\ Ends(Apply[t], "failure")
  /\ UNCHANGED <<input, pronto, zips, planned, env, doc>>

\* aplicar, aplicar-serverless: approved, the track applies; it may break midway,
\* and its step is green behind tee.  The step that reads the address of the API
\* has no pipe and fails when nothing was ever deployed.  Terraform applies the
\* saved plan, but refuses one that is marked as errored; Serverless needs every zip,
\* and CloudFormation rolls back.
Aplicar(t) ==
  /\ \E e \in {"untouched", "partial", "applied"}, addressed \in BOOLEAN :
       /\ e # "untouched" => zips = Services /\ (t = "terraform" => planned = Services)
       /\ e = "partial" => t = "terraform"
       /\ e = "applied" => addressed
       /\ env' = [env EXCEPT ![t] = e]
       /\ Ends(Apply[t], IF addressed THEN Piped(e = "applied") ELSE "failure")
  /\ UNCHANGED <<input, pronto, zips, planned, doc>>

\* pos-deploy: the migrations, then the smoke test; whether they work or not, both
\* are green behind tee, and migrations without an address are skipped.
PosDeploy ==
  /\ \E works \in BOOLEAN : Ends("pos-deploy", Piped(works))
  /\ UNCHANGED <<input, pronto, zips, planned, env, doc>>

\* A job dies of its infrastructure, or of its time limit.
Collapse(j) ==
  /\ \E r \in Red : Ends(j, r)
  /\ UNCHANGED <<input, pronto, zips, planned, env, doc>>

\* What the report finds: its own account of the jobs and the fragments of green
\* jobs.  Those behind tee say ok or pulado whatever happened; what a red job left
\* cannot change what ResumoJobs says of it.
Fragments(check, plan) ==
  {ResumoJobs(job, Deploying), IF pronto THEN "ok" ELSE "alerta"}
  \cup {s \in {check} : Good("verificacao")}
  \cup {s \in {ResumoBuild("success", zips = Services)} : Good("empacotar")}
  \cup {s \in {ResumoTerraform("success", plan)} : Good("plano")}

\* relatorio: the document and the verdict.  Unlike that of ci.yml, the verdict
\* looks for failures only.
Relatorio ==
  /\ Ends("relatorio", IF \E j \in Deploying : job[j] = "failure" THEN "failure" ELSE "success")
  /\ \E check \in Situations \cup {Nothing}, plan \in {"adds", "destroys"} :
       doc' = Consolidar(Fragments(check, plan))
  /\ UNCHANGED <<input, pronto, zips, planned, env>>

Work ==
  \/ Contexto \/ Verificacao \/ Empacotar \/ PlanoTerraform \/ PacoteServerless
  \/ PosDeploy \/ Relatorio \/ \E t \in Tracks : Refused(t) \/ Aplicar(t)
  \/ \E j \in Jobs : Collapse(j)

Next == Work \/ \E j \in Jobs : Start(j)

Spec == Init /\ [][Next]_vars
-----------------------------------------------------------------------------
\* Types, and packages: a plan is made of packages that were built.
TypeOK ==
  /\ input \in Inputs /\ pronto \in BOOLEAN
  /\ job \in [Jobs -> Results \cup {"waiting", "running"}]
  /\ zips \subseteq Services /\ planned \subseteq zips
  /\ env \in [Tracks -> {"untouched", "partial", "applied"}]
  /\ doc \in Situations \cup {Nothing}

\* Only the chosen track touches the environment, and nobody does when only the
\* plan was asked for: the condition of the application never names the track.
TouchedAsAsked ==
  \A t \in Tracks : env[t] # "untouched" => t = input.trilha /\ ~input.somentePlano

\* Under always() a verification that failed or was cancelled still holds the
\* application back; only the dispatch waives it.
VerifiedOrWaived ==
  (\E t \in Tracks : env[t] # "untouched") =>
    job["verificacao"] = "success" \/ input.pularVerificacao

\* A job that failed or was cancelled makes the document red.
RedJobMakesRedReport ==
  doc # Nothing /\ (\E j \in Deploying : job[j] \in Red) => doc = "falha"

\* A package that was not built makes the document red, although the job that should
\* have built it is green: resumo-build.mjs looks at the zip.
MissingPackageShows ==
  doc # Nothing /\ Good("empacotar") /\ zips # Services => doc = "falha"
=============================================================================
