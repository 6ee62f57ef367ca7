---------------------------- MODULE PipelineReport ----------------------------
(***************************************************************************)
(* The reports of the pipeline, .github/scripts: what each script makes of *)
(* the outcome of a step and of the evidence the step left behind, how the *)
(* fragments become one document, and the outcome GitHub Actions gives to  *)
(* a step whose command is piped into tee.  CiRun and DeployRun use it.    *)
(***************************************************************************)
EXTENDS Naturals, FiniteSets

Results == {"success", "failure", "cancelled", "skipped"}
Red == {"failure", "cancelled"}

\* The situations of a stage and their weight.
SITUACOES == [ok |-> 0, alerta |-> 1, pulado |-> 0, falha |-> 2]
Situations == DOMAIN SITUACOES

\* A stage that left no fragment, or no document yet.
Nothing == "nothing"

(***************************************************************************)
(* `run: command 2>&1 | tee log` under the default shell, bash -e without  *)
(* pipefail: the status of the pipeline is that of tee.  Only the Playwright *)
(* step asks for pipefail.                                                 *)
(***************************************************************************)
Piped(works) == "success"
WithPipefail(works) == IF works THEN "success" ELSE "failure"

situacaoDoResultado(result) ==
  CASE result = "success" -> "ok"
    [] result = "skipped" -> "pulado"
    [] result = "cancelled" -> "alerta"
    [] OTHER -> "falha"

\* fragmento.mjs: a stage that passed or did not.
Fragmento(outcome) == situacaoDoResultado(outcome)

\* resumo-testes.mjs: a suite.  A result file that is missing or unreadable
\* counts zero failures, and coverage that is missing is not below target.
ResumoTestes(outcome, results, belowTarget) ==
  IF outcome = "failure" \/ results = "failed" THEN "falha"
  ELSE IF belowTarget THEN "alerta" ELSE "ok"

\* Mutant: the exit status is taken for the package.
ResumoBuild_ByOutcome(outcome, zip) == IF outcome = "failure" THEN "falha" ELSE "ok"

\* resumo-build.mjs: a package, which is the zip and not the exit status.
ResumoBuild(outcome, zip) == IF outcome = "failure" \/ ~zip THEN "falha" ELSE "ok"

\* resumo-automacao.mjs: the Playwright suite, unstable cases apart.
ResumoAutomacao(outcome, results) ==
  IF outcome = "failure" \/ results \in {"failed", Nothing} THEN "falha"
  ELSE IF results = "flaky" THEN "alerta" ELSE "ok"

\* resumo-terraform.mjs: a plan, by what it destroys or recreates.
ResumoTerraform(outcome, plan) ==
  CASE outcome = "failure" -> "falha"
    [] outcome # "failure" /\ plan \in {Nothing, "destroys"} -> "alerta"
    [] OTHER -> "ok"

\* Mutant: a cancelled job is not counted among those that failed.
ResumoJobs_OnlyFailures(result, needs) ==
  IF \E j \in needs : result[j] = "failure" THEN "falha" ELSE "ok"

\* resumo-jobs.mjs: the result of every job, from the context `needs`.
ResumoJobs(result, needs) ==
  IF \E j \in needs : result[j] \in Red THEN "falha" ELSE "ok"

\* consolidar.mjs: the worst fragment is the situation of the document.
Consolidar(fragments) ==
  LET some(weight) == \E s \in fragments \ {Nothing} : SITUACOES[s] = weight
  IN  IF some(2) THEN "falha" ELSE IF some(1) THEN "alerta" ELSE "ok"
=============================================================================
