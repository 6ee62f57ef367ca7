---------------------------- MODULE CreateScreen ----------------------------
(***************************************************************************)
(* The screen that opens a request: one form, one POST per submission, an  *)
(* answer that may be late or lost, and a confirmation that hides the form.*)
(* A person may leave with a submission under way and come back to a fresh *)
(* form; the server knows nothing of that.                                 *)
(***************************************************************************)
EXTENDS Integers, FiniteSets, Sequences

CONSTANTS
  Fields,       \* the fields that can carry an error
  Drafts,       \* what the fields may hold together
  Blank,        \* the draft of a fresh form: only the requester is filled in
  LocalIssues,  \* draft -> the fields the shared schema refuses
  RouteIssues,  \* draft -> the field only the JSON Schema of the route
                \* refuses, if any: Ajv stops at the first problem
  MaxCalls,     \* bound: submissions that reach the network
  MaxForms      \* bound: fresh forms

VARIABLES
  form,         \* the fresh form on screen: its number
  open,         \* the screen is mounted
  draft,        \* what the fields hold
  fieldErrors, formError, created, submitting,   \* the state of the page
  calls,        \* every POST: its draft, its form, the server's side, the page's side
  attempted     \* history: the last draft this form submitted, with what came of it

screen == <<draft, fieldErrors, formError, created, submitting>>
vars == <<form, open, screen, calls, attempted>>

NoCall == 0
Nothing == [draft |-> Blank, end |-> "none"]
ServerSide == {"thinking", "stored", "refused", "failed"}
PageSide == {"waiting", "told", "lost"}
Calls == [draft : Drafts, form : 1..MaxForms, server : ServerSide, page : PageSide]

\* reset, and the state of a page that has just been mounted.
FreshForm ==
  /\ form' = form + 1
  /\ draft' = Blank /\ fieldErrors' = {} /\ formError' = FALSE
  /\ created' = NoCall /\ submitting' = FALSE
  /\ attempted' = Nothing

Init ==
  /\ form = 1 /\ open = TRUE
  /\ draft = Blank /\ fieldErrors = {} /\ formError = FALSE
  /\ created = NoCall /\ submitting = FALSE
  /\ calls = <<>> /\ attempted = Nothing

\* What the page renders: the form, or the confirmation in its place.
FormShown == open /\ created = NoCall
SuccessShown == open /\ created # NoCall

\* A call whose answer still has a page to go to: the form that made it.
Listening(k) == open /\ calls[k].form = form
-----------------------------------------------------------------------------
\* Fields stay editable while a submission is under way.
Type(d) ==
  /\ FormShown
  /\ draft' = d
  /\ UNCHANGED <<form, open, fieldErrors, formError, created, submitting, calls, attempted>>

\* Mutant: the button is not disabled while a submission is under way.
HandleSubmit_NotDisabled ==
  /\ FormShown
  /\ LocalIssues[draft] = {} /\ Len(calls) < MaxCalls
  /\ calls' = Append(calls, [draft |-> draft, form |-> form, server |-> "thinking", page |-> "waiting"])
  /\ fieldErrors' = {} /\ formError' = FALSE /\ submitting' = TRUE
  /\ attempted' = [draft |-> draft, end |-> "sent"]
  /\ UNCHANGED <<form, open, draft, created>>

\* handleSubmit: a draft the schema refuses never leaves the browser.
HandleSubmit ==
  /\ FormShown /\ ~submitting
  /\ formError' = FALSE /\ created' = NoCall
  /\ fieldErrors' = LocalIssues[draft]
  /\ \/ /\ LocalIssues[draft] # {}
        /\ attempted' = [draft |-> draft, end |-> "local"]
        /\ UNCHANGED <<submitting, calls>>
     \/ /\ LocalIssues[draft] = {} /\ Len(calls) < MaxCalls
        /\ submitting' = TRUE
        /\ calls' = Append(calls, [draft |-> draft, form |-> form, server |-> "thinking", page |-> "waiting"])
        /\ attempted' = [draft |-> draft, end |-> "sent"]
  /\ UNCHANGED <<form, open, draft>>

\* POST /requests: the JSON Schema of the route first, then the shared schema,
\* which refuses nothing the page accepted, then the insert. It runs on whether
\* or not somebody still waits.
Serve(k) ==
  /\ calls[k].server = "thinking"
  /\ \E outcome \in (IF RouteIssues[calls[k].draft] # {} THEN {"refused"} ELSE {"stored", "failed"}) :
       calls' = [calls EXCEPT ![k].server = outcome]
  /\ UNCHANGED <<form, open, screen, attempted>>

\* formatFastifyIssues: the path of the problem, under the context it was found in.
FastifyDetails(d) == {[context |-> "body", path |-> f] : f \in RouteIssues[d]}

\* Mutant: the prefix `body.` is kept, so no field is recognised.
toFieldErrors_KeepsPrefix(details) == {i.path : i \in {x \in details : x.context = ""}} \cap Fields

\* toFieldErrors: only known fields, with the prefix of the context dropped.
toFieldErrors(details) == {i.path : i \in details} \cap Fields

\* What a failed call leaves on the page: only a refusal has details.
FailureShown(k) ==
  /\ formError' = TRUE
  /\ fieldErrors' = IF calls[k].server = "refused" THEN toFieldErrors(FastifyDetails(calls[k].draft)) ELSE {}
  /\ UNCHANGED created

\* Mutant: an answer reaches whatever form is on screen.
Answer_AnyForm(k) ==
  /\ calls[k].page = "waiting" /\ calls[k].server # "thinking"
  /\ calls' = [calls EXCEPT ![k].page = "told"]
  /\ attempted' = [draft |-> calls[k].draft, end |-> calls[k].server]
  /\ submitting' = FALSE
  /\ IF calls[k].server = "stored"
     THEN created' = k /\ UNCHANGED <<fieldErrors, formError>>
     ELSE FailureShown(k)
  /\ UNCHANGED <<form, open, draft>>

\* The rest of handleSubmit, once the answer is there.
Answer(k) ==
  /\ calls[k].page = "waiting" /\ calls[k].server # "thinking"
  /\ calls' = [calls EXCEPT ![k].page = "told"]
  /\ IF ~Listening(k) THEN UNCHANGED <<screen, attempted>>
     ELSE /\ attempted' = [draft |-> calls[k].draft, end |-> calls[k].server]
          /\ submitting' = FALSE
          /\ IF calls[k].server = "stored"
             THEN created' = k /\ UNCHANGED <<fieldErrors, formError>>
             ELSE FailureShown(k)
          /\ UNCHANGED draft
  /\ UNCHANGED <<form, open>>

\* The answer is lost, or the 30 s of the client are over: NETWORK_ERROR, an
\* ApiError without details, whatever the server did or is still to do.
Lose(k) ==
  /\ calls[k].page = "waiting"
  /\ calls' = [calls EXCEPT ![k].page = "lost"]
  /\ IF ~Listening(k) THEN UNCHANGED <<screen, attempted>>
     ELSE /\ attempted' = [draft |-> calls[k].draft, end |-> "lost"]
          /\ submitting' = FALSE /\ formError' = TRUE /\ fieldErrors' = {}
          /\ UNCHANGED <<draft, created>>
  /\ UNCHANGED <<form, open>>

\* "Abrir outra", under the confirmation.
Reset ==
  /\ SuccessShown /\ form < MaxForms
  /\ FreshForm
  /\ UNCHANGED <<open, calls>>

\* Any link of the screen: Cancelar, Voltar para a listagem, Ver a solicitacao.
Leave ==
  /\ open
  /\ open' = FALSE
  /\ UNCHANGED <<form, screen, calls, attempted>>

\* goto: a page that is mounted again remembers nothing.
Enter ==
  /\ ~open /\ form < MaxForms
  /\ open' = TRUE
  /\ FreshForm
  /\ UNCHANGED calls

Next ==
  \/ \E d \in Drafts : Type(d)
  \/ HandleSubmit
  \/ \E k \in DOMAIN calls : Serve(k) \/ Answer(k) \/ Lose(k)
  \/ Reset \/ Leave \/ Enter

\* The timer of the client ends every wait; nothing else is promised.
Spec == Init /\ [][Next]_vars /\ \A k \in 1..MaxCalls : WF_vars(k \in DOMAIN calls /\ (Answer(k) \/ Lose(k)))
-----------------------------------------------------------------------------
TypeOK ==
  /\ form \in 1..MaxForms /\ open \in BOOLEAN /\ draft \in Drafts
  /\ fieldErrors \subseteq Fields /\ {formError, submitting} \subseteq BOOLEAN
  /\ calls \in Seq(Calls) /\ Len(calls) <= MaxCalls
  /\ created \in {NoCall} \cup DOMAIN calls
  /\ attempted \in [draft : Drafts, end : {"none", "local", "sent", "lost"} \cup ServerSide]

\* The confirmation is of the last thing this form submitted, it is stored, and
\* with the values that were submitted, whatever the fields held when the answer
\* came: "a confirmacao poderia estar ecoando o que foi digitado"
\* (nova-solicitacao.spec.ts).
ConfirmedIsStored ==
  SuccessShown =>
    /\ calls[created].server = "stored"
    /\ calls[created].form = form
    /\ calls[created].draft = attempted.draft
    /\ \A k \in DOMAIN calls : calls[k].form = form => k <= created

\* The errors beside the fields are those of the last submission of this form,
\* and a refusal by the API is shown at the field it names, although the route
\* says `body.title` where the schema says `title`.
ErrorsAreOfTheLastSubmit ==
  fieldErrors = CASE attempted.end = "local"   -> LocalIssues[attempted.draft]
                  [] attempted.end = "refused" -> RouteIssues[attempted.draft]
                  [] OTHER -> {}

\* POST /requests has no idempotency key. One form stores two requests only when
\* the person was told that the first attempt failed: its answer was lost.
DuplicateMeansLostAnswer ==
  \A i, j \in DOMAIN calls :
    i < j /\ calls[i].form = calls[j].form /\ calls[i].server = "stored" => calls[i].page = "lost"

\* Success, refusal and a lost answer are told apart, for the last submission.
FormTellsItsOutcome == ConfirmedIsStored /\ ErrorsAreOfTheLastSubmit /\ DuplicateMeansLostAnswer
=============================================================================
