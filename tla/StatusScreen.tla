---------------------------- MODULE StatusScreen ----------------------------
(***************************************************************************)
(* The screen that says which service is out. A round asks every service   *)
(* for its health and bliss-auth for the identity, all at once, and shows  *)
(* what came back when the last of them has ended. An automated test       *)
(* drives the screen and reads its rows.                                   *)
(***************************************************************************)
EXTENDS Naturals, FiniteSets

CONSTANTS
  Services,   \* SERVICE_PROBES
  Auth,       \* one of them, which also answers GET /auth/me
  MaxRounds   \* bound: rounds of one visit

VARIABLES
  service,   \* ok; degraded: its database is out; silent: no answer comes
  access,    \* the access token of the page: good, expired, or dropped
  round,     \* rounds begun
  reply,     \* this round: what each probe came back with, or NoReply
  me,        \* this round: what GET /auth/me came back with, or Pending
  probes, identity, loading,   \* the state of the page
  shownRound,                  \* history: the round the rows are of, 0 before any
  seen,      \* history: the states each service had since the round began
  test       \* the test: away, waiting after a click or the first load, or reading

page == <<probes, identity, loading, shownRound>>
vars == <<service, access, round, reply, me, page, seen, test>>

Pending == "pending"
Conditions == {"ok", "degraded", "silent"}

\* ProbeResult: `data` only comes with a 200; a 503 is an error of the client.
Up == [reachable |-> TRUE, data |-> "ok"]
Out == [reachable |-> FALSE, data |-> "none"]
NoReply == [reachable |-> FALSE, data |-> Pending]
NoRows == [s \in Services |-> NoReply]

Ask ==
  /\ round' = round + 1 /\ loading' = TRUE
  /\ reply' = NoRows /\ me' = Pending
  /\ seen' = [s \in Services |-> {service[s]}]

Init ==
  /\ service \in [Services -> Conditions] /\ access = "good"
  /\ round = 1 /\ loading = TRUE   \* the effect of the first render
  /\ reply = NoRows /\ me = Pending
  /\ probes = NoRows /\ identity = Pending
  /\ shownRound = 0 /\ seen = [s \in Services |-> {service[s]}]
  /\ test = "waiting"

-----------------------------------------------------------------------------
\* Mutant: the rows are read as soon as the button was clicked.
Recheck_StaysLoaded ==
  /\ ~loading /\ round < MaxRounds
  /\ round' = round + 1
  /\ reply' = NoRows /\ me' = Pending
  /\ seen' = [s \in Services |-> {service[s]}]
  /\ test' = "waiting"
  /\ UNCHANGED <<service, access, page>>

\* "Verificar novamente", disabled while a round is under way.
Recheck ==
  /\ ~loading /\ round < MaxRounds
  /\ Ask /\ test' = "waiting"
  /\ UNCHANGED <<service, access, probes, identity, shownRound>>

\* HealthService.probe: an answer of any kind, or none within the timeout of the
\* client, is a result and not an exception.
Probe(s) ==
  /\ round # shownRound /\ reply[s] = NoReply
  /\ reply' = [reply EXCEPT ![s] = IF service[s] = "ok" THEN Up ELSE Out]
  /\ UNCHANGED <<service, access, round, me, page, seen, test>>

\* AuthService.me: the catch turns a failure into a result. A token that is no
\* longer good is refused by bliss-auth, and that 401 drops it, or at the edge,
\* where nothing does; a good one still needs the row of its user.
Me ==
  /\ round # shownRound /\ me = Pending
  /\ me' = IF service[Auth] = "ok" /\ access = "good" THEN "user" ELSE "error"
  /\ \/ UNCHANGED access
     \/ service[Auth] \in {"ok", "degraded"} /\ access = "expired" /\ access' = "none"
  /\ UNCHANGED <<service, round, reply, page, seen, test>>

\* Mutant: every row is shown when it comes, those still out keep the last round's.
Show_AsTheyCome ==
  /\ round # shownRound /\ me # Pending
  /\ probes' = [s \in Services |-> IF reply[s] = NoReply THEN probes[s] ELSE reply[s]]
  /\ identity' = me /\ loading' = FALSE /\ shownRound' = round
  /\ UNCHANGED <<service, access, round, reply, me, seen, test>>

\* After Promise.all of probes and identity.
Show ==
  /\ round # shownRound
  /\ me # Pending /\ \A s \in Services : reply[s] # NoReply
  /\ probes' = reply /\ identity' = me /\ loading' = FALSE /\ shownRound' = round
  /\ UNCHANGED <<service, access, round, reply, me, seen, test>>

\* waitForCheck: data-loading="false" is the sign that the rows are of this round.
TestReads ==
  /\ test = "waiting" /\ ~loading
  /\ test' = "reading"
  /\ UNCHANGED <<service, access, round, reply, me, page, seen>>

\* Services come and go under the screen; tokens expire.
ServiceChanges(s) ==
  /\ service' \in {[service EXCEPT ![s] = c] : c \in Conditions \ {service[s]}}
  /\ seen' = [seen EXCEPT ![s] = @ \cup {service'[s]}]
  /\ UNCHANGED <<access, round, reply, me, page, test>>

AccessExpires ==
  /\ access = "good" /\ access' = "expired"
  /\ UNCHANGED <<service, round, reply, me, page, seen, test>>

Next ==
  \/ Recheck \/ Me \/ Show \/ TestReads \/ AccessExpires
  \/ \E s \in Services : Probe(s) \/ ServiceChanges(s)

\* Every call of the browser ends, by its timeout at the latest.
Spec == Init /\ [][Next]_vars /\ WF_vars(Show) /\ WF_vars(Me)
             /\ \A s \in Services : WF_vars(Probe(s))
-----------------------------------------------------------------------------
TypeOK ==
  /\ service \in [Services -> Conditions] /\ access \in {"good", "expired", "none"}
  /\ round \in 1..MaxRounds /\ shownRound \in 0..round
  /\ reply \in [Services -> {NoReply, Up, Out}] /\ probes \in [Services -> {NoReply, Up, Out}]
  /\ me \in {Pending, "user", "error"} /\ identity \in {Pending, "user", "error"}
  /\ loading \in BOOLEAN /\ test \in {"waiting", "reading"}
  /\ seen \in [Services -> SUBSET Conditions]

\* The rows that are read are those of the round, each in a state its service had
\* since that round began ("ler antes disso afirmaria sobre o resultado velho",
\* StatusPage.ts).
RowsAreOfTheRound ==
  test = "reading" /\ shownRound = round =>
    \A s \in Services : /\ probes[s] = Up => "ok" \in seen[s]
                        /\ probes[s] = Out => seen[s] # {"ok"}

\* And never while a round is under way, nor the rows of an older one.
TestWaitsForTheRound == test = "reading" => shownRound = round /\ ~loading

\* What the test reads is of the round it waited for.
TestReadsItsRound == RowsAreOfTheRound /\ TestWaitsForTheRound
=============================================================================
