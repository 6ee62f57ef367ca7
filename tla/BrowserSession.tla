--------------------------- MODULE BrowserSession ---------------------------
(***************************************************************************)
(* The session of one account as the backoffice keeps it: the access token *)
(* and the user in the memory of each tab, the refresh token in a          *)
(* localStorage key that all tabs of the browser share. Calls to bliss-auth*)
(* may be answered late, in any order, or not at all, and a reload leaves  *)
(* calls behind that the server may still carry out. Of the server there is*)
(* what its answers depend on: which refresh tokens it takes.              *)
(***************************************************************************)
EXTENDS Naturals

CONSTANTS
  Tabs,      \* tabs of one browser
  Tokens,    \* refresh tokens; the model stops issuing when they are used up
  Logouts,   \* bound: the logout calls that one tab can have on their way
  Idle,      \* bound: the tabs that stay open longer than an access token lives
  MaxOpens,  \* bound: how often a tab is opened or reloaded, all tabs together
  None       \* no token, no call

ASSUME NoneIsNoToken == None \notin Tokens
ASSUME LogoutsAreNew == Logouts \cap {"restore", "login"} = {}
ASSUME TokensAreNoReplies == Tokens \cap {"waiting", "refused", "failed", "done"} = {}
ASSUME OpensAreCounted == MaxOpens \in Nat

VARIABLES
  stored,   \* localStorage["saude-bliss.refresh-token"], or None
  user,     \* user[t]: the session of tab t has a user
  loading,  \* loading[t]: tab t still restores its session
  access,   \* access[t]: the access token in memory: "none", "good" or "old"
  page,     \* page[t]: what tab t shows, "login" or "backoffice"
  sent,     \* sent[t][op]: the call `op` of tab t that is not settled, or None
  doomed,   \* doomed[t]: a data call without a good access token is on its way
  strays,   \* calls of pages that are gone, which the server may still get
  live,     \* the valid refresh tokens of the account
  used,     \* the refresh tokens that were ever issued
  opens,    \* how often a tab was opened
  causes    \* history: calls were "disturbed" (they overlapped, or one was lost,
            \* or a login replaced a stored token); a refresh token "expired";
            \* a tab sat "idle" until its access token was old

tabState == <<user, loading, access, page>>
server == <<live, used>>
vars == <<stored, user, loading, access, page, sent, doomed, strays, live, used, opens, causes>>

\* Nothing disables "Sair": a second click sends a second logout.
Ops == {"restore", "login"} \cup Logouts
AccessTokens == {"none", "good", "old"}
Pages == {"login", "backoffice"}
Replies == Tokens \cup {"waiting", "refused", "failed", "done"}
Call == [carries : Tokens \cup {None}, reply : Replies]

ASSUME NoneIsNoCall == None \notin Call

Init ==
  /\ stored = None
  /\ user = [t \in Tabs |-> FALSE]
  /\ loading = [t \in Tabs |-> FALSE]
  /\ access = [t \in Tabs |-> "none"]
  /\ page = [t \in Tabs |-> "login"]
  /\ sent = [t \in Tabs |-> [op \in Ops |-> None]]
  /\ doomed = [t \in Tabs |-> FALSE]
  /\ strays = {}
  /\ live = {} /\ used = {}
  /\ opens = 0
  /\ causes = {}

InFlight(t) == {op \in Ops : sent[t][op] # None}
Quiet == strays = {} /\ \A t \in Tabs : InFlight(t) = {}

Send(t, op, what) ==
  sent' = [sent EXCEPT ![t][op] = [carries |-> what, reply |-> "waiting"]]

\* A credential call is sent while another one is on its way.
Crossing == IF Quiet THEN causes ELSE causes \cup {"disturbed"}

\* The two redirects: /login with a user goes to the backoffice, and the
\* backoffice without one goes to /login, both only once loading is over.
Redirected(p, restoring, hasUser) ==
  IF restoring THEN p ELSE IF hasUser THEN "backoffice" ELSE "login"

\* The provider of tab t continues with this user, access token and loading.
Render(t, u, a, l, p) ==
  /\ user' = [user EXCEPT ![t] = u]
  /\ access' = [access EXCEPT ![t] = a]
  /\ loading' = [loading EXCEPT ![t] = l]
  /\ page' = [page EXCEPT ![t] = Redirected(p, l, u)]
-----------------------------------------------------------------------------
\* Tab t is opened, or reloaded, at an address: memory is empty, what the old
\* page had sent may still reach the server, and the stored token is tried.
Open(t, p) ==
  /\ opens < MaxOpens
  /\ opens' = opens + 1
  /\ Render(t, FALSE, "none", stored # None, p)
  /\ sent' = [sent EXCEPT ![t] = [op \in Ops |->
       IF op = "restore" /\ stored # None
         THEN [carries |-> stored, reply |-> "waiting"] ELSE None]]
  /\ doomed' = [doomed EXCEPT ![t] = FALSE]
  /\ strays' = strays \cup
       {[op |-> op, carries |-> sent[t][op].carries] :
          op \in {o \in InFlight(t) : sent[t][o].reply = "waiting"}}
  /\ causes' = IF InFlight(t) # {} THEN causes \cup {"disturbed"}
               ELSE IF stored # None THEN Crossing ELSE causes
  /\ UNCHANGED <<stored, server>>

\* LoginPage.handleSubmit. The form is there while the restore is still on its
\* way; only a login under way disables the button.
SubmitLogin(t) ==
  /\ page[t] = "login" /\ sent[t]["login"] = None
  /\ Send(t, "login", None)
  /\ causes' = IF stored # None THEN causes \cup {"disturbed"} ELSE Crossing
  /\ UNCHANGED <<doomed, stored, tabState, strays, server, opens>>

\* Mutant: logout is local; the server never hears of it.
ClickLogout_LocalOnly(t) ==
  /\ page[t] = "backoffice" /\ ~loading[t] /\ user[t]
  /\ Render(t, FALSE, "none", FALSE, "login")
  /\ stored' = None
  /\ UNCHANGED <<doomed, sent, strays, server, opens, causes>>

\* The provider's logout: without a stored token it only forgets the user.
ClickLogout(t) ==
  /\ page[t] = "backoffice" /\ ~loading[t] /\ user[t]
  /\ \/ /\ stored = None
        /\ Render(t, FALSE, access[t], FALSE, "login")
        /\ UNCHANGED <<sent, causes>>
     \/ /\ stored # None
        /\ \E op \in Logouts :
             sent[t][op] = None /\ Send(t, op, stored)
        /\ causes' = Crossing
        /\ UNCHANGED tabState
  /\ UNCHANGED <<doomed, stored, strays, server, opens>>

\* Any screen asks the API for data with the access token in memory. A call
\* that carries a good one is answered and leaves the session as it is.
AskForData(t) ==
  /\ page[t] = "backoffice" /\ ~loading[t] /\ user[t]
  /\ access[t] # "good" /\ ~doomed[t]
  /\ doomed' = [doomed EXCEPT ![t] = TRUE]
  /\ UNCHANGED <<stored, tabState, sent, strays, server, opens, causes>>

\* The access token of tab t reaches its expiry.
AccessExpires(t) ==
  /\ t \in Idle /\ access[t] = "good"
  /\ access' = [access EXCEPT ![t] = "old"]
  /\ causes' = causes \cup {"idle"}
  /\ UNCHANGED <<doomed, stored, user, loading, page, sent, strays, server, opens>>
-----------------------------------------------------------------------------
\* issueSession: a new token is valid from here on, in place of an old one.
Admit(n, old) ==
  /\ n \notin used
  /\ used' = used \cup {n}
  /\ live' = (live \ old) \cup {n}

\* bliss-auth carries out a call and gives this reply: a refresh of a valid
\* token exchanges it, a refresh of any other token ends every session.
Serve(op, what, reply) ==
  \/ /\ op = "login" /\ reply \in Tokens /\ Admit(reply, {})
  \/ /\ op = "login" /\ reply = "refused" /\ UNCHANGED server
  \/ /\ op = "restore" /\ what \in live /\ reply \in Tokens /\ Admit(reply, {what})
  \/ /\ op = "restore" /\ what \notin live /\ reply = "refused"
     /\ live' = {} /\ UNCHANGED used
  \/ /\ op \in Logouts /\ reply = "done"
     /\ live' = live \ {what} /\ UNCHANGED used

\* A call of tab t is served; its answer reaches the browser, or gets lost.
Answer(t, op) ==
  /\ sent[t][op] # None /\ sent[t][op].reply = "waiting"
  /\ \E reply \in Replies :
       /\ Serve(op, sent[t][op].carries, reply)
       /\ \/ sent' = [sent EXCEPT ![t][op].reply = reply] /\ UNCHANGED causes
          \/ /\ sent' = [sent EXCEPT ![t][op].reply = "failed"]
             /\ causes' = causes \cup {"disturbed"}
  /\ UNCHANGED <<doomed, stored, tabState, strays, opens>>

\* A call never reaches the server, or a gateway answers without an envelope:
\* after 30 s at the latest it is a failure for the browser.
Timeout(t, op) ==
  /\ sent[t][op] # None /\ sent[t][op].reply = "waiting"
  /\ sent' = [sent EXCEPT ![t][op].reply = "failed"]
  /\ causes' = causes \cup {"disturbed"}
  /\ UNCHANGED <<doomed, stored, tabState, strays, server, opens>>

\* A call that a reload left behind reaches the server late, or never.
Late(r) ==
  /\ strays' = strays \ {r}
  /\ \/ \E reply \in Replies : Serve(r.op, r.carries, reply)
     \/ UNCHANGED server
  /\ UNCHANGED <<doomed, stored, tabState, sent, opens, causes>>

\* expires_at of a refresh token passes.
TokenExpires(n) ==
  /\ n \in live
  /\ live' = live \ {n}
  /\ causes' = causes \cup {"expired"}
  /\ UNCHANGED <<doomed, stored, tabState, sent, strays, used, opens>>
-----------------------------------------------------------------------------
Replied(t, op) == sent[t][op] # None /\ sent[t][op].reply # "waiting"
Settle(t, op) == sent' = [sent EXCEPT ![t][op] = None]

\* Mutant: the rotated token is not stored.
RestoreEnds_KeepsOldToken(t) ==
  LET r == sent[t]["restore"].reply IN
  /\ Replied(t, "restore")
  /\ IF r \in Tokens
       THEN Render(t, TRUE, "good", FALSE, page[t]) /\ UNCHANGED stored
       ELSE Render(t, user[t], "none", FALSE, page[t]) /\ stored' = None
  /\ Settle(t, "restore")
  /\ UNCHANGED <<doomed, strays, server, opens, causes>>

\* Mutant: a restore brings the user back, but no access token.
RestoreEnds_UserOnly(t) ==
  LET r == sent[t]["restore"].reply IN
  /\ Replied(t, "restore")
  /\ IF r \in Tokens
       THEN Render(t, TRUE, "none", FALSE, page[t]) /\ stored' = r
       ELSE Render(t, user[t], "none", FALSE, page[t]) /\ stored' = None
  /\ Settle(t, "restore")
  /\ UNCHANGED <<doomed, strays, server, opens, causes>>

\* The restore ends: the new token replaces the stored one, or whatever is
\* stored by now is removed; a user who signed in meanwhile stays.
RestoreEnds(t) ==
  LET r == sent[t]["restore"].reply IN
  /\ Replied(t, "restore")
  /\ IF r \in Tokens
       THEN Render(t, TRUE, "good", FALSE, page[t]) /\ stored' = r
       ELSE Render(t, user[t], "none", FALSE, page[t]) /\ stored' = None
  /\ Settle(t, "restore")
  /\ UNCHANGED <<doomed, strays, server, opens, causes>>

\* Mutant: what came back is stored even if the login failed.
LoginEnds_StoresAnything(t) ==
  LET r == sent[t]["login"].reply IN
  /\ Replied(t, "login")
  /\ stored' = r
  /\ IF r \in Tokens THEN Render(t, TRUE, "good", loading[t], "backoffice")
                     ELSE Render(t, user[t], "none", loading[t], page[t])
  /\ Settle(t, "login")
  /\ UNCHANGED <<doomed, strays, server, opens, causes>>

\* The login ends; a 401 makes the interceptor drop the access token.
LoginEnds(t) ==
  LET r == sent[t]["login"].reply IN
  /\ Replied(t, "login")
  /\ IF r \in Tokens
       THEN Render(t, TRUE, "good", loading[t], "backoffice") /\ stored' = r
       ELSE /\ Render(t, user[t], IF r = "refused" THEN "none" ELSE access[t],
                      loading[t], page[t])
            /\ UNCHANGED stored
  /\ Settle(t, "login")
  /\ UNCHANGED <<doomed, strays, server, opens, causes>>

\* Mutant: a logout that the server did not confirm leaves everything as it is.
LogoutEnds_FailurePropagates(t, op) ==
  /\ op \in Logouts /\ Replied(t, op)
  /\ IF sent[t][op].reply = "failed"
       THEN UNCHANGED <<stored, tabState>>
       ELSE Render(t, FALSE, "none", loading[t], "login") /\ stored' = None
  /\ Settle(t, op)
  /\ UNCHANGED <<doomed, strays, server, opens, causes>>

\* The logout ends; a failure counts as a success.
LogoutEnds(t, op) ==
  /\ op \in Logouts /\ Replied(t, op)
  /\ Render(t, FALSE, "none", loading[t], "login")
  /\ stored' = None
  /\ Settle(t, op)
  /\ UNCHANGED <<doomed, strays, server, opens, causes>>

\* The data call without a good token is refused: a 401 with an envelope drops
\* the access token that is in memory by now, whichever one the call carried.
DataRefused(t) ==
  /\ doomed[t]
  /\ doomed' = [doomed EXCEPT ![t] = FALSE]
  /\ \E a \in {"none", access[t]} : access' = [access EXCEPT ![t] = a]
  /\ UNCHANGED <<stored, user, loading, page, sent, strays, server, opens, causes>>
-----------------------------------------------------------------------------
Ends(t) ==
  RestoreEnds(t) \/ LoginEnds(t) \/ DataRefused(t) \/ \E op \in Logouts : LogoutEnds(t, op)

Next ==
  \/ \E t \in Tabs :
       \/ \E p \in Pages : Open(t, p)
       \/ SubmitLogin(t) \/ ClickLogout(t) \/ AskForData(t) \/ AccessExpires(t)
       \/ \E op \in Ops : Answer(t, op) \/ Timeout(t, op)
       \/ Ends(t)
  \/ \E r \in strays : Late(r)
  \/ \E n \in Tokens : TokenExpires(n)

Spec == Init /\ [][Next]_vars
-----------------------------------------------------------------------------
\* Every variable holds what the provider and the calls can hold; the page
\* agrees with the user whenever loading is over.
TypeOK ==
  /\ stored \in Tokens \cup {None}
  /\ user \in [Tabs -> BOOLEAN] /\ loading \in [Tabs -> BOOLEAN]
  /\ access \in [Tabs -> AccessTokens] /\ page \in [Tabs -> Pages]
  /\ sent \in [Tabs -> [Ops -> Call \cup {None}]]
  /\ doomed \in [Tabs -> BOOLEAN]
  /\ strays \subseteq [op : Ops, carries : Tokens \cup {None}]
  /\ live \subseteq used /\ used \subseteq Tokens
  /\ opens \in 0 .. MaxOpens
  /\ causes \subseteq {"disturbed", "expired", "idle"}
  /\ \A t \in Tabs : ~loading[t] => page[t] = Redirected(page[t], FALSE, user[t])

\* As long as no two credential calls overlapped and no answer got lost, the
\* server keeps no valid token that the browser has forgotten.
NoForgottenToken ==
  "disturbed" \notin causes =>
    live \subseteq ({stored} \cup
      {n \in Tokens : \E t \in Tabs, op \in Ops :
         sent[t][op] # None /\ sent[t][op].reply = n})

\* SessionProvider stores the rotated token because the old one would raise
\* the reuse alarm: without an overlap, a loss or an expiry, no restore ever
\* presents a token that stopped being valid.
NoFalseAlarm ==
  causes \subseteq {"idle"} =>
    \A t \in Tabs :
      sent[t]["restore"] # None /\ sent[t]["restore"].reply = "waiting" =>
        sent[t]["restore"].carries \in live

\* A user without a good access token, whom every screen refuses, comes only of
\* calls that crossed or got lost, or of a tab that outlived its access token:
\* nothing renews it, and the 401 that follows leaves the user in place.
LimboNeedsIdling ==
  causes \cap {"disturbed", "idle"} = {} =>
    \A t \in Tabs : user[t] => access[t] = "good"

\* instances.ts:60 promises that the 401 handler leaves no user "in an authenticated
\* limbo". So no tab keeps a user who has no access token.
NoAuthenticatedLimbo == \A t \in Tabs : user[t] => access[t] # "none"
=============================================================================
