---------------------------- MODULE SessionLedger ----------------------------
(***************************************************************************)
(* What a client may rely on about refresh tokens: a valid token comes     *)
(* into being for one user, by a login or in exchange for a token of that  *)
(* user, and a token that stopped being valid stays so. AuthSessions, the  *)
(* service statement by statement, implements this, and BrowserSession,    *)
(* the tabs of a browser, is built on it.                                  *)
(***************************************************************************)
EXTENDS TLAPS

CONSTANTS
  Users,   \* accounts
  Tokens   \* refresh tokens

VARIABLES
  live,    \* live[u]: the tokens that are valid for user u
  used     \* the tokens that were ever issued

vars == <<live, used>>

Init == live = [u \in Users |-> {}] /\ used = {}

\* A token that never existed becomes valid for u; of u's tokens, those in S
\* stop being valid in the same step.
Admit(u, t, S) ==
  /\ t \notin used
  /\ used' = used \cup {t}
  /\ live' = [live EXCEPT ![u] = (@ \ S) \cup {t}]

Login(u, t) == Admit(u, t, {})

Exchange(u, s, t) == Admit(u, t, {s})

\* Logout, expiry and detected reuse: some tokens of one user stop being valid.
Drop(u, S) ==
  /\ live' = [live EXCEPT ![u] = @ \ S]
  /\ UNCHANGED used

Next ==
  \E u \in Users :
    \/ \E t \in Tokens : Login(u, t)
    \/ \E s, t \in Tokens : Exchange(u, s, t)
    \/ \E S \in SUBSET Tokens : Drop(u, S)

Spec == Init /\ [][Next]_vars
-----------------------------------------------------------------------------
\* Tokens of users.
TypeOK == live \in [Users -> SUBSET Tokens] /\ used \subseteq Tokens

\* A valid token was issued, and it is valid for one user only.
OneOwner ==
  \A u \in Users : /\ live[u] \subseteq used
                   /\ \A v \in Users \ {u} : live[u] \cap live[v] = {}

\* A token that was used up, revoked or left to expire is never valid again.
NoRevival ==
  [][\A u \in Users : live'[u] \cap used \subseteq live[u]]_vars
-----------------------------------------------------------------------------
\* Every step of the ledger keeps its types.
LEMMA NextKeepsTypes == TypeOK /\ [Next]_vars => TypeOK'
BY DEF TypeOK, Next, Login, Exchange, Drop, Admit, vars

\* No token has two owners, and none is valid that was not issued.
THEOREM TokensHaveOneOwner == Spec => [](TypeOK /\ OneOwner)
<1>1. Init => TypeOK /\ OneOwner BY DEF Init, TypeOK, OneOwner
<1>2. ASSUME TypeOK, OneOwner, [Next]_vars PROVE OneOwner'
  <2>1. ASSUME NEW u \in Users, NEW t \in Tokens, NEW S, Admit(u, t, S) PROVE OneOwner'
    BY <1>2, <2>1 DEF Admit, TypeOK, OneOwner
  <2>2. ASSUME NEW u \in Users, NEW S, Drop(u, S) PROVE OneOwner'
    BY <1>2, <2>2 DEF Drop, TypeOK, OneOwner
  <2>3. CASE UNCHANGED vars BY <1>2, <2>3 DEF vars, OneOwner
  <2>4. QED BY <1>2, <2>1, <2>2, <2>3 DEF Next, Login, Exchange
<1>3. QED BY <1>1, <1>2, NextKeepsTypes, PTL DEF Spec

\* A token that stopped being valid stays so.
THEOREM TokensStayDead == Spec => NoRevival
<1>1. TypeOK /\ [Next]_vars =>
        [\A u \in Users : live'[u] \cap used \subseteq live[u]]_vars
  BY DEF TypeOK, Next, Login, Exchange, Drop, Admit, vars
<1>2. QED BY <1>1, TokensHaveOneOwner, PTL DEF Spec, NoRevival
=============================================================================
