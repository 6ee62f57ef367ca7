---------------------------- MODULE AuthSessions ----------------------------
(***************************************************************************)
(* Sessions as bliss-auth keeps them: a login stores a refresh token, a    *)
(* refresh exchanges the token for a new one, a logout revokes it, and a   *)
(* token that comes back after it stopped being active takes every session *)
(* of its user down. Calls run side by side in containers of their own and *)
(* interleave between any two statements. A token and its SHA-256 in       *)
(* token_hash are one value here. The column replaced_by_hash is written   *)
(* and never read, and the access token is a stateless JWT; neither is a   *)
(* part of this module. No operation deletes or deactivates an account, so *)
(* the re-read of the user in refresh finds what the first one found.      *)
(***************************************************************************)
EXTENDS Naturals

CONSTANTS
  Users,     \* accounts
  Inactive,  \* the accounts with users.active = false; no operation sets it
  Tokens,    \* refresh tokens; the model stops issuing when they are used up
  Calls,     \* HTTP calls in flight at once; one that ended may be used again
  None       \* no row, no token, no call, no answer

ASSUME InactiveAreUsers == Inactive \subseteq Users
ASSUME NoneIsNoToken == None \notin Tokens

VARIABLES
  rows,    \* rows[t]: the row of refresh_tokens for token t, or None
  pc,      \* pc[i]: the statement that call i executes next
  call,    \* call[i]: what call i asks for
  found,   \* found[i]: the user that the last SELECT of call i returned
  issued,  \* issued[i]: the token that login call i stored for its answer
  answer,  \* the answer that the last step gave to a call, or None
  held,    \* the tokens that a client got in an answer
  swapped, \* history: the tokens that a refresh exchanged for a new one
  origin,  \* history: origin[t] is the login token that t descends from
  ended,   \* history: pairs of a session and what ended it
  raced    \* history: the sessions in which a dead token was exchanged

history == <<swapped, origin, ended, raced>>
memory == <<call, found, issued>>
vars == <<rows, pc, call, found, issued, answer, held, swapped, origin, ended, raced>>

Row == [userId : Users, revoked : BOOLEAN, expired : BOOLEAN]
ASSUME NoneIsNoRow == None \notin Row
LoginCalls == [op : {"login"}, user : Users, matches : BOOLEAN]
TokenCalls == [op : {"refresh", "logout"}, token : Tokens]
Steps == {"credentials", "store", "touch",            \* login
          "find", "exists", "revokeAll", "rotate",    \* refresh
          "revoke"}                                   \* logout
Answers == {"OK", "INVALID_CREDENTIALS", "USER_INACTIVE",
            "INVALID_REFRESH_TOKEN", "ERROR"}

Init ==
  /\ rows = [t \in Tokens |-> None]
  /\ pc = [i \in Calls |-> "idle"]
  /\ call = [i \in Calls |-> None]
  /\ found = [i \in Calls |-> None]
  /\ issued = [i \in Calls |-> None]
  /\ answer = None
  /\ held = {}
  /\ swapped = {}
  /\ origin = [t \in Tokens |-> None]
  /\ ended = {}
  /\ raced = {}

\* findActiveRefreshToken: the row is there, not revoked and not expired.
Live(t) == rows[t] # None /\ ~rows[t].revoked /\ ~rows[t].expired

\* A token is random: it never was in the table before.
Fresh(t) == origin[t] = None

OwnedBy(u) == {t \in Tokens : rows[t] # None /\ rows[t].userId = u}

\* UPDATE refresh_tokens SET revoked_at WHERE revoked_at IS NULL, for a set.
Revoke(S) ==
  rows' = [t \in Tokens |-> IF t \in S /\ rows[t] # None
                              THEN [rows[t] EXCEPT !.revoked = TRUE] ELSE rows[t]]

\* Call i goes on with statement `step`.
Goto(i, step) ==
  /\ pc' = [pc EXCEPT ![i] = step]
  /\ answer' = None

\* Call i ends with answer a, or with none; what it held in memory is gone.
End(i, a) ==
  /\ pc' = [pc EXCEPT ![i] = "idle"]
  /\ answer' = a
  /\ call' = [call EXCEPT ![i] = None]
  /\ found' = [found EXCEPT ![i] = None]
  /\ issued' = [issued EXCEPT ![i] = None]

\* Call i ends with an answer that carries token t.
Deliver(i, t) == End(i, "OK") /\ held' = held \cup {t}
-----------------------------------------------------------------------------
\* A validated call arrives. Clients present tokens they were given, at any
\* time and as often as they like: a second tab, a retry, a stale page.
Receive(i, c) ==
  /\ pc[i] = "idle"
  /\ c.op \in {"refresh", "logout"} => c.token \in held
  /\ call' = [call EXCEPT ![i] = c]
  /\ Goto(i, CASE c.op = "login"   -> "credentials"
               [] c.op = "refresh" -> "find"
               [] c.op = "logout"  -> "revoke")
  /\ found' = [found EXCEPT ![i] = None]
  /\ issued' = [issued EXCEPT ![i] = None]
  /\ UNCHANGED <<rows, held, history>>

\* AuthService.login: a wrong password and an unknown account are one answer,
\* and a deactivated account is told only to who knows its password.
LoginCheck(i) ==
  LET c == call[i] IN
  /\ pc[i] = "credentials"
  /\ \/ ~c.matches /\ End(i, "INVALID_CREDENTIALS")
     \/ c.matches /\ c.user \in Inactive /\ End(i, "USER_INACTIVE")
     \/ c.matches /\ c.user \notin Inactive /\ Goto(i, "store") /\ UNCHANGED memory
  /\ UNCHANGED <<rows, held, history>>

\* issueSession: INSERT INTO refresh_tokens, committed before anything else.
LoginStore(i) ==
  /\ pc[i] = "store"
  /\ \E t \in Tokens :
       /\ Fresh(t)
       /\ rows' = [rows EXCEPT ![t] = [userId |-> call[i].user,
                                       revoked |-> FALSE, expired |-> FALSE]]
       /\ origin' = [origin EXCEPT ![t] = t]
       /\ issued' = [issued EXCEPT ![i] = t]
  /\ Goto(i, "touch")
  /\ UNCHANGED <<call, found, held, swapped, ended, raced>>

\* touchLastLogin succeeds and the login is answered.
LoginTouch(i) ==
  /\ pc[i] = "touch"
  /\ Deliver(i, issued[i])
  /\ UNCHANGED <<rows, history>>

\* AuthService.refresh: the first SELECT decides which way the call goes.
RefreshFind(i) ==
  LET t == call[i].token IN
  /\ pc[i] = "find"
  /\ IF Live(t) THEN /\ found' = [found EXCEPT ![i] = rows[t].userId]
                     /\ Goto(i, "rotate")
                ELSE Goto(i, "exists") /\ UNCHANGED found
  /\ UNCHANGED <<rows, call, issued, held, history>>

\* refreshTokenExists: a row that is revoked or expired counts, a purged one
\* does not.
RefreshExists(i) ==
  LET t == call[i].token IN
  /\ pc[i] = "exists"
  /\ IF rows[t] # None THEN /\ found' = [found EXCEPT ![i] = rows[t].userId]
                            /\ Goto(i, "revokeAll")
                            /\ UNCHANGED <<call, issued>>
                       ELSE End(i, "INVALID_REFRESH_TOKEN")
  /\ UNCHANGED <<rows, held, history>>

\* Mutant: only the token that was presented is revoked.
RefreshRevokeAll_OnlyPresented(i) ==
  /\ pc[i] = "revokeAll"
  /\ Revoke({call[i].token})
  /\ ended' = ended \cup {<<origin[t], "reuse">> : t \in OwnedBy(found[i])}
  /\ End(i, "INVALID_REFRESH_TOKEN")
  /\ UNCHANGED <<held, swapped, origin, raced>>

\* Mutant: the UPDATE has no user_id in its WHERE.
RefreshRevokeAll_EveryUser(i) ==
  /\ pc[i] = "revokeAll"
  /\ Revoke(Tokens)
  /\ ended' = ended \cup {<<origin[t], "reuse">> : t \in OwnedBy(found[i])}
  /\ End(i, "INVALID_REFRESH_TOKEN")
  /\ UNCHANGED <<held, swapped, origin, raced>>

\* revokeAllForUser, and the 401 that follows it.
RefreshRevokeAll(i) ==
  LET S == OwnedBy(found[i]) IN
  /\ pc[i] = "revokeAll"
  /\ Revoke(S)
  /\ ended' = ended \cup {<<origin[t], "reuse">> : t \in S}
  /\ End(i, "INVALID_REFRESH_TOKEN")
  /\ UNCHANGED <<held, swapped, origin, raced>>

\* Mutant: no transaction. The INSERT runs first and the UPDATE may not follow.
RefreshRotate_TwoStatements(i) ==
  LET t == call[i].token IN
  /\ pc[i] = "rotate"
  /\ \E n \in Tokens, revoked \in BOOLEAN :
       /\ Fresh(n)
       /\ rows' = [rows EXCEPT
            ![t] = IF @ = None \/ ~revoked THEN @ ELSE [@ EXCEPT !.revoked = TRUE],
            ![n] = [userId |-> found[i], revoked |-> FALSE, expired |-> FALSE]]
       /\ origin' = [origin EXCEPT ![n] = origin[t]]
       /\ raced' = IF rows[t] = None \/ rows[t].revoked
                     THEN raced \cup {origin[t]} ELSE raced
       /\ IF revoked THEN Deliver(i, n) ELSE End(i, "ERROR") /\ UNCHANGED held
  /\ swapped' = swapped \cup {t}
  /\ UNCHANGED ended

\* Mutant: the old row is marked as replaced, but revoked_at is left null.
RefreshRotate_NotRevoked(i) ==
  LET t == call[i].token IN
  /\ pc[i] = "rotate"
  /\ \E n \in Tokens :
       /\ Fresh(n)
       /\ rows' = [rows EXCEPT
            ![n] = [userId |-> found[i], revoked |-> FALSE, expired |-> FALSE]]
       /\ origin' = [origin EXCEPT ![n] = origin[t]]
       /\ UNCHANGED raced
       /\ Deliver(i, n)
  /\ swapped' = swapped \cup {t}
  /\ UNCHANGED ended

\* Mutant: no transaction. When the INSERT fails, a second UPDATE puts
\* revoked_at back to null, also where a logout had set it in between.
RefreshRotate_UndoneByHand(i) ==
  LET t == call[i].token IN
  /\ pc[i] = "rotate"
  /\ rows' = [rows EXCEPT ![t] = IF @ = None THEN None ELSE [@ EXCEPT !.revoked = FALSE]]
  /\ End(i, "ERROR")
  /\ UNCHANGED <<held, history>>

\* rotateRefreshToken: one transaction that revokes the row found before, by
\* its id alone, and inserts the new one. If the row is gone the UPDATE matches
\* nothing and the INSERT happens all the same. The answer may get lost.
RefreshRotate(i) ==
  LET t == call[i].token IN
  /\ pc[i] = "rotate"
  /\ \E n \in Tokens :
       /\ Fresh(n)
       /\ rows' = [rows EXCEPT
            ![t] = IF @ = None THEN None ELSE [@ EXCEPT !.revoked = TRUE],
            ![n] = [userId |-> found[i], revoked |-> FALSE, expired |-> FALSE]]
       /\ origin' = [origin EXCEPT ![n] = origin[t]]
       /\ raced' = IF rows[t] = None \/ rows[t].revoked
                     THEN raced \cup {origin[t]} ELSE raced
       /\ \/ Deliver(i, n)
          \/ \E a \in {"ERROR", None} : End(i, a) /\ UNCHANGED held
  /\ swapped' = swapped \cup {t}
  /\ UNCHANGED ended

\* Mutant: a token that was not valid is answered 404.
Logout_NotFound(i) ==
  LET t == call[i].token IN
  /\ pc[i] = "revoke"
  /\ Revoke({t})
  /\ ended' = IF Live(t) THEN ended \cup {<<origin[t], "logout">>} ELSE ended
  /\ End(i, IF Live(t) THEN "OK" ELSE "NOT_FOUND")
  /\ UNCHANGED <<held, swapped, origin, raced>>

\* AuthService.logout: revokes the token if it is not revoked yet; either way
\* the answer is the same.
Logout(i) ==
  LET t == call[i].token IN
  /\ pc[i] = "revoke"
  /\ Revoke({t})
  /\ ended' = IF rows[t] # None /\ ~rows[t].revoked
                THEN ended \cup {<<origin[t], "logout">>} ELSE ended
  /\ End(i, "OK")
  /\ UNCHANGED <<held, swapped, origin, raced>>

\* A statement fails ("ERROR", a 5xx), or the container dies before an answer.
Fail(i) ==
  /\ pc[i] \in Steps
  /\ \E a \in {"ERROR", None} : End(i, a)
  /\ UNCHANGED <<rows, held, history>>

\* expires_at passes.
Expire(t) ==
  /\ rows[t] # None /\ ~rows[t].expired
  /\ rows' = [rows EXCEPT ![t].expired = TRUE]
  /\ answer' = None
  /\ UNCHANGED <<pc, memory, held, history>>

\* AuthRepository.purgeExpired, one DELETE for all expired rows.
purgeExpired ==
  /\ \E t \in Tokens : rows[t] # None /\ rows[t].expired
  /\ rows' = [t \in Tokens |-> IF rows[t] # None /\ rows[t].expired
                                 THEN None ELSE rows[t]]
  /\ answer' = None
  /\ UNCHANGED <<pc, memory, held, history>>
-----------------------------------------------------------------------------
Step(i) ==
  \/ LoginCheck(i) \/ LoginStore(i) \/ LoginTouch(i)
  \/ RefreshFind(i) \/ RefreshExists(i) \/ RefreshRevokeAll(i) \/ RefreshRotate(i)
  \/ Logout(i)

Next ==
  \/ \E i \in Calls :
       \/ \E c \in LoginCalls \cup TokenCalls : Receive(i, c)
       \/ Step(i)
       \/ Fail(i)
  \/ \E t \in Tokens : Expire(t)
  \/ purgeExpired

Spec == Init /\ [][Next]_vars
-----------------------------------------------------------------------------
\* Every variable holds what the columns and the calls can hold; in particular
\* the only answers are those of AuthService and the generic failure.
TypeOK ==
  /\ rows \in [Tokens -> Row \cup {None}]
  /\ pc \in [Calls -> {"idle"} \cup Steps]
  /\ call \in [Calls -> LoginCalls \cup TokenCalls \cup {None}]
  /\ found \in [Calls -> Users \cup {None}]
  /\ issued \in [Calls -> Tokens \cup {None}]
  /\ answer \in Answers \cup {None}
  /\ held \subseteq Tokens
  /\ swapped \subseteq Tokens
  /\ origin \in [Tokens -> Tokens \cup {None}]
  /\ ended \subseteq Tokens \X {"logout", "reuse"}
  /\ raced \subseteq Tokens

\* A token and the one issued in exchange for it are never valid together,
\* whatever fails or overlaps: the transaction of rotateRefreshToken.
ExchangedIsDead ==
  \A t \in swapped : ~Live(t)

\* Both tokens descend from the same login.
SameSession(s, t) == origin[s] = origin[t]

\* A session has one valid token, as long as no refresh exchanged a token that
\* had died between its SELECT and its transaction.
OneLiveTokenUnlessRaced ==
  \A s, t \in Tokens :
    Live(s) /\ Live(t) /\ SameSession(s, t) => s = t \/ origin[s] \in raced

\* A session that a logout or a detected reuse ended has no valid token any
\* more, with the same exception.
EndedUnlessRaced ==
  \A t \in Tokens, why \in {"logout", "reuse"} :
    Live(t) /\ <<origin[t], why>> \in ended => origin[t] \in raced

\* Whoever loses a valid token to a step owns the token that was presented in
\* that step: sessions of other users are never touched.
OnlyOwnSessionsRevoked ==
  [][\A t \in Tokens :
       Live(t) /\ rows'[t] # None /\ rows'[t].revoked =>
         \E i \in Calls :
           /\ pc[i] \in {"rotate", "revoke", "revokeAll"} /\ pc'[i] = "idle"
           /\ rows[t].userId =
                IF pc[i] = "revoke" THEN rows[call[i].token].userId ELSE found[i]]_vars

\* The service hands out and withdraws valid tokens as SessionLedger says: each
\* step touches one user, and nothing makes a token valid again.
Ledger == INSTANCE SessionLedger WITH
  Users <- Users, Tokens <- Tokens,
  live <- [u \in Users |-> {t \in OwnedBy(u) : Live(t)}],
  used <- {t \in Tokens : origin[t] # None}
ImplementsLedger == Ledger!Spec

\* AuthRepository.ts:107-109: two valid tokens of one session at the same time
\* are "exactly what the rotation exists to prevent".
OneLiveToken ==
  \A s, t \in Tokens : Live(s) /\ Live(t) /\ SameSession(s, t) => s = t

\* AuthMiddlewares.ts:86-87: presenting a revoked token takes all sessions of
\* the user down. So none of them has a valid token afterwards.
ReuseEndsEverySession ==
  \A t \in Tokens : Live(t) => <<origin[t], "reuse">> \notin ended

\* AuthService.ts:124-127: all sessions fall when the token presented "exists
\* but was already revoked".
OnlyRevokedTokensEndSessions ==
  [][\A i \in Calls :
       pc[i] = "revokeAll" /\ pc'[i] = "idle" /\ answer' = "INVALID_REFRESH_TOKEN" =>
         rows[call[i].token] # None /\ rows[call[i].token].revoked]_vars
=============================================================================
