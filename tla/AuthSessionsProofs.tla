------------------------- MODULE AuthSessionsProofs -------------------------
(***************************************************************************)
(* The invariants of AuthSessions for any number of accounts, tokens and   *)
(* calls. The argument: every session belongs to one account, and a refresh*)
(* that goes on to its rotation carries that account even if the row it    *)
(* read is purged meanwhile; so a session has one unrevoked token at a     *)
(* time, until a rotation finds its token revoked or gone.                 *)
(***************************************************************************)
EXTENDS AuthSessions, TLAPS

Issued(t) == origin[t] # None
Unrevoked(t) == rows[t] # None /\ ~rows[t].revoked

\* Each operation is only ever at a step of its own, with a token that exists.
StepFitsCall(i) ==
  /\ pc[i] \in {"credentials", "store", "touch"} => call[i] \in LoginCalls
  /\ pc[i] \in {"find", "exists", "revokeAll", "rotate", "revoke"} =>
       call[i] \in TokenCalls /\ Issued(call[i].token)
  /\ pc[i] \in {"revokeAll", "rotate"} => found[i] \in Users
  /\ pc[i] = "touch" => issued[i] \in Tokens /\ Issued(issued[i])

\* A refresh about to rotate knows the account of the session it is in, whatever
\* has happened to the row since.
FoundOwner(i) ==
  pc[i] = "rotate" =>
    /\ \A t \in Tokens :
         rows[t] # None /\ origin[t] = origin[call[i].token] => rows[t].userId = found[i]
    /\ \A j \in Calls :
         pc[j] = "rotate" /\ origin[call[j].token] = origin[call[i].token] =>
           found[j] = found[i]

CallInv == \A i \in Calls : StepFitsCall(i) /\ FoundOwner(i)

\* Rows, clients and history speak of tokens that were issued, and a session is
\* named by the token of its login.
NamesAreIssued ==
  /\ \A t \in Tokens : rows[t] # None \/ t \in held \cup swapped => Issued(t)
  /\ \A t \in Tokens : Issued(t) => origin[t] \in Tokens /\ origin[origin[t]] = origin[t]
  /\ \A t \in Tokens, why \in {"logout", "reuse"} : <<t, why>> \in ended => Issued(t)

OneAccount ==
  \A s, t \in Tokens :
    rows[s] # None /\ rows[t] # None /\ SameSession(s, t) => rows[s].userId = rows[t].userId

SwappedIsRevoked == \A t \in swapped : ~Unrevoked(t)

OneUnrevoked ==
  \A s, t \in Tokens :
    Unrevoked(s) /\ Unrevoked(t) /\ SameSession(s, t) => s = t \/ origin[s] \in raced

EndedIsRevoked ==
  \A t \in Tokens, why \in {"logout", "reuse"} :
    Unrevoked(t) /\ <<origin[t], why>> \in ended => origin[t] \in raced

DataInv ==
  NamesAreIssued /\ OneAccount /\ SwappedIsRevoked /\ OneUnrevoked /\ EndedIsRevoked

SessionInv == TypeOK /\ CallInv /\ DataInv
-----------------------------------------------------------------------------
\* The steps that leave the table, the clients and the history alone.
OnlyMemory == UNCHANGED <<rows, held, history>>

LEMMA CallFields ==
  /\ \A c \in LoginCalls : c.op = "login" /\ c.user \in Users
  /\ \A c \in TokenCalls : c.op \in {"refresh", "logout"} /\ c.token \in Tokens
BY DEF LoginCalls, TokenCalls

LEMMA InitInv == Init => SessionInv
BY NoneIsNoToken
DEF Init, SessionInv, TypeOK, CallInv, StepFitsCall, FoundOwner, DataInv, NamesAreIssued,
    OneAccount, SwappedIsRevoked, OneUnrevoked, EndedIsRevoked, Unrevoked, SameSession,
    Issued, Steps, Answers

\* What is not touched stays as it was.
LEMMA MemoryStepKeepsData == DataInv /\ OnlyMemory => DataInv'
BY DEF DataInv, OnlyMemory, history, NamesAreIssued, OneAccount, SwappedIsRevoked,
  OneUnrevoked, EndedIsRevoked, Unrevoked, SameSession, Issued

\* What the UPDATE of a set of rows does to each row.
LEMMA RevokeEffect ==
  ASSUME NEW S, rows \in [Tokens -> Row \cup {None}], Revoke(S)
  PROVE  /\ rows' \in [Tokens -> Row \cup {None}]
         /\ \A t \in Tokens :
              /\ (rows'[t] # None) <=> (rows[t] # None)
              /\ rows[t] # None =>
                   /\ rows'[t].userId = rows[t].userId
                   /\ rows'[t].expired = rows[t].expired
                   /\ rows'[t].revoked = (t \in S \/ rows[t].revoked)
<1>1. \A t \in Tokens : rows[t] # None =>
        /\ [rows[t] EXCEPT !.revoked = TRUE] \in Row
        /\ [rows[t] EXCEPT !.revoked = TRUE].userId = rows[t].userId
        /\ [rows[t] EXCEPT !.revoked = TRUE].expired = rows[t].expired
        /\ [rows[t] EXCEPT !.revoked = TRUE].revoked = TRUE
        /\ rows[t].revoked \in BOOLEAN
  BY DEF Row
<1>2. \A t \in Tokens :
        rows'[t] = IF t \in S /\ rows[t] # None
                     THEN [rows[t] EXCEPT !.revoked = TRUE] ELSE rows[t]
  BY DEF Revoke
<1>3. rows' \in [Tokens -> Row \cup {None}]
  BY <1>1 DEF Revoke
<1>4. QED BY <1>1, <1>2, <1>3, NoneIsNoRow

\* What the transaction of a rotation does: the row of the old token is revoked,
\* the new one is there, and no other row changes.
LEMMA RotateEffect ==
  ASSUME TypeOK, NEW i \in Calls, RefreshRotate(i), found[i] \in Users,
         call[i].token \in Tokens, Issued(call[i].token)
  PROVE  \E n \in Tokens :
           /\ Fresh(n) /\ n # call[i].token
           /\ rows' \in [Tokens -> Row \cup {None}]
           /\ rows'[n] = [userId |-> found[i], revoked |-> FALSE, expired |-> FALSE]
           /\ rows'[n] # None
           /\ \A t \in Tokens \ {n} :
                /\ (rows'[t] # None) <=> (rows[t] # None)
                /\ rows[t] # None =>
                     /\ rows'[t].userId = rows[t].userId
                     /\ rows'[t].expired = rows[t].expired
                     /\ rows'[t].revoked = (t = call[i].token \/ rows[t].revoked)
           /\ origin' = [origin EXCEPT ![n] = origin[call[i].token]]
           /\ raced' = IF Unrevoked(call[i].token) THEN raced
                         ELSE raced \cup {origin[call[i].token]}
           /\ swapped' = swapped \cup {call[i].token} /\ ended' = ended
           /\ held' \subseteq held \cup {n}
<1> DEFINE t0 == call[i].token
           new == [userId |-> found[i], revoked |-> FALSE, expired |-> FALSE]
           old == IF rows[t0] = None THEN None ELSE [rows[t0] EXCEPT !.revoked = TRUE]
<1>1. PICK n \in Tokens :
        /\ Fresh(n)
        /\ rows' = [rows EXCEPT ![t0] = old, ![n] = new]
        /\ origin' = [origin EXCEPT ![n] = origin[t0]]
        /\ raced' = IF rows[t0] = None \/ rows[t0].revoked
                      THEN raced \cup {origin[t0]} ELSE raced
        /\ held' \subseteq held \cup {n}
  <2>1. PICK n \in Tokens :
        /\ Fresh(n)
        /\ rows' = [rows EXCEPT
             ![t0] = IF @ = None THEN None ELSE [@ EXCEPT !.revoked = TRUE],
             ![n] = new]
        /\ origin' = [origin EXCEPT ![n] = origin[t0]]
        /\ raced' = IF rows[t0] = None \/ rows[t0].revoked
                      THEN raced \cup {origin[t0]} ELSE raced
        /\ held' = held \cup {n} \/ held' = held
    BY DEF RefreshRotate, Deliver
  <2>2. QED BY <2>1
<1>2. n # t0 BY <1>1 DEF Fresh, Issued
<1>3. rows[t0] # None =>
        /\ old \in Row /\ old.userId = rows[t0].userId
        /\ old.expired = rows[t0].expired /\ old.revoked = TRUE
  <2> SUFFICES ASSUME rows[t0] # None
               PROVE  /\ old \in Row /\ old.userId = rows[t0].userId
                      /\ old.expired = rows[t0].expired /\ old.revoked = TRUE
    OBVIOUS
  <2>1. rows[t0] \in Row BY DEF TypeOK
  <2>2. old = [rows[t0] EXCEPT !.revoked = TRUE] OBVIOUS
  <2>3. QED BY <2>1, <2>2 DEF Row
<1>4. new \in Row /\ new # None
  <2>1. new \in Row BY DEF Row
  <2> HIDE DEF new
  <2>2. QED BY <2>1, NoneIsNoRow
<1>5. /\ rows'[n] = new /\ rows'[t0] = old
      /\ \A t \in Tokens \ {n, t0} : rows'[t] = rows[t]
  BY <1>1, <1>2 DEF TypeOK
<1>6. rows' \in [Tokens -> Row \cup {None}]
  BY <1>1, <1>3, <1>4 DEF TypeOK
<1>7. \A t \in Tokens \ {n} :
        /\ (rows'[t] # None) <=> (rows[t] # None)
        /\ rows[t] # None =>
             /\ rows'[t].userId = rows[t].userId
             /\ rows'[t].expired = rows[t].expired
             /\ rows'[t].revoked = (t = t0 \/ rows[t].revoked)
  BY <1>3, <1>5, NoneIsNoRow DEF TypeOK, Row
<1>8. swapped' = swapped \cup {t0} /\ ended' = ended
  BY DEF RefreshRotate
<1>9. QED BY <1>1, <1>2, <1>4, <1>5, <1>6, <1>7, <1>8 DEF Unrevoked

\* Time passing takes nothing but the expired flag of one row.
LEMMA ExpireEffect ==
  ASSUME TypeOK, NEW t \in Tokens, Expire(t)
  PROVE  /\ rows' \in [Tokens -> Row \cup {None}]
         /\ \A s \in Tokens :
              /\ (rows'[s] # None) <=> (rows[s] # None)
              /\ rows[s] # None =>
                   /\ rows'[s].userId = rows[s].userId
                   /\ rows'[s].revoked = rows[s].revoked
                   /\ rows[s].expired => rows'[s].expired
<1> DEFINE old == [rows[t] EXCEPT !.expired = TRUE]
<1>1. rows[t] \in Row BY DEF Expire, TypeOK
<1>2. /\ old \in Row /\ old.userId = rows[t].userId
      /\ old.revoked = rows[t].revoked /\ old.expired = TRUE
  BY <1>1 DEF Row
<1>3. rows' = [rows EXCEPT ![t] = old] BY DEF Expire
<1>4. QED BY <1>1, <1>2, <1>3, NoneIsNoRow DEF TypeOK

\* Types and the fit of call and step, action by action.
LEMMA TypeStep ==
  ASSUME SessionInv, [Next]_vars
  PROVE  TypeOK' /\ \A i \in Calls : StepFitsCall(i)'
<1> USE DEF SessionInv, TypeOK, CallInv, DataInv, NamesAreIssued, StepFitsCall, Issued
<1> USE CallFields, NoneIsNoToken
<1>1. ASSUME NEW i \in Calls, NEW c \in LoginCalls \cup TokenCalls, Receive(i, c)
      PROVE  TypeOK' /\ \A j \in Calls : StepFitsCall(j)'
  BY <1>1 DEF Receive, Goto, history, Steps
<1>2. ASSUME NEW i \in Calls, LoginCheck(i)
      PROVE  TypeOK' /\ \A j \in Calls : StepFitsCall(j)'
  BY <1>2 DEF LoginCheck, Goto, End, memory, history, Steps, Answers
<1>3. ASSUME NEW i \in Calls, LoginStore(i)
      PROVE  TypeOK' /\ \A j \in Calls : StepFitsCall(j)'
  BY <1>3 DEF LoginStore, Goto, Fresh, Steps, Row
<1>4. ASSUME NEW i \in Calls, LoginTouch(i)
      PROVE  TypeOK' /\ \A j \in Calls : StepFitsCall(j)'
  BY <1>4 DEF LoginTouch, Deliver, End, history, Steps, Answers
<1>5. ASSUME NEW i \in Calls, RefreshFind(i)
      PROVE  TypeOK' /\ \A j \in Calls : StepFitsCall(j)'
  BY <1>5 DEF RefreshFind, Live, Goto, history, Steps, Row
<1>6. ASSUME NEW i \in Calls, RefreshExists(i)
      PROVE  TypeOK' /\ \A j \in Calls : StepFitsCall(j)'
  BY <1>6 DEF RefreshExists, Goto, End, history, Steps, Answers, Row
<1>7. ASSUME NEW i \in Calls, RefreshRevokeAll(i)
      PROVE  TypeOK' /\ \A j \in Calls : StepFitsCall(j)'
  <2>1. rows' \in [Tokens -> Row \cup {None}] BY <1>7, RevokeEffect DEF RefreshRevokeAll
  <2>2. ended' \subseteq Tokens \X {"logout", "reuse"}
    BY <1>7 DEF RefreshRevokeAll, OwnedBy
  <2>3. QED BY <1>7, <2>1, <2>2 DEF RefreshRevokeAll, End, Steps, Answers
<1>8. ASSUME NEW i \in Calls, RefreshRotate(i)
      PROVE  TypeOK' /\ \A j \in Calls : StepFitsCall(j)'
  <2>1. pc[i] = "rotate" BY <1>8 DEF RefreshRotate
  <2>2. PICK n \in Tokens :
          /\ rows' \in [Tokens -> Row \cup {None}]
          /\ origin' = [origin EXCEPT ![n] = origin[call[i].token]]
          /\ raced' \subseteq raced \cup {origin[call[i].token]}
          /\ swapped' = swapped \cup {call[i].token} /\ ended' = ended
          /\ held' \subseteq held \cup {n}
    BY <1>8, <2>1, RotateEffect
  <2>3. \E a \in Answers \cup {None} : End(i, a)
    BY <1>8 DEF RefreshRotate, Deliver, Answers
  <2>4. QED BY <2>1, <2>2, <2>3 DEF End, Steps
<1>9. ASSUME NEW i \in Calls, Logout(i)
      PROVE  TypeOK' /\ \A j \in Calls : StepFitsCall(j)'
  <2>1. rows' \in [Tokens -> Row \cup {None}] BY <1>9, RevokeEffect DEF Logout
  <2>2. QED BY <1>9, <2>1 DEF Logout, End, Steps, Answers
<1>10. ASSUME NEW i \in Calls, Fail(i)
       PROVE  TypeOK' /\ \A j \in Calls : StepFitsCall(j)'
  BY <1>10 DEF Fail, End, history, Steps, Answers
<1>11. ASSUME NEW t \in Tokens, Expire(t)
       PROVE  TypeOK' /\ \A j \in Calls : StepFitsCall(j)'
  <2>1. rows' \in [Tokens -> Row \cup {None}] BY <1>11, ExpireEffect
  <2>2. QED BY <1>11, <2>1 DEF Expire, memory, history
<1>12. CASE purgeExpired
  BY <1>12 DEF purgeExpired, memory, history
<1>13. CASE UNCHANGED vars
  BY <1>13 DEF vars
<1>14. QED
  BY <1>1, <1>2, <1>3, <1>4, <1>5, <1>6, <1>7, <1>8, <1>9, <1>10, <1>11, <1>12, <1>13
  DEF Next, Step

\* A rotation starts a new token in a session: the only step, with a login, that
\* adds a row.
LEMMA RotateKeepsData ==
  ASSUME SessionInv, NEW i \in Calls, RefreshRotate(i)
  PROVE  DataInv' /\ \A j \in Calls : FoundOwner(j)'
<1> DEFINE t0 == call[i].token
<1>1. /\ pc[i] = "rotate" /\ t0 \in Tokens /\ Issued(t0) /\ found[i] \in Users
      /\ StepFitsCall(i) /\ FoundOwner(i) /\ TypeOK
  BY CallFields DEF RefreshRotate, SessionInv, CallInv, StepFitsCall
<1>2. PICK n \in Tokens :
        /\ Fresh(n) /\ n # t0
        /\ rows'[n] = [userId |-> found[i], revoked |-> FALSE, expired |-> FALSE]
        /\ rows'[n] # None
        /\ \A t \in Tokens \ {n} :
             /\ (rows'[t] # None) <=> (rows[t] # None)
             /\ rows[t] # None =>
                  /\ rows'[t].userId = rows[t].userId
                  /\ rows'[t].revoked = (t = t0 \/ rows[t].revoked)
        /\ origin' = [origin EXCEPT ![n] = origin[t0]]
        /\ raced' = IF Unrevoked(t0) THEN raced ELSE raced \cup {origin[t0]}
        /\ swapped' = swapped \cup {t0} /\ ended' = ended
        /\ held' \subseteq held \cup {n}
  BY <1>1, RotateEffect
<1>3. /\ origin'[n] = origin[t0] /\ origin[n] = None
      /\ \A t \in Tokens \ {n} : origin'[t] = origin[t]
      /\ rows'[n].userId = found[i] /\ rows'[n].revoked = FALSE
  BY <1>1, <1>2 DEF TypeOK, Fresh
<1>4. /\ origin[t0] \in Tokens /\ origin[origin[t0]] = origin[t0] /\ origin[t0] # n
      /\ origin[t0] # None
  BY <1>1, <1>3, NoneIsNoToken DEF SessionInv, DataInv, NamesAreIssued, Issued
<1>5. /\ \A t \in Tokens \ {n} : Unrevoked(t)' => Unrevoked(t) /\ t # t0
      /\ rows[n] = None /\ n \notin swapped
  BY <1>2, <1>3 DEF Unrevoked, SessionInv, DataInv, NamesAreIssued, Issued
<1>6. NamesAreIssued'
  BY <1>2, <1>3, <1>4 DEF SessionInv, DataInv, NamesAreIssued, Issued
<1>7. OneAccount'
  <2> SUFFICES ASSUME NEW s \in Tokens, NEW t \in Tokens,
                      rows'[s] # None, rows'[t] # None, SameSession(s, t)'
               PROVE  rows'[s].userId = rows'[t].userId
    BY DEF OneAccount
  <2>1. CASE s # n /\ t # n
    BY <2>1, <1>2, <1>3 DEF SessionInv, DataInv, OneAccount, SameSession
  <2>2. CASE s = n /\ t # n
    BY <2>2, <1>1, <1>2, <1>3 DEF FoundOwner, SameSession
  <2>3. CASE s # n /\ t = n
    BY <2>3, <1>1, <1>2, <1>3 DEF FoundOwner, SameSession
  <2>4. QED BY <2>1, <2>2, <2>3
<1>8. SwappedIsRevoked'
  <2> SUFFICES ASSUME NEW t \in swapped', Unrevoked(t)' PROVE FALSE
    BY DEF SwappedIsRevoked
  <2>1. t \in swapped \cup {t0} /\ t \in Tokens \ {n} BY <1>1, <1>2, <1>5 DEF TypeOK
  <2>2. Unrevoked(t) /\ t # t0 BY <2>1, <1>5
  <2>3. QED BY <2>1, <2>2 DEF SessionInv, DataInv, SwappedIsRevoked
<1>9. OneUnrevoked'
  <2> SUFFICES ASSUME NEW s \in Tokens, NEW t \in Tokens,
                      Unrevoked(s)', Unrevoked(t)', SameSession(s, t)', s # t
               PROVE  origin'[s] \in raced'
    BY DEF OneUnrevoked
  <2>1. CASE s # n /\ t # n
    BY <2>1, <1>2, <1>3, <1>5 DEF SessionInv, DataInv, OneUnrevoked, SameSession
  <2>2. ASSUME NEW x \in Tokens, x # n, Unrevoked(x)', origin'[x] = origin[t0]
        PROVE  origin[t0] \in raced'
    BY <2>2, <1>1, <1>2, <1>3, <1>5 DEF SessionInv, DataInv, OneUnrevoked, SameSession
  <2>3. QED BY <2>1, <2>2, <1>3 DEF SameSession
<1>10. EndedIsRevoked'
  <2> SUFFICES ASSUME NEW t \in Tokens, NEW why \in {"logout", "reuse"},
                      Unrevoked(t)', <<origin'[t], why>> \in ended
               PROVE  origin'[t] \in raced'
    BY <1>2 DEF EndedIsRevoked
  <2>0. ASSUME NEW x \in Tokens, Unrevoked(x), <<origin[x], why>> \in ended
        PROVE  origin[x] \in raced'
    BY <2>0, <1>2 DEF SessionInv, DataInv, EndedIsRevoked
  <2>1. CASE t # n
    BY <2>0, <2>1, <1>3, <1>5
  <2>2. CASE t = n
    BY <2>0, <2>2, <1>1, <1>2, <1>3
  <2>3. QED BY <2>1, <2>2
<1>11. ASSUME NEW j \in Calls PROVE FoundOwner(j)'
  <2> SUFFICES ASSUME pc'[j] = "rotate" PROVE FoundOwner(j)' BY DEF FoundOwner
  <2>1. /\ \A k \in Calls : pc'[k] = "rotate" =>
             /\ k # i /\ pc[k] = "rotate" /\ call'[k] = call[k] /\ found'[k] = found[k]
             /\ call[k].token \in Tokens /\ Issued(call[k].token)
             /\ origin'[call[k].token] = origin[call[k].token]
    <3>1. \E a \in Answers \cup {None} : End(i, a)
      BY DEF RefreshRotate, Deliver, Answers
    <3>2. \A k \in Calls : pc'[k] = "rotate" =>
             k # i /\ pc[k] = "rotate" /\ call'[k] = call[k] /\ found'[k] = found[k]
      BY <3>1, <1>1 DEF End, TypeOK
    <3>3. \A k \in Calls : pc[k] = "rotate" =>
             call[k].token \in Tokens /\ Issued(call[k].token)
      BY CallFields DEF SessionInv, CallInv, StepFitsCall
    <3>4. QED BY <3>2, <3>3, <1>3 DEF Issued
  <2>2. FoundOwner(j) /\ pc[j] = "rotate"
    BY <2>1 DEF SessionInv, CallInv
  <2>3. ASSUME NEW t \in Tokens, rows'[t] # None, origin'[t] = origin'[call'[j].token]
        PROVE  rows'[t].userId = found'[j]
    <3>1. CASE t = n
      BY <3>1, <2>1, <2>2, <2>3, <1>1, <1>3 DEF FoundOwner
    <3>2. CASE t # n
      BY <3>2, <2>1, <2>2, <2>3, <1>2, <1>3 DEF FoundOwner
    <3>3. QED BY <3>1, <3>2
  <2>4. QED BY <2>1, <2>2, <2>3 DEF FoundOwner
<1>12. QED BY <1>6, <1>7, <1>8, <1>9, <1>10, <1>11 DEF DataInv

\* An UPDATE of rows of one account, which may end sessions of that account: a
\* logout, a detected reuse.
LEMMA RevokeKeepsData ==
  ASSUME SessionInv, NEW S \in SUBSET Tokens, Revoke(S),
         NEW why0 \in {"logout", "reuse"}, NEW names \in SUBSET Tokens,
         \A x \in names : Issued(x),
         \A t \in Tokens : Unrevoked(t) /\ origin[t] \in names =>
           t \in S \/ origin[t] \in raced,
         ended' = ended \cup {<<x, why0>> : x \in names},
         UNCHANGED <<held, swapped, origin, raced>>
  PROVE  DataInv'
<1>1. /\ \A t \in Tokens : (rows'[t] # None) <=> (rows[t] # None)
      /\ \A t \in Tokens : rows[t] # None => rows'[t].userId = rows[t].userId
      /\ \A t \in Tokens : Unrevoked(t)' => Unrevoked(t) /\ t \notin S
  BY RevokeEffect DEF SessionInv, TypeOK, Unrevoked
<1>2. NamesAreIssued'
  BY <1>1 DEF SessionInv, DataInv, NamesAreIssued, Issued
<1>3. OneAccount'
  BY <1>1 DEF SessionInv, DataInv, OneAccount, SameSession
<1>4. SwappedIsRevoked'
  BY <1>1 DEF SessionInv, DataInv, SwappedIsRevoked, TypeOK
<1>5. OneUnrevoked'
  BY <1>1 DEF SessionInv, DataInv, OneUnrevoked, SameSession
<1>6. EndedIsRevoked'
  <2> SUFFICES ASSUME NEW t \in Tokens, NEW why \in {"logout", "reuse"},
                      Unrevoked(t)', <<origin[t], why>> \in ended'
               PROVE  origin[t] \in raced
    BY DEF EndedIsRevoked
  <2>1. Unrevoked(t) /\ t \notin S BY <1>1
  <2>2. CASE <<origin[t], why>> \in ended
    BY <2>1, <2>2 DEF SessionInv, DataInv, EndedIsRevoked
  <2>3. CASE origin[t] \in names
    BY <2>1, <2>3
  <2>4. QED BY <2>2, <2>3
<1>7. QED BY <1>2, <1>3, <1>4, <1>5, <1>6 DEF DataInv

\* Expiry and purge take validity and rows away and add nothing.
LEMMA FadingKeepsData ==
  ASSUME SessionInv, UNCHANGED <<held, history>>,
         \A t \in Tokens : rows'[t] # None =>
           /\ rows[t] # None
           /\ rows'[t].userId = rows[t].userId
           /\ rows'[t].revoked = rows[t].revoked
  PROVE  DataInv'
<1>1. \A t \in Tokens : Unrevoked(t)' => Unrevoked(t) BY DEF Unrevoked
<1>2. NamesAreIssued' BY DEF SessionInv, DataInv, NamesAreIssued, Issued, history
<1>3. OneAccount' BY DEF SessionInv, DataInv, OneAccount, SameSession, history
<1>4. SwappedIsRevoked'
  BY <1>1 DEF SessionInv, DataInv, SwappedIsRevoked, TypeOK, history
<1>5. OneUnrevoked' BY <1>1 DEF SessionInv, DataInv, OneUnrevoked, SameSession, history
<1>6. EndedIsRevoked' BY <1>1 DEF SessionInv, DataInv, EndedIsRevoked, history
<1>7. QED BY <1>2, <1>3, <1>4, <1>5, <1>6 DEF DataInv

\* A login starts a session: no row, no call and no history knows its name.
LEMMA LoginKeepsData ==
  ASSUME SessionInv, NEW i \in Calls, LoginStore(i)
  PROVE  DataInv' /\ \A j \in Calls : FoundOwner(j)'
<1>1. PICK n \in Tokens :
        /\ Fresh(n)
        /\ rows' = [rows EXCEPT ![n] = [userId |-> call[i].user,
                                        revoked |-> FALSE, expired |-> FALSE]]
        /\ origin' = [origin EXCEPT ![n] = n]
  BY DEF LoginStore
<1>2. /\ origin[n] = None /\ origin'[n] = n
      /\ \A t \in Tokens \ {n} : origin'[t] = origin[t] /\ rows'[t] = rows[t]
      /\ UNCHANGED <<held, swapped, ended, raced>>
  BY <1>1 DEF LoginStore, Fresh, SessionInv, TypeOK
<1>3. \A t \in Tokens : origin[t] # n
  BY <1>2, NoneIsNoToken DEF SessionInv, DataInv, NamesAreIssued, Issued
<1>4. n \notin swapped /\ \A why \in {"logout", "reuse"} : <<n, why>> \notin ended
  BY <1>2 DEF SessionInv, DataInv, NamesAreIssued, Issued
<1>5. NamesAreIssued'
  BY <1>2, NoneIsNoToken DEF SessionInv, DataInv, NamesAreIssued, Issued
<1>6. OneAccount'
  BY <1>2, <1>3 DEF SessionInv, DataInv, OneAccount, SameSession
<1>7. SwappedIsRevoked'
  BY <1>2, <1>4 DEF SessionInv, DataInv, SwappedIsRevoked, TypeOK, Unrevoked
<1>8. OneUnrevoked'
  BY <1>2, <1>3 DEF SessionInv, DataInv, OneUnrevoked, SameSession, Unrevoked
<1>9. EndedIsRevoked'
  <2> SUFFICES ASSUME NEW t \in Tokens, NEW why \in {"logout", "reuse"},
                      Unrevoked(t)', <<origin'[t], why>> \in ended
               PROVE  origin'[t] \in raced
    BY <1>2 DEF EndedIsRevoked
  <2>1. t # n BY <1>2, <1>4
  <2>2. QED BY <2>1, <1>2 DEF SessionInv, DataInv, EndedIsRevoked, Unrevoked
<1>10. ASSUME NEW j \in Calls PROVE FoundOwner(j)'
  <2>1. \A k \in Calls : pc'[k] = "rotate" =>
          /\ pc[k] = "rotate" /\ call'[k] = call[k] /\ found'[k] = found[k]
          /\ call[k].token \in Tokens \ {n}
    BY <1>2, CallFields DEF LoginStore, Goto, SessionInv, TypeOK, CallInv, StepFitsCall, Issued
  <2>2. QED BY <2>1, <1>2, <1>3 DEF FoundOwner, SessionInv, CallInv
<1>11. QED BY <1>5, <1>6, <1>7, <1>8, <1>9, <1>10 DEF DataInv

\* A refresh on its way to its rotation keeps what it knows while rows fade.
LEMMA FoundOwnerKept ==
  ASSUME CallInv, origin' = origin,
         \A t \in Tokens : rows'[t] # None =>
           rows[t] # None /\ rows'[t].userId = rows[t].userId,
         \A k \in Calls : pc'[k] = "rotate" =>
           pc[k] = "rotate" /\ call'[k] = call[k] /\ found'[k] = found[k]
  PROVE  \A j \in Calls : FoundOwner(j)'
BY DEF CallInv, FoundOwner

\* A refresh goes on to its rotation: it takes the account from the valid row.
LEMMA FindKnowsOwner ==
  ASSUME SessionInv, NEW i \in Calls, RefreshFind(i)
  PROVE  \A j \in Calls : FoundOwner(j)'
<1> DEFINE t0 == call[i].token
<1>1. t0 \in Tokens /\ OnlyMemory /\ UNCHANGED call /\ pc \in [Calls -> {"idle"} \cup Steps]
  BY CallFields DEF RefreshFind, SessionInv, TypeOK, CallInv, StepFitsCall, OnlyMemory
<1>2. CASE Live(t0)
  <2>1. /\ rows[t0] # None /\ found'[i] = rows[t0].userId
        /\ \A k \in Calls \ {i} : pc'[k] = pc[k] /\ found'[k] = found[k]
    BY <1>2 DEF RefreshFind, Live, Goto, SessionInv, TypeOK
  <2>2. \A t \in Tokens : rows[t] # None /\ origin[t] = origin[t0] =>
          rows[t].userId = found'[i]
    BY <1>1, <2>1 DEF SessionInv, DataInv, OneAccount, SameSession
  <2>3. \A k \in Calls \ {i} :
          pc[k] = "rotate" /\ origin[call[k].token] = origin[t0] => found[k] = found'[i]
    BY <1>1, <2>1 DEF SessionInv, CallInv, FoundOwner
  <2>4. \A k \in Calls : FoundOwner(k) BY DEF SessionInv, CallInv
  <2>5. UNCHANGED <<rows, origin, call>> BY <1>1 DEF OnlyMemory, history
  <2>6. ASSUME NEW j \in Calls, pc'[j] = "rotate",
               NEW t \in Tokens, rows[t] # None, origin[t] = origin[call[j].token]
        PROVE  rows[t].userId = found'[j]
    BY <2>1, <2>2, <2>4, <2>6 DEF FoundOwner
  <2>7. ASSUME NEW j \in Calls, pc'[j] = "rotate", NEW k \in Calls, pc'[k] = "rotate",
               origin[call[k].token] = origin[call[j].token]
        PROVE  found'[k] = found'[j]
    BY <2>1, <2>3, <2>4, <2>7 DEF FoundOwner
  <2>8. QED BY <2>5, <2>6, <2>7 DEF FoundOwner
<1>3. CASE ~Live(t0)
  <2>1. \A k \in Calls : pc'[k] = "rotate" => pc[k] = "rotate" /\ found'[k] = found[k]
    BY <1>1, <1>3 DEF RefreshFind, Goto, SessionInv, TypeOK
  <2>2. QED BY <1>1, <2>1, FoundOwnerKept DEF SessionInv, OnlyMemory, history
<1>4. QED BY <1>2, <1>3

\* One step, action by action.
LEMMA DataStep ==
  ASSUME SessionInv, [Next]_vars
  PROVE  DataInv' /\ \A j \in Calls : FoundOwner(j)'
<1> DEFINE Goal == DataInv' /\ \A j \in Calls : FoundOwner(j)'
<1>0. /\ TypeOK /\ CallInv /\ DataInv /\ \A i \in Calls : StepFitsCall(i)
  BY DEF SessionInv, CallInv
<1>1. ASSUME OnlyMemory,
             \A k \in Calls : pc'[k] = "rotate" =>
               pc[k] = "rotate" /\ call'[k] = call[k] /\ found'[k] = found[k]
      PROVE  Goal
  BY <1>0, <1>1, MemoryStepKeepsData, FoundOwnerKept DEF OnlyMemory, history
<1>2. ASSUME NEW i \in Calls, NEW a, End(i, a), pc \in [Calls -> {"idle"} \cup Steps]
      PROVE  \A k \in Calls : pc'[k] = "rotate" =>
               pc[k] = "rotate" /\ call'[k] = call[k] /\ found'[k] = found[k]
  BY <1>0, <1>2 DEF End, TypeOK
<1>3. ASSUME NEW i \in Calls, NEW c \in LoginCalls \cup TokenCalls, Receive(i, c) PROVE Goal
  <2>1. OnlyMemory BY <1>3 DEF Receive, OnlyMemory
  <2>2. pc'[i] # "rotate" BY <1>0, <1>3, CallFields DEF Receive, Goto, TypeOK
  <2>3. \A k \in Calls \ {i} : pc'[k] = pc[k] /\ call'[k] = call[k] /\ found'[k] = found[k]
    BY <1>0, <1>3 DEF Receive, Goto, TypeOK
  <2>4. QED BY <1>1, <2>1, <2>2, <2>3
<1>4. ASSUME NEW i \in Calls, LoginCheck(i) PROVE Goal
  <2>1. OnlyMemory BY <1>4 DEF LoginCheck, OnlyMemory
  <2>2. CASE \E a \in Answers : End(i, a)
    BY <2>1, <2>2, <1>0, <1>1, <1>2 DEF TypeOK
  <2>3. CASE Goto(i, "store") /\ UNCHANGED memory
    BY <2>1, <2>3, <1>0, <1>1 DEF Goto, memory, TypeOK
  <2>4. QED BY <1>4, <2>2, <2>3 DEF LoginCheck, Answers
<1>5. ASSUME NEW i \in Calls, LoginStore(i) PROVE Goal
  BY <1>5, LoginKeepsData
<1>6. ASSUME NEW i \in Calls, LoginTouch(i) PROVE Goal
  <2>1. End(i, "OK") /\ UNCHANGED <<rows, history>> /\ held' = held \cup {issued[i]}
    BY <1>6 DEF LoginTouch, Deliver
  <2>2. issued[i] \in Tokens /\ Issued(issued[i])
    BY <1>0, <1>6 DEF LoginTouch, StepFitsCall
  <2>3. DataInv'
    BY <1>0, <2>1, <2>2 DEF DataInv, history, NamesAreIssued, OneAccount, SwappedIsRevoked,
      OneUnrevoked, EndedIsRevoked, Unrevoked, SameSession, Issued
  <2>4. QED BY <1>0, <1>2, <2>1, <2>3, FoundOwnerKept DEF TypeOK, history
<1>7. ASSUME NEW i \in Calls, RefreshFind(i) PROVE Goal
  <2>1. OnlyMemory BY <1>7 DEF RefreshFind, OnlyMemory
  <2>2. QED BY <1>0, <1>7, <2>1, MemoryStepKeepsData, FindKnowsOwner
<1>8. ASSUME NEW i \in Calls, RefreshExists(i) PROVE Goal
  <2>1. OnlyMemory BY <1>8 DEF RefreshExists, OnlyMemory
  <2>2. \A k \in Calls : pc'[k] = "rotate" =>
          pc[k] = "rotate" /\ call'[k] = call[k] /\ found'[k] = found[k]
    BY <1>0, <1>8 DEF RefreshExists, Goto, End, TypeOK
  <2>3. QED BY <1>1, <2>1, <2>2
<1>9. ASSUME NEW i \in Calls, RefreshRevokeAll(i) PROVE Goal
  <2> DEFINE S == OwnedBy(found[i])
             names == {origin[t] : t \in S}
  <2>1. /\ Revoke(S) /\ End(i, "INVALID_REFRESH_TOKEN")
        /\ ended' = ended \cup {<<origin[t], "reuse">> : t \in S}
        /\ UNCHANGED <<held, swapped, origin, raced>>
    BY <1>9 DEF RefreshRevokeAll
  <2>2. S \in SUBSET Tokens /\ \A t \in S : rows[t] # None /\ rows[t].userId = found[i]
    BY DEF OwnedBy
  <2>3. names \in SUBSET Tokens /\ \A x \in names : Issued(x)
    BY <1>0, <2>2, NoneIsNoToken DEF DataInv, NamesAreIssued, Issued
  <2>4. ended' = ended \cup {<<x, "reuse">> : x \in names} BY <2>1
  <2>5. \A t \in Tokens : Unrevoked(t) /\ origin[t] \in names => t \in S
    BY <1>0, <2>2 DEF DataInv, OneAccount, SameSession, Unrevoked, OwnedBy
  <2> HIDE DEF S, names
  <2>6. DataInv' BY <2>1, <2>2, <2>3, <2>4, <2>5, RevokeKeepsData
  <2>7. QED BY <1>0, <1>2, <2>1, <2>6, RevokeEffect, FoundOwnerKept DEF TypeOK
<1>10. ASSUME NEW i \in Calls, RefreshRotate(i) PROVE Goal
  BY <1>10, RotateKeepsData
<1>11. ASSUME NEW i \in Calls, Logout(i) PROVE Goal
  <2> DEFINE t0 == call[i].token
             names == IF Unrevoked(t0) THEN {origin[t0]} ELSE {}
  <2>1. /\ Revoke({t0}) /\ End(i, "OK") /\ t0 \in Tokens
        /\ ended' = IF Unrevoked(t0) THEN ended \cup {<<origin[t0], "logout">>} ELSE ended
        /\ UNCHANGED <<held, swapped, origin, raced>>
    BY <1>0, <1>11, CallFields DEF Logout, StepFitsCall, Unrevoked
  <2>2. names \in SUBSET Tokens /\ \A x \in names : Issued(x)
    BY <1>0, <2>1, NoneIsNoToken DEF DataInv, NamesAreIssued, Issued, Unrevoked
  <2>3. ended' = ended \cup {<<x, "logout">> : x \in names} BY <2>1
  <2>4. \A t \in Tokens : Unrevoked(t) /\ origin[t] \in names =>
          t \in {t0} \/ origin[t] \in raced
    BY <1>0, <2>1 DEF DataInv, OneUnrevoked, SameSession
  <2> HIDE DEF names
  <2>5. DataInv' BY <2>1, <2>2, <2>3, <2>4, RevokeKeepsData
  <2>6. QED BY <1>0, <1>2, <2>1, <2>5, RevokeEffect, FoundOwnerKept DEF TypeOK
<1>12. ASSUME NEW i \in Calls, Fail(i) PROVE Goal
  <2>1. OnlyMemory /\ \E a : End(i, a) BY <1>12 DEF Fail, OnlyMemory
  <2>2. QED BY <1>0, <1>1, <1>2, <2>1 DEF TypeOK
<1>13. ASSUME NEW t \in Tokens, Expire(t) PROVE Goal
  <2>1. UNCHANGED <<pc, call, found, held, history>> BY <1>13 DEF Expire, memory
  <2>2. DataInv' BY <1>0, <1>13, <2>1, ExpireEffect, FadingKeepsData
  <2>3. QED BY <1>0, <1>13, <2>1, <2>2, ExpireEffect, FoundOwnerKept DEF history
<1>14. CASE purgeExpired
  <2>1. /\ UNCHANGED <<pc, call, found, held, history>>
        /\ \A t \in Tokens : rows'[t] # None => rows[t] # None /\ rows'[t] = rows[t]
    BY <1>14 DEF purgeExpired, memory
  <2>2. DataInv' BY <2>1, FadingKeepsData
  <2>3. QED BY <1>0, <2>1, <2>2, FoundOwnerKept DEF history
<1>15. CASE UNCHANGED vars
  BY <1>0, <1>1, <1>15 DEF vars, OnlyMemory, history
<1>16. QED
  BY <1>3, <1>4, <1>5, <1>6, <1>7, <1>8, <1>9, <1>10, <1>11, <1>12, <1>13, <1>14, <1>15
  DEF Next, Step
-----------------------------------------------------------------------------
\* The inductive invariant holds in every reachable state.
THEOREM SessionInvariant == Spec => []SessionInv
<1>1. SessionInv /\ [Next]_vars => SessionInv'
  BY TypeStep, DataStep DEF SessionInv, CallInv
<1>2. QED BY <1>1, InitInv, PTL DEF Spec

\* Type correctness, for any number of accounts, tokens and calls.
THEOREM TypeCorrect == Spec => []TypeOK
<1>1. SessionInv => TypeOK BY DEF SessionInv
<1>2. QED BY <1>1, SessionInvariant, PTL

\* A token that was exchanged is never valid next to the one it was exchanged for.
THEOREM ExchangedTokensAreDead == Spec => []ExchangedIsDead
<1>1. SessionInv => ExchangedIsDead
  BY DEF SessionInv, DataInv, SwappedIsRevoked, ExchangedIsDead, Unrevoked, Live
<1>2. QED BY <1>1, SessionInvariant, PTL

\* Two valid tokens in one session need a rotation that raced with the death of
\* its own token.
THEOREM SessionsHaveOneLiveToken == Spec => []OneLiveTokenUnlessRaced
<1>1. SessionInv => OneLiveTokenUnlessRaced
  BY DEF SessionInv, DataInv, OneUnrevoked, OneLiveTokenUnlessRaced, Unrevoked, Live
<1>2. QED BY <1>1, SessionInvariant, PTL

\* A valid token in a session that was ended needs the same race.
THEOREM EndedSessionsStayEnded == Spec => []EndedUnlessRaced
<1>1. SessionInv => EndedUnlessRaced
  BY DEF SessionInv, DataInv, EndedIsRevoked, EndedUnlessRaced, Unrevoked, Live
<1>2. QED BY <1>1, SessionInvariant, PTL

\* Nobody loses a valid token to a token of somebody else.
THEOREM OnlyOwnersLoseSessions == Spec => OnlyOwnSessionsRevoked
<1> DEFINE Loses(t) == Live(t) /\ rows'[t] # None /\ rows'[t].revoked
           Owns(t, i) ==
             /\ pc[i] \in {"rotate", "revoke", "revokeAll"} /\ pc'[i] = "idle"
             /\ rows[t].userId =
                  IF pc[i] = "revoke" THEN rows[call[i].token].userId ELSE found[i]
<1>1. ASSUME SessionInv, [Next]_vars, NEW t \in Tokens, Loses(t)
      PROVE  \E i \in Calls : Owns(t, i)
  <2>0. TypeOK /\ \A i \in Calls : StepFitsCall(i) /\ FoundOwner(i)
    BY <1>1 DEF SessionInv, CallInv
  <2>1. rows'[t] # rows[t] /\ rows[t] # None /\ ~rows[t].revoked BY <1>1 DEF Live
  <2>2. ASSUME NEW i \in Calls, RefreshRotate(i) PROVE Owns(t, i)
    <3>1. /\ pc[i] = "rotate" /\ \E a : End(i, a)
          /\ call[i].token \in Tokens /\ Issued(call[i].token) /\ found[i] \in Users
      BY <2>0, <2>2, CallFields DEF RefreshRotate, Deliver, StepFitsCall
    <3>2. t = call[i].token
      <4>1. PICK n \in Tokens :
              /\ Fresh(n) /\ n # call[i].token
              /\ rows'[n] # None
              /\ \A x \in Tokens \ {n} :
                   /\ (rows'[x] # None) <=> (rows[x] # None)
                   /\ rows[x] # None =>
                        /\ rows'[x].userId = rows[x].userId
                        /\ rows'[x].expired = rows[x].expired
                        /\ rows'[x].revoked = (x = call[i].token \/ rows[x].revoked)
        <5> HIDE DEF Loses, Owns
        <5>1. TypeOK BY <2>0
        <5>2. call[i].token \in Tokens /\ Issued(call[i].token) /\ found[i] \in Users BY <3>1
        <5>3. QED BY <5>1, <5>2, <2>2, RotateEffect
      <4>2. t # n
        BY <1>1, <2>1, <4>1 DEF SessionInv, DataInv, NamesAreIssued, Fresh, Issued
      <4>3. QED BY <1>1, <2>1, <4>1, <4>2
    <3>3. QED BY <2>0, <2>1, <3>1, <3>2 DEF FoundOwner, End, TypeOK
  <2>3. ASSUME NEW i \in Calls, RefreshRevokeAll(i) PROVE Owns(t, i)
    BY <1>1, <2>0, <2>1, <2>3 DEF RefreshRevokeAll, Revoke, OwnedBy, End, TypeOK
  <2>4. ASSUME NEW i \in Calls, Logout(i) PROVE Owns(t, i)
    BY <1>1, <2>0, <2>1, <2>4 DEF Logout, Revoke, End, TypeOK
  <2>5. ASSUME NEW i \in Calls, LoginStore(i) PROVE FALSE
    BY <1>1, <2>0, <2>1, <2>5 DEF LoginStore, Fresh, SessionInv, DataInv, NamesAreIssued, Issued, TypeOK
  <2>6. ASSUME NEW s \in Tokens, Expire(s) PROVE FALSE
    BY <1>1, <2>0, <2>1, <2>6, ExpireEffect
  <2>7. CASE purgeExpired BY <1>1, <2>1, <2>7 DEF purgeExpired
  <2>8. CASE UNCHANGED rows BY <2>1, <2>8
  <2>9. QED
    BY <1>1, <2>2, <2>3, <2>4, <2>5, <2>6, <2>7, <2>8
    DEF Next, Step, Receive, LoginCheck, LoginTouch, RefreshFind, RefreshExists, Fail, vars
<1>2. SessionInv /\ [Next]_vars =>
        [\A t \in Tokens : Loses(t) => \E i \in Calls : Owns(t, i)]_vars
  BY <1>1
<1>3. QED BY <1>2, SessionInvariant, PTL DEF Spec, OnlyOwnSessionsRevoked
-----------------------------------------------------------------------------
\* The ledger, read off the table.
LiveOf(u) == {t \in OwnedBy(u) : Live(t)}
LiveTokens == [u \in Users |-> LiveOf(u)]
UsedTokens == {t \in Tokens : Issued(t)}

LEMMA LedgerInit == Init => Ledger!Init
BY DEF Init, Ledger!Init, OwnedBy, Live

\* A step after which every row is at most as valid as before, and only rows of
\* account u are less so, is a Drop.
LEMMA DropStep ==
  ASSUME NEW u \in Users, UNCHANGED origin,
         \A t \in Tokens : rows'[t] # None =>
           rows[t] # None /\ rows'[t].userId = rows[t].userId,
         \A t \in Tokens : Live(t)' => Live(t),
         \A t \in Tokens : Live(t) /\ ~Live(t)' => rows[t].userId = u
  PROVE  \E S \in SUBSET Tokens : Ledger!Drop(u, S)
<1> DEFINE S == {t \in Tokens : ~Live(t)'}
<1>1. LiveTokens' = [LiveTokens EXCEPT ![u] = @ \ S]
  <2>1. ASSUME NEW v \in Users
        PROVE  LiveOf(v)' = IF v = u THEN LiveOf(v) \ S ELSE LiveOf(v)
    BY DEF LiveOf, OwnedBy, Live
  <2>2. QED BY <2>1 DEF LiveTokens
<1>2. UsedTokens' = UsedTokens BY DEF UsedTokens, Issued
<1>3. QED BY <1>1, <1>2 DEF Ledger!Drop, LiveTokens, LiveOf, UsedTokens, Issued

\* A step that adds a valid row n for account u, and makes at most the row t0 of
\* the same account less valid, is a Login or an Exchange.
LEMMA AdmitStep ==
  ASSUME NEW u \in Users, NEW n \in Tokens, NEW S \in SUBSET Tokens,
         Fresh(n), origin'[n] # None, \A t \in Tokens \ {n} : origin'[t] = origin[t],
         rows'[n] # None, Live(n)', rows'[n].userId = u, rows[n] = None, n \notin S,
         \A t \in Tokens \ {n} : (rows'[t] # None) <=> (rows[t] # None),
         \A t \in Tokens \ {n} : rows[t] # None => rows'[t].userId = rows[t].userId,
         \A t \in Tokens \ {n} : Live(t)' <=> (Live(t) /\ t \notin S),
         \A t \in S : Live(t) => rows[t].userId = u
  PROVE  Ledger!Admit(u, n, S)
<1>1. LiveTokens' = [LiveTokens EXCEPT ![u] = (@ \ S) \cup {n}]
  <2>1. ASSUME NEW v \in Users
        PROVE  LiveOf(v)' = IF v = u THEN (LiveOf(v) \ S) \cup {n} ELSE LiveOf(v)
    BY DEF LiveOf, OwnedBy, Live
  <2>2. QED BY <2>1 DEF LiveTokens
<1>2. UsedTokens' = UsedTokens \cup {n} /\ n \notin UsedTokens
  BY NoneIsNoToken DEF UsedTokens, Issued, Fresh
<1>3. QED BY <1>1, <1>2 DEF Ledger!Admit, LiveTokens, LiveOf, UsedTokens, Issued

LEMMA RevokeLive ==
  ASSUME NEW S \in SUBSET Tokens, TypeOK, Revoke(S)
  PROVE  \A t \in Tokens : Live(t)' <=> (Live(t) /\ t \notin S)
<1> SUFFICES ASSUME NEW t \in Tokens PROVE Live(t)' <=> (Live(t) /\ t \notin S)
  OBVIOUS
<1>1. /\ (rows'[t] # None) <=> (rows[t] # None)
      /\ rows[t] # None => /\ rows'[t].expired = rows[t].expired
                           /\ rows'[t].revoked = (t \in S \/ rows[t].revoked)
  BY RevokeEffect DEF TypeOK
<1>2. QED BY <1>1 DEF Live

\* Every step of the service is a step of the ledger, or changes nothing there.
LEMMA LedgerStep ==
  ASSUME SessionInv, [Next]_vars
  PROVE  [Ledger!Next]_(Ledger!vars)
<1> DEFINE Goal == [Ledger!Next]_(Ledger!vars)
<1>0. /\ TypeOK /\ NamesAreIssued /\ \A i \in Calls : StepFitsCall(i) /\ FoundOwner(i)
  BY DEF SessionInv, CallInv, DataInv
<1>1. ASSUME UNCHANGED <<rows, origin>> PROVE Goal
  BY <1>1 DEF Ledger!vars, OwnedBy, Live
<1>2. ASSUME NEW u \in Users, \E S \in SUBSET Tokens : Ledger!Drop(u, S) PROVE Goal
  BY <1>2 DEF Ledger!Next
<1>3. ASSUME NEW i \in Calls, LoginStore(i) PROVE Goal
  <2>1. PICK n \in Tokens :
          /\ Fresh(n)
          /\ rows' = [rows EXCEPT ![n] = [userId |-> call[i].user,
                                          revoked |-> FALSE, expired |-> FALSE]]
          /\ origin' = [origin EXCEPT ![n] = n]
    BY <1>3 DEF LoginStore
  <2>2. call[i].user \in Users
    BY <1>0, <1>3, CallFields DEF LoginStore, StepFitsCall
  <2> DEFINE new == [userId |-> call[i].user, revoked |-> FALSE, expired |-> FALSE]
  <2>3. new # None
    <3>1. new \in Row BY <2>2 DEF Row
    <3> HIDE DEF new
    <3>2. QED BY <3>1, NoneIsNoRow
  <2>4. /\ rows'[n] = new /\ \A t \in Tokens \ {n} : rows'[t] = rows[t]
        /\ rows[n] = None
        /\ origin'[n] # None /\ \A t \in Tokens \ {n} : origin'[t] = origin[t]
    BY <1>0, <2>1, NoneIsNoToken DEF TypeOK, NamesAreIssued, Issued, Fresh
  <2>5. Ledger!Admit(call[i].user, n, {})
    BY <1>0, <2>1, <2>2, <2>3, <2>4, AdmitStep DEF TypeOK, Live
  <2>6. QED BY <2>2, <2>5 DEF Ledger!Next, Ledger!Login
<1>4. ASSUME NEW i \in Calls, RefreshRotate(i) PROVE Goal
  <2> DEFINE t0 == call[i].token
  <2>1. /\ pc[i] = "rotate" /\ t0 \in Tokens /\ Issued(t0) /\ found[i] \in Users
        /\ FoundOwner(i)
    BY <1>0, <1>4, CallFields DEF RefreshRotate, StepFitsCall
  <2>2. PICK n \in Tokens :
          /\ Fresh(n) /\ n # t0
          /\ rows'[n] = [userId |-> found[i], revoked |-> FALSE, expired |-> FALSE]
          /\ rows'[n] # None
          /\ \A t \in Tokens \ {n} :
               /\ (rows'[t] # None) <=> (rows[t] # None)
               /\ rows[t] # None =>
                    /\ rows'[t].userId = rows[t].userId
                    /\ rows'[t].expired = rows[t].expired
                    /\ rows'[t].revoked = (t = t0 \/ rows[t].revoked)
          /\ origin' = [origin EXCEPT ![n] = origin[t0]]
    BY <1>0, <1>4, <2>1, RotateEffect
  <2>3. rows[n] = None /\ origin[t0] \in Tokens
    BY <1>0, <2>1, <2>2 DEF NamesAreIssued, Issued, Fresh
  <2>4. \A t \in Tokens \ {n} : Live(t)' <=> (Live(t) /\ t \notin {t0})
    <3> SUFFICES ASSUME NEW t \in Tokens \ {n} PROVE Live(t)' <=> (Live(t) /\ t # t0)
      OBVIOUS
    <3>1. CASE rows[t] = None BY <2>2, <3>1 DEF Live
    <3>2. CASE rows[t] # None
      <4>1. rows'[t] # None /\ rows'[t].expired = rows[t].expired
            /\ rows'[t].revoked = (t = t0 \/ rows[t].revoked)
        BY <2>2, <3>2
      <4>2. QED BY <3>2, <4>1 DEF Live
    <3>3. QED BY <3>1, <3>2
  <2>5. Live(n)' /\ rows'[n].userId = found[i] BY <2>2 DEF Live
  <2>6. Live(t0) => rows[t0].userId = found[i] BY <2>1 DEF Live, FoundOwner
  <2>7. /\ {t0} \in SUBSET Tokens /\ n \notin {t0}
        /\ \A t \in {t0} : Live(t) => rows[t].userId = found[i]
        /\ \A t \in Tokens \ {n} : (rows'[t] # None) <=> (rows[t] # None)
        /\ \A t \in Tokens \ {n} : rows[t] # None => rows'[t].userId = rows[t].userId
        /\ origin'[n] # None /\ \A t \in Tokens \ {n} : origin'[t] = origin[t]
    BY <1>0, <2>1, <2>2, <2>3, <2>6, NoneIsNoToken DEF TypeOK
  <2>8. PICK u \in Users, t \in Tokens : u = found[i] /\ t = t0 BY <2>1
  <2>9. /\ {t} \in SUBSET Tokens /\ n \notin {t}
        /\ rows'[n].userId = u /\ Fresh(n) /\ rows'[n] # None
        /\ \A x \in {t} : Live(x) => rows[x].userId = u
        /\ \A x \in Tokens \ {n} : Live(x)' <=> (Live(x) /\ x \notin {t})
    BY <2>2, <2>4, <2>5, <2>6, <2>8
  <2>10. Ledger!Admit(u, n, {t})
    BY <2>3, <2>5, <2>7, <2>9, AdmitStep
  <2>11. QED BY <2>10 DEF Ledger!Next, Ledger!Exchange
<1>5. ASSUME NEW i \in Calls, RefreshRevokeAll(i) PROVE Goal
  <2>1. /\ Revoke(OwnedBy(found[i])) /\ found[i] \in Users /\ UNCHANGED origin
    BY <1>0, <1>5 DEF RefreshRevokeAll, StepFitsCall
  <2>2. \E S \in SUBSET Tokens : Ledger!Drop(found[i], S)
    <3>1. \A t \in Tokens : Live(t) /\ ~Live(t)' => rows[t].userId = found[i]
      BY <1>0, <2>1, RevokeLive DEF OwnedBy
    <3>2. OwnedBy(found[i]) \in SUBSET Tokens BY DEF OwnedBy
    <3>3. \A t \in Tokens : Live(t)' => Live(t) BY <1>0, <2>1, <3>2, RevokeLive
    <3>4. \A t \in Tokens : rows'[t] # None =>
            rows[t] # None /\ rows'[t].userId = rows[t].userId
      BY <1>0, <2>1, RevokeEffect DEF TypeOK
    <3>5. QED BY <2>1, <3>1, <3>3, <3>4, DropStep
  <2>3. QED BY <1>2, <2>1, <2>2
<1>6. ASSUME NEW i \in Calls, Logout(i) PROVE Goal
  <2> DEFINE t0 == call[i].token
  <2>1. Revoke({t0}) /\ t0 \in Tokens /\ UNCHANGED origin
    BY <1>0, <1>6, CallFields DEF Logout, StepFitsCall
  <2>2. CASE Live(t0)
    <3>1. rows[t0].userId \in Users BY <1>0, <2>1, <2>2 DEF TypeOK, Live, Row
    <3>2. \E S \in SUBSET Tokens : Ledger!Drop(rows[t0].userId, S)
      <4>1. \A t \in Tokens : Live(t) /\ ~Live(t)' => rows[t].userId = rows[t0].userId
        BY <1>0, <2>1, RevokeLive
      <4>2. QED BY <1>0, <2>1, <3>1, <4>1, RevokeEffect, RevokeLive, DropStep DEF TypeOK
    <3>3. QED BY <1>2, <3>1, <3>2
  <2>3. CASE ~Live(t0)
    <3>1. \A t \in Tokens : Live(t)' <=> Live(t)
      BY <1>0, <2>1, <2>3, RevokeLive
    <3>2. \A u \in Users : {t \in OwnedBy(u)' : Live(t)'} = {t \in OwnedBy(u) : Live(t)}
      BY <1>0, <2>1, <3>1, RevokeEffect DEF TypeOK, OwnedBy, Live
    <3>3. QED BY <2>1, <3>2 DEF Ledger!vars
  <2>4. QED BY <2>2, <2>3
<1>7. ASSUME NEW t \in Tokens, Expire(t) PROVE Goal
  <2>1. rows[t] # None /\ UNCHANGED origin BY <1>7 DEF Expire, history
  <2>2. rows[t].userId \in Users BY <1>0, <2>1 DEF TypeOK, Row
  <2>3. \A s \in Tokens \ {t} : rows'[s] = rows[s] BY <1>0, <1>7 DEF Expire, TypeOK
  <2>4. \E S \in SUBSET Tokens : Ledger!Drop(rows[t].userId, S)
    BY <1>0, <1>7, <2>1, <2>2, <2>3, ExpireEffect, DropStep DEF Live
  <2>5. QED BY <1>2, <2>2, <2>4
<1>8. CASE purgeExpired
  <2>1. /\ UNCHANGED origin
        /\ \A t \in Tokens : rows'[t] = IF rows[t] # None /\ rows[t].expired
                                           THEN None ELSE rows[t]
    BY <1>8 DEF purgeExpired, history
  <2>2. \A u \in Users : {t \in OwnedBy(u)' : Live(t)'} = {t \in OwnedBy(u) : Live(t)}
    BY <2>1 DEF OwnedBy, Live
  <2>3. QED BY <2>1, <2>2 DEF Ledger!vars
<1>9. QED
  BY <1>1, <1>3, <1>4, <1>5, <1>6, <1>7, <1>8
  DEF Next, Step, Receive, LoginCheck, LoginTouch, RefreshFind, RefreshExists, Fail, vars, history

\* bliss-auth, with its races, lost answers and purges, implements the ledger.
THEOREM SessionsImplementLedger == Spec => ImplementsLedger
<1>1. SessionInv /\ [Next]_vars => [Ledger!Next]_(Ledger!vars)
  BY LedgerStep
<1>2. QED BY <1>1, LedgerInit, SessionInvariant, PTL DEF Spec, ImplementsLedger, Ledger!Spec

\* A token that was exchanged, revoked or left to expire is never valid again,
\* although a session that ended may get a new token.
THEOREM DeadTokensStayDead == Spec => Ledger!NoRevival
BY SessionsImplementLedger, Ledger!TokensStayDead, PTL DEF ImplementsLedger
=============================================================================
