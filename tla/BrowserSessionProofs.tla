------------------------- MODULE BrowserSessionProofs -------------------------
(***************************************************************************)
(* The invariants of BrowserSession for any number of tabs and tokens. The *)
(* argument: as long as no two credential calls overlap and none is lost,  *)
(* there is at most one call on its way; until its answer is there the only*)
(* token that can be valid is the stored one, and from then on it is the   *)
(* token of the answer.                                                    *)
(***************************************************************************)
EXTENDS BrowserSession, TLAPS

Waiting(t, op) == sent[t][op] # None /\ sent[t][op].reply = "waiting"
SomeReply == \E t \in Tabs, op \in Ops : Replied(t, op)

OneCall ==
  \A t, u \in Tabs : \A o, p \in Ops :
    sent[t][o] # None /\ sent[u][p] # None => t = u /\ o = p

\* Where the valid tokens are while nothing overlaps and nothing is lost.
Tidy ==
  /\ strays = {}
  /\ OneCall
  /\ ~SomeReply => live \subseteq {stored}
  /\ \A t \in Tabs, op \in Ops : Replied(t, op) => live \subseteq {sent[t][op].reply}
  /\ \A t \in Tabs : sent[t]["login"] # None => stored = None
  /\ \A t \in Tabs, op \in Ops :
       Waiting(t, op) /\ op # "login" => sent[t][op].carries = stored /\ stored # None
  /\ \A t \in Tabs, op \in Logouts : Replied(t, op) => sent[t][op].reply \notin Tokens

\* And they are valid indeed while no token expires.
Fresh ==
  /\ ~SomeReply /\ stored # None => stored \in live
  /\ \A t \in Tabs, op \in Ops :
       Replied(t, op) /\ sent[t][op].reply \in Tokens => sent[t][op].reply \in live

\* A tab that restores has its restore on the way.
Restoring == \A t \in Tabs : loading[t] => sent[t]["restore"] # None

\* Users and good access tokens come and go together, and no user waits for a
\* login or a restore.
Signed ==
  \A t \in Tabs :
    /\ ~doomed[t]
    /\ user[t] => access[t] = "good"
    /\ sent[t]["restore"] # None \/ sent[t]["login"] # None => ~user[t]

BrowserInv ==
  /\ TypeOK
  /\ Restoring
  /\ "disturbed" \notin causes => Tidy
  /\ causes \subseteq {"idle"} => Fresh
  /\ causes \cap {"disturbed", "idle"} = {} => Signed
-----------------------------------------------------------------------------
TabsOK ==
  /\ user \in [Tabs -> BOOLEAN] /\ loading \in [Tabs -> BOOLEAN]
  /\ access \in [Tabs -> AccessTokens] /\ page \in [Tabs -> Pages]
  /\ \A t \in Tabs : ~loading[t] => page[t] = Redirected(page[t], FALSE, user[t])

ServerOK == live \subseteq used /\ used \subseteq Tokens

\* Type correctness, as the tabs' part and the server's.
LEMMA TypeParts ==
  TypeOK <=> /\ TabsOK /\ ServerOK
             /\ stored \in Tokens \cup {None}
             /\ sent \in [Tabs -> [Ops -> Call \cup {None}]]
             /\ doomed \in [Tabs -> BOOLEAN]
             /\ strays \subseteq [op : Ops, carries : Tokens \cup {None}]
             /\ opens \in 0 .. MaxOpens
             /\ causes \subseteq {"disturbed", "expired", "idle"}
BY DEF TypeOK, TabsOK, ServerOK

\* A tab that renders holds what it can hold, and both redirects were taken.
LEMMA RenderType ==
  ASSUME TabsOK, NEW t \in Tabs, NEW u \in BOOLEAN, NEW a \in AccessTokens,
         NEW l \in BOOLEAN, NEW p \in Pages, Render(t, u, a, l, p)
  PROVE  TabsOK'
<1>1. Redirected(p, l, u) \in Pages BY DEF Redirected, Pages
<1>2. ~l => Redirected(p, l, u) = Redirected(Redirected(p, l, u), FALSE, u)
  BY DEF Redirected
<1>3. QED BY <1>1, <1>2 DEF TabsOK, Render, Redirected

\* A call that is sent, or whose reply arrives, is a call.
LEMMA SendType ==
  ASSUME sent \in [Tabs -> [Ops -> Call \cup {None}]], NEW t \in Tabs, NEW op \in Ops,
         NEW what \in Tokens \cup {None}, Send(t, op, what)
  PROVE  sent' \in [Tabs -> [Ops -> Call \cup {None}]]
<1>1. [carries |-> what, reply |-> "waiting"] \in Call BY DEF Call, Replies
<1>2. QED BY <1>1 DEF Send

\* A call that was sent stays a call when it is answered.
LEMMA ReplyType ==
  ASSUME sent \in [Tabs -> [Ops -> Call \cup {None}]], NEW t \in Tabs, NEW op \in Ops,
         sent[t][op] # None, NEW r \in Replies, sent' = [sent EXCEPT ![t][op].reply = r]
  PROVE  /\ sent' \in [Tabs -> [Ops -> Call \cup {None}]]
         /\ sent'[t][op] = [carries |-> sent[t][op].carries, reply |-> r]
         /\ \A u \in Tabs, o \in Ops : u # t \/ o # op => sent'[u][o] = sent[u][o]
<1>1. sent[t][op] \in Call OBVIOUS
<1>2. [sent[t][op] EXCEPT !.reply = r] = [carries |-> sent[t][op].carries, reply |-> r]
  BY <1>1 DEF Call
<1>3. [carries |-> sent[t][op].carries, reply |-> r] \in Call BY <1>1 DEF Call
<1>4. QED BY <1>2, <1>3

\* The server issues tokens and makes valid only those it issues.
LEMMA ServeType ==
  ASSUME ServerOK, NEW op \in Ops, NEW what, NEW reply \in Replies, Serve(op, what, reply)
  PROVE  ServerOK'
BY DEF ServerOK, Serve, Admit, server

\* Every step keeps the types, and the page in agreement with the user.
LEMMA TypeStep == TypeOK /\ [Next]_vars => TypeOK'
<1> SUFFICES ASSUME TypeOK, [Next]_vars PROVE TypeOK'
  OBVIOUS
<1> USE DEF Ops
<1>0. /\ TabsOK /\ ServerOK /\ stored \in Tokens \cup {None}
      /\ sent \in [Tabs -> [Ops -> Call \cup {None}]]
      /\ doomed \in [Tabs -> BOOLEAN]
      /\ strays \subseteq [op : Ops, carries : Tokens \cup {None}]
      /\ opens \in 0 .. MaxOpens /\ causes \subseteq {"disturbed", "expired", "idle"}
  BY TypeParts
<1>a. Crossing \subseteq {"disturbed", "expired", "idle"} BY <1>0 DEF Crossing
<1>1. ASSUME NEW t \in Tabs, NEW p \in Pages, Open(t, p) PROVE TypeOK'
  <2>1. TabsOK' BY <1>0, <1>1, RenderType DEF Open, AccessTokens
  <2>2. sent' \in [Tabs -> [Ops -> Call \cup {None}]]
    <3>1. stored # None => [carries |-> stored, reply |-> "waiting"] \in Call
      BY <1>0 DEF Call, Replies
    <3>2. QED BY <1>0, <1>1, <3>1 DEF Open
  <2>3. strays' \subseteq [op : Ops, carries : Tokens \cup {None}]
    BY <1>0, <1>1 DEF Open, InFlight, Call
  <2>4. opens' \in 0 .. MaxOpens BY <1>0, <1>1, OpensAreCounted DEF Open
  <2>5. causes' \subseteq {"disturbed", "expired", "idle"} BY <1>0, <1>a, <1>1 DEF Open
  <2>6. stored' = stored /\ ServerOK' /\ doomed' \in [Tabs -> BOOLEAN]
    BY <1>0, <1>1 DEF Open, server, ServerOK
  <2>7. QED BY <1>0, <2>1, <2>2, <2>3, <2>4, <2>5, <2>6 DEF TypeOK, TabsOK, ServerOK
<1>2. ASSUME NEW t \in Tabs, SubmitLogin(t) PROVE TypeOK'
  <2>1. sent' \in [Tabs -> [Ops -> Call \cup {None}]] BY <1>0, <1>2, SendType DEF SubmitLogin
  <2>2. causes' \subseteq {"disturbed", "expired", "idle"} BY <1>0, <1>a, <1>2 DEF SubmitLogin
  <2>3. TabsOK' /\ ServerOK' /\ UNCHANGED <<doomed, stored, strays, opens>>
    BY <1>0, <1>2 DEF SubmitLogin, tabState, server, TabsOK, ServerOK
  <2>4. QED BY <1>0, <2>1, <2>2, <2>3 DEF TypeOK, TabsOK, ServerOK
<1>3. ASSUME NEW t \in Tabs, ClickLogout(t) PROVE TypeOK'
  <2>1. TabsOK'
    <3>1. CASE stored = None
      <4>1. access[t] \in AccessTokens /\ FALSE \in BOOLEAN /\ "login" \in Pages
        BY <1>0 DEF TabsOK, Pages
      <4>2. Render(t, FALSE, access[t], FALSE, "login") BY <1>3, <3>1 DEF ClickLogout
      <4>3. QED BY <1>0, <4>1, <4>2, RenderType
    <3>2. CASE stored # None BY <1>0, <1>3, <3>2 DEF ClickLogout, tabState, TabsOK
    <3>3. QED BY <3>1, <3>2
  <2>2. sent' \in [Tabs -> [Ops -> Call \cup {None}]]
    BY <1>0, <1>3, SendType DEF ClickLogout
  <2>3. causes' \subseteq {"disturbed", "expired", "idle"} BY <1>0, <1>a, <1>3 DEF ClickLogout
  <2>4. ServerOK' /\ UNCHANGED <<doomed, stored, strays, opens>>
    BY <1>0, <1>3 DEF ClickLogout, server, ServerOK
  <2>5. QED BY <1>0, <2>1, <2>2, <2>3, <2>4 DEF TypeOK, TabsOK, ServerOK
<1>4. ASSUME NEW t \in Tabs, AskForData(t) PROVE TypeOK'
  BY <1>4 DEF AskForData, TypeOK, tabState, server
<1>5. ASSUME NEW t \in Tabs, AccessExpires(t) PROVE TypeOK'
  <2>1. access' \in [Tabs -> AccessTokens] BY <1>5 DEF AccessExpires, TypeOK, AccessTokens
  <2>2. QED BY <1>5, <2>1 DEF AccessExpires, TypeOK, server
<1>6. ASSUME NEW t \in Tabs, NEW op \in Ops, Answer(t, op) PROVE TypeOK'
  <2>1. PICK reply \in Replies :
          /\ Serve(op, sent[t][op].carries, reply)
          /\ \/ sent' = [sent EXCEPT ![t][op].reply = reply] /\ UNCHANGED causes
             \/ /\ sent' = [sent EXCEPT ![t][op].reply = "failed"]
                /\ causes' = causes \cup {"disturbed"}
    BY <1>6 DEF Answer
  <2>2. ServerOK' BY <1>0, <2>1, ServeType
  <2>3. sent[t][op] # None /\ "failed" \in Replies BY <1>6 DEF Answer, Replies
  <2>4. sent' \in [Tabs -> [Ops -> Call \cup {None}]] BY <1>0, <2>1, <2>3, ReplyType
  <2>5. causes' \subseteq {"disturbed", "expired", "idle"} BY <1>0, <2>1
  <2>6. TabsOK' /\ UNCHANGED <<doomed, stored, strays, opens>>
    BY <1>0, <1>6 DEF Answer, tabState, TabsOK
  <2>7. QED BY <1>0, <2>2, <2>4, <2>5, <2>6 DEF TypeOK, TabsOK, ServerOK
<1>7. ASSUME NEW t \in Tabs, NEW op \in Ops, Timeout(t, op) PROVE TypeOK'
  <2>1. sent[t][op] # None /\ "failed" \in Replies BY <1>7 DEF Timeout, Replies
  <2>2. sent' \in [Tabs -> [Ops -> Call \cup {None}]]
    BY <1>0, <1>7, <2>1, ReplyType DEF Timeout
  <2>3. QED BY <1>7, <2>2 DEF Timeout, TypeOK, tabState, server
<1>8. ASSUME NEW t \in Tabs, NEW op \in Ops, Settle(t, op)
      PROVE  sent' \in [Tabs -> [Ops -> Call \cup {None}]]
  BY <1>0, <1>8 DEF Settle
<1>9. ASSUME NEW t \in Tabs, RestoreEnds(t) PROVE TypeOK'
  <2>1. TabsOK'
    <3>1. user[t] \in BOOLEAN /\ page[t] \in Pages /\ {"good", "none"} \subseteq AccessTokens
      BY <1>0 DEF TabsOK, AccessTokens
    <3>2. QED BY <1>0, <1>9, <3>1, RenderType DEF RestoreEnds
  <2>2. sent' \in [Tabs -> [Ops -> Call \cup {None}]] BY <1>8, <1>9 DEF RestoreEnds
  <2>3. stored' \in Tokens \cup {None} BY <1>9 DEF RestoreEnds
  <2>4. QED BY <1>0, <1>9, <2>1, <2>2, <2>3 DEF RestoreEnds, TypeOK, TabsOK, server
<1>10. ASSUME NEW t \in Tabs, LoginEnds(t) PROVE TypeOK'
  <2>1. TabsOK'
    <3>1. /\ user[t] \in BOOLEAN /\ loading[t] \in BOOLEAN /\ access[t] \in AccessTokens
          /\ page[t] \in Pages /\ "backoffice" \in Pages /\ {"good", "none"} \subseteq AccessTokens
      BY <1>0 DEF TabsOK, AccessTokens, Pages
    <3>2. CASE sent[t]["login"].reply \in Tokens
      <4>1. Render(t, TRUE, "good", loading[t], "backoffice") BY <1>10, <3>2 DEF LoginEnds
      <4>2. QED BY <1>0, <3>1, <4>1, RenderType
    <3>3. CASE sent[t]["login"].reply \notin Tokens
      <4>1. PICK a \in AccessTokens : Render(t, user[t], a, loading[t], page[t])
        BY <1>10, <3>1, <3>3 DEF LoginEnds
      <4>2. QED BY <1>0, <3>1, <4>1, RenderType
    <3>4. QED BY <3>2, <3>3
  <2>2. sent' \in [Tabs -> [Ops -> Call \cup {None}]] BY <1>8, <1>10 DEF LoginEnds
  <2>3. stored' \in Tokens \cup {None} BY <1>0, <1>10 DEF LoginEnds
  <2>4. QED BY <1>0, <1>10, <2>1, <2>2, <2>3 DEF LoginEnds, TypeOK, TabsOK, server
<1>11. ASSUME NEW t \in Tabs, NEW op \in Logouts, LogoutEnds(t, op) PROVE TypeOK'
  <2>1. TabsOK'
    <3>1. loading[t] \in BOOLEAN /\ "login" \in Pages /\ "none" \in AccessTokens
      BY <1>0 DEF TabsOK, AccessTokens, Pages
    <3>2. QED BY <1>0, <1>11, <3>1, RenderType DEF LogoutEnds
  <2>2. sent' \in [Tabs -> [Ops -> Call \cup {None}]] BY <1>8, <1>11 DEF LogoutEnds
  <2>3. QED BY <1>0, <1>11, <2>1, <2>2 DEF LogoutEnds, TypeOK, TabsOK, server
<1>12. ASSUME NEW t \in Tabs, DataRefused(t) PROVE TypeOK'
  <2>1. access' \in [Tabs -> AccessTokens]
    BY <1>12 DEF DataRefused, TypeOK, AccessTokens
  <2>2. QED BY <1>12, <2>1 DEF DataRefused, TypeOK, server
<1>13. ASSUME NEW r \in strays, Late(r) PROVE TypeOK'
  <2>1. ServerOK'
    BY <1>0, <1>13, ServeType DEF Late, server, ServerOK
  <2>2. QED BY <1>0, <1>13, <2>1 DEF Late, TypeOK, ServerOK, tabState
<1>14. ASSUME NEW n \in Tokens, TokenExpires(n) PROVE TypeOK'
  BY <1>14 DEF TokenExpires, TypeOK, tabState
<1>15. CASE UNCHANGED vars BY <1>15 DEF vars, TypeOK
<1>16. QED
  BY <1>1, <1>2, <1>3, <1>4, <1>5, <1>6, <1>7, <1>9, <1>10, <1>11, <1>12, <1>13, <1>14, <1>15
  DEF Next, Ends
-----------------------------------------------------------------------------
\* Nobody forgets what disturbed the calls.
LEMMA CausesGrow == TypeOK /\ [Next]_vars => causes \subseteq causes'
BY DEF Next, Ends, Open, SubmitLogin, ClickLogout, AskForData, AccessExpires, Answer, Timeout,
       RestoreEnds, LoginEnds, LogoutEnds, DataRefused, Late, TokenExpires, Crossing, vars

\* A step that neither sends nor settles a call keeps the order.
LEMMA SameCalls ==
  ASSUME Tidy, \A u \in Tabs, o \in Ops : sent'[u][o] = sent[u][o],
         stored' = stored, strays' = strays, live' \subseteq live
  PROVE  Tidy' /\ (live' = live /\ Fresh => Fresh')
<1>1. SomeReply' <=> SomeReply BY DEF SomeReply, Replied
<1>2. OneCall' BY DEF Tidy, OneCall
<1>3. ASSUME NEW u \in Tabs, NEW o \in Ops
      PROVE  /\ Replied(u, o)' <=> Replied(u, o)
             /\ Waiting(u, o)' <=> Waiting(u, o)
  <2>1. sent'[u][o] = sent[u][o] OBVIOUS
  <2>2. QED BY <2>1 DEF Replied, Waiting
<1>4. "login" \in Ops /\ Logouts \subseteq Ops BY DEF Ops
<1>5. Tidy' BY <1>1, <1>2, <1>3, <1>4 DEF Tidy
<1>6. live' = live /\ Fresh => Fresh' BY <1>1, <1>3 DEF Fresh
<1>7. QED BY <1>5, <1>6

\* The first call after a silence keeps it too.
LEMMA FirstCall ==
  ASSUME Tidy, Quiet, NEW t \in Tabs, NEW op \in Ops, NEW w,
         sent'[t][op] = [carries |-> w, reply |-> "waiting"], sent'[t][op] # None,
         \A u \in Tabs, o \in Ops : u # t \/ o # op => sent'[u][o] = sent[u][o],
         stored' = stored, strays' = {}, live' = live,
         op = "login" => stored = None,
         op # "login" => w = stored /\ stored # None
  PROVE  Tidy' /\ (Fresh => Fresh')
<1>1. \A u \in Tabs, o \in Ops : sent[u][o] = None BY DEF Quiet, InFlight
<1>2. \A u \in Tabs, o \in Ops : sent'[u][o] # None => u = t /\ o = op BY <1>1
<1>3. ~SomeReply /\ ~SomeReply' BY <1>1, <1>2 DEF SomeReply, Replied
<1>4. OneCall' BY <1>2 DEF OneCall
<1>5. \A u \in Tabs, o \in Ops : ~Replied(u, o)' BY <1>3 DEF SomeReply
<1>6. \A u \in Tabs : sent'[u]["login"] # None => stored' = None BY <1>2 DEF Ops
<1>7. \A u \in Tabs, o \in Ops :
        Waiting(u, o)' /\ o # "login" => sent'[u][o].carries = stored' /\ stored' # None
  BY <1>2 DEF Waiting
<1>8. Tidy' BY <1>3, <1>4, <1>5, <1>6, <1>7 DEF Tidy, Ops
<1>9. Fresh => Fresh' BY <1>3, <1>5 DEF Fresh
<1>10. QED BY <1>8, <1>9

\* When a call is settled, the storage holds what its answer left.
LEMMA LastCall ==
  ASSUME TypeOK, Tidy, NEW t \in Tabs, NEW op \in Ops, Replied(t, op), Settle(t, op),
         strays' = strays, live' = live,
         sent[t][op].reply \in Tokens => stored' = sent[t][op].reply,
         sent[t][op].reply \notin Tokens => stored' = stored \/ stored' = None
  PROVE  /\ Tidy'
         /\ (sent[t][op].reply \notin Tokens => stored' = None) /\ Fresh => Fresh'
<1>1. \A u \in Tabs, o \in Ops : sent'[u][o] = None
  <2>1. \A u \in Tabs, o \in Ops : sent[u][o] # None => u = t /\ o = op
    BY DEF Tidy, OneCall, Replied
  <2>2. QED BY <2>1 DEF Settle, TypeOK
<1>2. ~SomeReply' /\ OneCall' BY <1>1 DEF SomeReply, Replied, OneCall
<1>3. \A u \in Tabs, o \in Ops : ~Replied(u, o)' /\ ~Waiting(u, o)' BY <1>1 DEF Replied, Waiting
<1>4. live \subseteq {sent[t][op].reply} BY DEF Tidy
<1>5. live' \subseteq {stored'} BY <1>4 DEF TypeOK
<1>6. strays' = {} BY DEF Tidy
<1>7. Tidy' BY <1>1, <1>2, <1>3, <1>5, <1>6 DEF Tidy, Ops
<1>8. ASSUME sent[t][op].reply \notin Tokens => stored' = None, Fresh PROVE Fresh'
  BY <1>2, <1>3, <1>8 DEF Fresh
<1>9. QED BY <1>7, <1>8
-----------------------------------------------------------------------------
\* A reply that arrives carries the only valid token there can be.
LEMMA AnswerTidy ==
  ASSUME TypeOK, Tidy, NEW t \in Tabs, NEW op \in Ops, Answer(t, op),
         "disturbed" \notin causes'
  PROVE  /\ Tidy'
         /\ Fresh => Fresh'
<1>1. PICK reply \in Replies :
        /\ Serve(op, sent[t][op].carries, reply)
        /\ sent' = [sent EXCEPT ![t][op].reply = reply]
  BY DEF Answer
<1> DEFINE what == sent[t][op].carries
<1>2. Waiting(t, op) BY DEF Answer, Waiting
<1>3. \A u \in Tabs, o \in Ops : sent[u][o] # None => u = t /\ o = op
  BY <1>2 DEF Tidy, OneCall, Waiting
<1>4. /\ sent' \in [Tabs -> [Ops -> Call \cup {None}]]
      /\ sent'[t][op] = [carries |-> what, reply |-> reply]
      /\ \A u \in Tabs, o \in Ops : u # t \/ o # op => sent'[u][o] = sent[u][o]
  <2>1. sent \in [Tabs -> [Ops -> Call \cup {None}]] /\ sent[t][op] # None
    BY <1>2 DEF Waiting, TypeOK
  <2>2. sent' \in [Tabs -> [Ops -> Call \cup {None}]] BY <1>1, <2>1, ReplyType
  <2>3. sent'[t][op] = [carries |-> sent[t][op].carries, reply |-> reply]
    BY <1>1, <2>1, ReplyType
  <2>4. \A u \in Tabs, o \in Ops : u # t \/ o # op => sent'[u][o] = sent[u][o]
    BY <1>1, <2>1
  <2>5. QED BY <2>2, <2>3, <2>4
<1>5. Replied(t, op)' /\ reply # "waiting"
  <2>1. reply # "waiting" /\ what \in Tokens \cup {None}
    BY <1>1, <1>2, TokensAreNoReplies DEF Serve, TypeOK, Waiting, Call
  <2>2. sent'[t][op] \in Call BY <1>1, <1>4, <2>1 DEF Call
  <2>3. QED BY <1>4, <2>1, <2>2, NoneIsNoCall DEF Replied
<1>6. \A u \in Tabs, o \in Ops : sent'[u][o] # None => u = t /\ o = op BY <1>3, <1>4
<1>7. SomeReply' /\ OneCall' BY <1>5, <1>6 DEF SomeReply, OneCall
<1>8. ~SomeReply
  <2>1. ~Replied(t, op) BY <1>2 DEF Waiting, Replied
  <2>2. QED BY <1>3, <2>1 DEF SomeReply, Replied
<1>9. live \subseteq {stored} \cap Tokens BY <1>8 DEF Tidy, TypeOK
<1>10. live' \subseteq {reply}
  <2>1. op = "login" => live = {} BY <1>2, <1>9, NoneIsNoToken DEF Tidy, Waiting
  <2>2. op # "login" => what = stored BY <1>2 DEF Tidy
  <2>3. QED BY <1>1, <1>9, <2>1, <2>2, LogoutsAreNew DEF Serve, Admit, server
<1>11. stored' = stored /\ strays' = {} BY DEF Answer, Tidy
<1>12. \A u \in Tabs : sent'[u]["login"] # None => stored' = None
  BY <1>2, <1>6, <1>11 DEF Tidy, Waiting, Ops
<1>13. \A u \in Tabs, o \in Ops : ~Waiting(u, o)' BY <1>4, <1>5, <1>6 DEF Waiting
<1>14. \A u \in Tabs, o \in Ops : Replied(u, o)' => live' \subseteq {sent'[u][o].reply}
  BY <1>4, <1>6, <1>10 DEF Replied
<1>15. \A u \in Tabs, o \in Logouts : Replied(u, o)' => sent'[u][o].reply \notin Tokens
  <2>1. op \in Logouts => reply \notin Tokens
    BY <1>1, LogoutsAreNew, TokensAreNoReplies DEF Serve
  <2>2. QED BY <1>4, <1>6, <2>1 DEF Replied, Ops
<1>16. Tidy' BY <1>7, <1>11, <1>12, <1>13, <1>14, <1>15 DEF Tidy
<1>17. Fresh => Fresh'
  <2>1. reply \in Tokens => reply \in live'
    BY <1>1, TokensAreNoReplies DEF Serve, Admit
  <2>2. QED BY <1>4, <1>6, <1>7, <2>1 DEF Fresh, Replied
<1>18. QED BY <1>16, <1>17

\* While nothing is disturbed, at most one call is on its way.
LEMMA TidyStep ==
  ASSUME TypeOK, Tidy, [Next]_vars, "disturbed" \notin causes'
  PROVE  /\ Tidy'
         /\ (causes' \subseteq {"idle"} /\ Fresh => Fresh')
<1> DEFINE Goal == Tidy' /\ (causes' \subseteq {"idle"} /\ Fresh => Fresh')
<1> USE DEF Ops
<1>0. "disturbed" \notin causes BY CausesGrow
<1>1. ASSUME Crossing = causes' PROVE Quiet BY <1>1 DEF Crossing
<1>2. ASSUME NEW t \in Tabs, NEW p \in Pages, Open(t, p) PROVE Goal
  <2>1. \A o \in Ops : sent[t][o] = None BY <1>2 DEF Open, InFlight
  <2>2. strays' = {} /\ live' = live /\ stored' = stored
    BY <1>2, <2>1 DEF Open, InFlight, Tidy, server
  <2>3. \A u \in Tabs : u # t => sent'[u] = sent[u] BY <1>2 DEF Open, TypeOK
  <2>4. CASE stored = None
    <3>1. \A o \in Ops : sent'[t][o] = None BY <1>2, <2>4 DEF Open, TypeOK
    <3>2. QED BY <2>1, <2>2, <2>3, <3>1, SameCalls DEF Tidy
  <2>5. CASE stored # None
    <3>1. Quiet BY <1>1, <1>2, <2>1, <2>5 DEF Open, InFlight
    <3>2. sent'[t]["restore"] = [carries |-> stored, reply |-> "waiting"]
      BY <1>2, <2>5 DEF Open, TypeOK
    <3>3. sent'[t]["restore"] # None BY <3>2, NoneIsNoCall DEF Call, Replies, TypeOK
    <3>4. \A o \in Ops : o # "restore" => sent'[t][o] = None BY <1>2 DEF Open, TypeOK
    <3>5. \A u \in Tabs, o \in Ops : u # t \/ o # "restore" => sent'[u][o] = sent[u][o]
      BY <2>1, <2>3, <3>4
    <3>6. "restore" \in Ops /\ "restore" # "login" OBVIOUS
    <3> HIDE DEF Ops
    <3>7. QED BY <2>2, <2>5, <3>1, <3>2, <3>3, <3>5, <3>6, FirstCall
  <2>6. QED BY <2>4, <2>5
<1>3. ASSUME NEW t \in Tabs, NEW op \in Ops, NEW w \in Tokens \cup {None}, Send(t, op, w)
      PROVE  /\ sent'[t][op] = [carries |-> w, reply |-> "waiting"]
             /\ sent'[t][op] # None
             /\ \A u \in Tabs, o \in Ops : u # t \/ o # op => sent'[u][o] = sent[u][o]
  <2>1. [carries |-> w, reply |-> "waiting"] \in Call BY DEF Call, Replies
  <2>2. QED BY <1>3, <2>1, NoneIsNoCall DEF Send, TypeOK
<1>4. ASSUME NEW t \in Tabs, SubmitLogin(t) PROVE Goal
  <2>1. stored = None /\ Quiet BY <1>1, <1>4 DEF SubmitLogin
  <2>2. Send(t, "login", None) /\ stored' = stored /\ strays' = {} /\ live' = live
    BY <1>4 DEF SubmitLogin, Tidy, server
  <2>3. /\ sent'[t]["login"] = [carries |-> None, reply |-> "waiting"]
        /\ sent'[t]["login"] # None
        /\ \A u \in Tabs, o \in Ops : u # t \/ o # "login" => sent'[u][o] = sent[u][o]
    BY <1>3, <2>2
  <2>4. QED BY <2>1, <2>2, <2>3, FirstCall
<1>5. ASSUME NEW t \in Tabs, ClickLogout(t) PROVE Goal
  <2>1. stored' = stored /\ strays' = {} /\ strays' = strays /\ live' = live
    BY <1>5 DEF ClickLogout, Tidy, server
  <2>2. CASE stored = None
    <3>1. sent' = sent BY <1>5, <2>2 DEF ClickLogout
    <3>2. QED BY <2>1, <3>1, SameCalls
  <2>3. CASE stored # None
    <3>1. Quiet BY <1>1, <1>5, <2>3 DEF ClickLogout
    <3>2. PICK op \in Logouts : Send(t, op, stored) BY <1>5, <2>3 DEF ClickLogout
    <3>3. stored \in Tokens \cup {None} /\ op # "login" /\ op \in Ops
      BY LogoutsAreNew DEF TypeOK
    <3>4. QED BY <1>3, <2>1, <2>3, <3>1, <3>2, <3>3, FirstCall
  <2>4. QED BY <2>2, <2>3
<1>6. ASSUME NEW t \in Tabs, AskForData(t) \/ AccessExpires(t) \/ DataRefused(t) PROVE Goal
  <2>1. UNCHANGED <<sent, stored, strays, live>>
    BY <1>6 DEF AskForData, AccessExpires, DataRefused, server
  <2>2. QED BY <2>1, SameCalls
<1>7. ASSUME NEW t \in Tabs, NEW op \in Ops, Answer(t, op) PROVE Goal BY <1>7, AnswerTidy
<1>8. ASSUME NEW t \in Tabs, NEW op \in Ops, Timeout(t, op) PROVE Goal BY <1>8 DEF Timeout
<1>9. ASSUME NEW t \in Tabs, RestoreEnds(t) PROVE Goal
  BY <1>9, LastCall DEF RestoreEnds, server
<1>10. ASSUME NEW t \in Tabs, LoginEnds(t) PROVE Goal
  <2>1. sent[t]["login"] # None => stored = None BY DEF Tidy
  <2>2. QED BY <1>10, <2>1, LastCall DEF LoginEnds, Replied, server
<1>11. ASSUME NEW t \in Tabs, NEW op \in Logouts, LogoutEnds(t, op) PROVE Goal
  <2>1. sent[t][op].reply \notin Tokens BY <1>11 DEF LogoutEnds, Tidy
  <2>2. QED BY <1>11, <2>1, LastCall DEF LogoutEnds, server
<1>12. ASSUME NEW r \in strays, Late(r) PROVE Goal BY <1>12 DEF Tidy
<1>13. ASSUME NEW n \in Tokens, TokenExpires(n) PROVE Goal
  <2>1. UNCHANGED <<sent, stored, strays>> /\ live' \subseteq live
    BY <1>13 DEF TokenExpires
  <2>2. "expired" \in causes' BY <1>13 DEF TokenExpires
  <2>3. QED BY <2>1, <2>2, SameCalls
<1>14. CASE UNCHANGED vars
  <2>1. UNCHANGED <<sent, stored, strays, live>> BY <1>14 DEF vars
  <2>2. QED BY <2>1, SameCalls
<1>15. QED
  BY <1>2, <1>4, <1>5, <1>6, <1>7, <1>8, <1>9, <1>10, <1>11, <1>12, <1>13, <1>14 DEF Next, Ends
-----------------------------------------------------------------------------
\* A tab stops restoring when its restore ends, and not before.
LEMMA RestoringStep == TypeOK /\ Restoring /\ [Next]_vars => Restoring'
<1> SUFFICES ASSUME TypeOK, Restoring, [Next]_vars, NEW t \in Tabs, loading'[t]
             PROVE  sent'[t]["restore"] # None
  BY DEF Restoring
<1> USE DEF Ops
<1>0. /\ loading \in [Tabs -> BOOLEAN] /\ sent \in [Tabs -> [Ops -> Call \cup {None}]]
      /\ stored \in Tokens \cup {None}
  BY DEF TypeOK
<1>1. ASSUME NEW u \in Tabs, NEW p \in Pages, Open(u, p) PROVE sent'[t]["restore"] # None
  <2>1. CASE u = t
    <3>1. stored # None BY <1>0, <1>1, <2>1 DEF Open, Render
    <3>2. sent'[t]["restore"] = [carries |-> stored, reply |-> "waiting"]
      BY <1>0, <1>1, <2>1, <3>1 DEF Open
    <3>3. QED BY <1>0, <3>2, NoneIsNoCall DEF Call, Replies
  <2>2. CASE u # t BY <1>0, <1>1, <2>2 DEF Open, Render, Restoring
  <2>3. QED BY <2>1, <2>2
<1>2. ASSUME loading[t], sent'[t]["restore"] # sent[t]["restore"], sent[t]["restore"] # None,
             NEW u \in Tabs, NEW op \in Ops, Answer(u, op) \/ Timeout(u, op)
      PROVE  sent'[t]["restore"] # None
  <2>1. PICK r \in Replies : sent' = [sent EXCEPT ![u][op].reply = r]
    BY <1>2 DEF Answer, Timeout, Replies
  <2>2. sent[u][op] # None BY <1>2 DEF Answer, Timeout
  <2>3. u = t /\ op = "restore" BY <1>0, <1>2, <2>1, <2>2, ReplyType
  <2>4. sent'[u][op] = [carries |-> sent[u][op].carries, reply |-> r]
    <3> HIDE DEF Ops
    <3>1. QED BY <1>0, <2>1, <2>2, ReplyType
  <2>5. sent[u][op] \in Call BY <1>0, <2>2
  <2>6. sent'[u][op] \in Call BY <2>4, <2>5 DEF Call
  <2>7. QED BY <2>3, <2>6, NoneIsNoCall
<1>3. ASSUME NEW u \in Tabs, NEW op \in Ops, NEW w \in Tokens \cup {None}, Send(u, op, w),
             sent[t]["restore"] # None
      PROVE  sent'[t]["restore"] # None
  <2>1. [carries |-> w, reply |-> "waiting"] \in Call BY DEF Call, Replies
  <2>2. QED BY <1>0, <1>3, <2>1, NoneIsNoCall DEF Send
<1>4. ASSUME NEW u \in Tabs, SubmitLogin(u) \/ ClickLogout(u) PROVE sent'[t]["restore"] # None
  <2>1. loading[t] BY <1>0, <1>4 DEF SubmitLogin, ClickLogout, Render, tabState
  <2>2. sent[t]["restore"] # None BY <2>1 DEF Restoring
  <2>3. CASE SubmitLogin(u) BY <1>3, <2>2, <2>3 DEF SubmitLogin
  <2>4. CASE ClickLogout(u)
    <3>1. CASE stored = None BY <2>2, <2>4, <3>1 DEF ClickLogout
    <3>2. CASE stored # None
      <4>1. PICK op \in Logouts : Send(u, op, stored) BY <2>4, <3>2 DEF ClickLogout
      <4>2. QED BY <1>0, <1>3, <2>2, <4>1
    <3>3. QED BY <3>1, <3>2
  <2>5. QED BY <1>4, <2>3, <2>4
<1>5. ASSUME NEW u \in Tabs, NEW op \in Ops, Answer(u, op) \/ Timeout(u, op)
      PROVE  sent'[t]["restore"] # None
  <2>1. loading[t] BY <1>5 DEF Answer, Timeout, tabState
  <2>2. sent[t]["restore"] # None BY <2>1 DEF Restoring
  <2>3. QED BY <1>2, <1>5, <2>1, <2>2
<1>6. ASSUME NEW u \in Tabs, RestoreEnds(u) PROVE sent'[t]["restore"] # None
  <2>1. u # t BY <1>0, <1>6 DEF RestoreEnds, Render
  <2>2. QED BY <1>0, <1>6, <2>1 DEF RestoreEnds, Render, Settle, Restoring
<1>7. ASSUME NEW u \in Tabs, NEW op \in Ops, op # "restore", Settle(u, op),
             loading'[t] => loading[t]
      PROVE  sent'[t]["restore"] # None
  BY <1>0, <1>7 DEF Settle, Restoring
<1>8. ASSUME NEW u \in Tabs, LoginEnds(u) PROVE sent'[t]["restore"] # None
  <2>1. loading'[t] => loading[t] BY <1>0, <1>8 DEF LoginEnds, Render
  <2>2. QED BY <1>7, <1>8, <2>1 DEF LoginEnds
<1>9. ASSUME NEW u \in Tabs, NEW op \in Logouts, LogoutEnds(u, op)
      PROVE  sent'[t]["restore"] # None
  <2>1. loading'[t] => loading[t] BY <1>0, <1>9 DEF LogoutEnds, Render
  <2>2. op # "restore" BY LogoutsAreNew
  <2>3. QED BY <1>7, <1>9, <2>1, <2>2 DEF LogoutEnds
<1>10. ASSUME UNCHANGED <<loading, sent>> PROVE sent'[t]["restore"] # None
  BY <1>10 DEF Restoring
<1>11. QED
  BY <1>1, <1>4, <1>5, <1>6, <1>8, <1>9, <1>10
  DEF Next, Ends, AskForData, AccessExpires, DataRefused, Late, TokenExpires, vars, tabState

\* Undisturbed and never left idle, a tab with a user has a good access token.
LEMMA SignedStep ==
  ASSUME TypeOK, Restoring, Tidy, Signed, [Next]_vars,
         causes' \cap {"disturbed", "idle"} = {}
  PROVE  Signed'
<1> USE DEF Ops
<1> DEFINE Held(t) == /\ ~doomed[t]
                      /\ user[t] => access[t] = "good"
                      /\ sent[t]["restore"] # None \/ sent[t]["login"] # None => ~user[t]
<1> SUFFICES ASSUME NEW t \in Tabs PROVE Held(t)' BY DEF Signed
<1>0. /\ loading \in [Tabs -> BOOLEAN] /\ sent \in [Tabs -> [Ops -> Call \cup {None}]]
      /\ user \in [Tabs -> BOOLEAN] /\ access \in [Tabs -> AccessTokens]
      /\ doomed \in [Tabs -> BOOLEAN] /\ page \in [Tabs -> Pages]
  BY DEF TypeOK
<1>a. Held(t) BY DEF Signed
<1>b. causes \subseteq causes' BY CausesGrow
<1>1. ASSUME NEW u \in Tabs, NEW p \in Pages, Open(u, p) PROVE Held(t)'
  <2>1. CASE u = t BY <1>0, <1>1, <2>1 DEF Open, Render
  <2>2. CASE u # t BY <1>0, <1>a, <1>1, <2>2 DEF Open, Render
  <2>3. QED BY <2>1, <2>2
<1>2. ASSUME NEW u \in Tabs, SubmitLogin(u) PROVE Held(t)'
  <2>1. Quiet BY <1>2 DEF SubmitLogin, Crossing
  <2>2. ~loading[u] BY <2>1 DEF Quiet, InFlight, Restoring
  <2>3. ~user[u] BY <1>2, <2>2 DEF SubmitLogin, TypeOK, Redirected
  <2>4. QED BY <1>0, <1>a, <1>2, <2>3 DEF SubmitLogin, Send, tabState
<1>3. ASSUME NEW u \in Tabs, ClickLogout(u) PROVE Held(t)'
  <2>1. CASE stored = None BY <1>0, <1>a, <1>3, <2>1 DEF ClickLogout, Render
  <2>2. CASE stored # None
    <3>1. PICK op \in Logouts : Send(u, op, stored) BY <1>3, <2>2 DEF ClickLogout
    <3>2. UNCHANGED <<doomed, user, access>> BY <1>3, <2>2 DEF ClickLogout, tabState
    <3>3. op # "restore" /\ op # "login" BY LogoutsAreNew
    <3>4. QED BY <1>0, <1>a, <3>1, <3>2, <3>3 DEF Send
  <2>3. QED BY <2>1, <2>2
<1>4. ASSUME NEW u \in Tabs, AskForData(u) PROVE Held(t)'
  BY <1>4 DEF AskForData, Signed
<1>5. ASSUME NEW u \in Tabs, AccessExpires(u) PROVE Held(t)'
  BY <1>5 DEF AccessExpires
<1>6. ASSUME NEW u \in Tabs, NEW op \in Ops, Answer(u, op) \/ Timeout(u, op) PROVE Held(t)'
  <2>1. PICK r \in Replies : sent' = [sent EXCEPT ![u][op].reply = r]
    BY <1>6 DEF Answer, Timeout, Replies
  <2>2. sent[u][op] # None BY <1>6 DEF Answer, Timeout
  <2>3. \A o \in Ops : sent'[t][o] # None => sent[t][o] # None
    BY <1>0, <2>1, <2>2, ReplyType
  <2>4. UNCHANGED <<doomed, user, access>> BY <1>6 DEF Answer, Timeout, tabState
  <2>5. QED BY <1>a, <2>3, <2>4
<1>7. ASSUME NEW u \in Tabs, RestoreEnds(u) PROVE Held(t)'
  <2>1. \A o \in Ops : o # "restore" => sent[u][o] = None
    BY <1>7 DEF RestoreEnds, Replied, Tidy, OneCall
  <2>2. ~user[u] BY <1>7 DEF RestoreEnds, Replied, Signed
  <2>3. CASE u = t
    <3>1. sent'[t]["restore"] = None /\ sent'[t]["login"] = None
      BY <1>0, <1>7, <2>1, <2>3 DEF RestoreEnds, Settle
    <3>2. ~doomed'[t] BY <1>a, <1>7 DEF RestoreEnds
    <3>3. user'[t] => access'[t] = "good"
      BY <1>0, <1>7, <2>2, <2>3 DEF RestoreEnds, Render
    <3>4. QED BY <3>1, <3>2, <3>3
  <2>4. CASE u # t BY <1>0, <1>a, <1>7, <2>4 DEF RestoreEnds, Render, Settle
  <2>5. QED BY <2>3, <2>4
<1>8. ASSUME NEW u \in Tabs, LoginEnds(u) PROVE Held(t)'
  <2>1. \A o \in Ops : o # "login" => sent[u][o] = None
    BY <1>8 DEF LoginEnds, Replied, Tidy, OneCall
  <2>2. ~user[u] BY <1>8 DEF LoginEnds, Replied, Signed
  <2>3. CASE u = t
    <3>1. sent'[t]["restore"] = None /\ sent'[t]["login"] = None
      BY <1>0, <1>8, <2>1, <2>3 DEF LoginEnds, Settle
    <3>2. ~doomed'[t] BY <1>a, <1>8 DEF LoginEnds
    <3>3. user'[t] => access'[t] = "good"
      BY <1>0, <1>8, <2>2, <2>3 DEF LoginEnds, Render
    <3>4. QED BY <3>1, <3>2, <3>3
  <2>4. CASE u # t BY <1>0, <1>a, <1>8, <2>4 DEF LoginEnds, Render, Settle
  <2>5. QED BY <2>3, <2>4
<1>9. ASSUME NEW u \in Tabs, NEW op \in Logouts, LogoutEnds(u, op) PROVE Held(t)'
  <2>1. CASE u = t BY <1>0, <1>a, <1>9, <2>1 DEF LogoutEnds, Render
  <2>2. CASE u # t BY <1>0, <1>a, <1>9, <2>2 DEF LogoutEnds, Render, Settle
  <2>3. QED BY <2>1, <2>2
<1>10. ASSUME NEW u \in Tabs, DataRefused(u) PROVE Held(t)'
  BY <1>10 DEF DataRefused, Signed
<1>11. ASSUME UNCHANGED <<doomed, user, access, sent>> PROVE Held(t)'
  BY <1>a, <1>11
<1>12. QED
  BY <1>1, <1>2, <1>3, <1>4, <1>5, <1>6, <1>7, <1>8, <1>9, <1>10, <1>11
  DEF Next, Ends, Late, TokenExpires, vars, tabState
-----------------------------------------------------------------------------
\* No call is under way in a browser that has not started.
LEMMA BrowserInit == Init => BrowserInv
<1> SUFFICES ASSUME Init PROVE BrowserInv
  OBVIOUS
<1>1. TypeOK
  BY OpensAreCounted DEF Init, TypeOK, AccessTokens, Pages, Redirected
<1>2. \A t \in Tabs, op \in Ops : sent[t][op] = None BY DEF Init
<1>3. ~SomeReply /\ OneCall BY <1>2 DEF SomeReply, Replied, OneCall
<1>4. \A t \in Tabs, op \in Ops : ~Replied(t, op) /\ ~Waiting(t, op)
  BY <1>2 DEF Replied, Waiting
<1>5. Tidy BY <1>2, <1>3, <1>4 DEF Tidy, Init, Ops
<1>6. Fresh BY <1>4 DEF Fresh, Init
<1>7. Restoring /\ Signed BY <1>2 DEF Restoring, Signed, Init, Ops
<1>8. QED BY <1>1, <1>5, <1>6, <1>7 DEF BrowserInv

\* Every step keeps the invariant: each part while the causes it depends on are absent.
LEMMA BrowserStep == BrowserInv /\ [Next]_vars => BrowserInv'
<1> SUFFICES ASSUME BrowserInv, [Next]_vars PROVE BrowserInv'
  OBVIOUS
<1>1. TypeOK /\ Restoring /\ causes \subseteq causes' BY CausesGrow DEF BrowserInv
<1>2. TypeOK' BY <1>1, TypeStep
<1>3. Restoring' BY <1>1, RestoringStep
<1>4. "disturbed" \notin causes' => Tidy' BY <1>1, TidyStep DEF BrowserInv
<1>5. causes' \subseteq {"idle"} => Fresh' BY <1>1, TidyStep DEF BrowserInv
<1>6. causes' \cap {"disturbed", "idle"} = {} => Signed' BY <1>1, SignedStep DEF BrowserInv
<1>7. QED BY <1>2, <1>3, <1>4, <1>5, <1>6 DEF BrowserInv

\* The inductive invariant: undisturbed, the credential calls of all tabs form one
\* queue of at most one call, which holds the only valid token.
THEOREM BrowserInvariant == Spec => []BrowserInv
BY BrowserInit, BrowserStep, PTL DEF Spec

\* Type correctness for any number of tabs, tokens and logouts; SessionProvider and
\* the two layouts leave no tab on a page that its user may not see.
THEOREM TypeCorrect == Spec => []TypeOK
<1>1. BrowserInv => TypeOK BY DEF BrowserInv
<1>2. QED BY <1>1, BrowserInvariant, PTL

\* A valid token that no tab, no answer and no storage key knows needs an
\* overlap or a loss.
THEOREM NoTokenIsForgotten == Spec => []NoForgottenToken
<1>1. BrowserInv => NoForgottenToken
  <2> SUFFICES ASSUME BrowserInv, "disturbed" \notin causes, NEW n \in live
               PROVE  \/ n = stored
                      \/ /\ n \in Tokens
                         /\ \E t \in Tabs, op \in Ops : sent[t][op] # None /\ sent[t][op].reply = n
    BY DEF NoForgottenToken
  <2>1. Tidy /\ live \subseteq Tokens BY DEF BrowserInv, TypeOK
  <2>2. CASE SomeReply BY <2>1, <2>2 DEF SomeReply, Replied, Tidy
  <2>3. CASE ~SomeReply BY <2>1, <2>3 DEF Tidy
  <2>4. QED BY <2>2, <2>3
<1>2. QED BY <1>1, BrowserInvariant, PTL

\* The browser trips the reuse detection by itself only after an overlap, a
\* loss or an expiry.
THEOREM NoAlarmIsFalse == Spec => []NoFalseAlarm
<1>1. BrowserInv => NoFalseAlarm
  <2> SUFFICES ASSUME BrowserInv, causes \subseteq {"idle"}, NEW t \in Tabs,
                      Waiting(t, "restore")
               PROVE  sent[t]["restore"].carries \in live
    BY DEF NoFalseAlarm, Waiting
  <2> USE DEF Ops
  <2>1. Tidy /\ Fresh BY DEF BrowserInv
  <2>2. sent[t]["restore"].carries = stored /\ stored # None BY <2>1 DEF Tidy
  <2>3. ~SomeReply BY <2>1 DEF SomeReply, Replied, Waiting, Tidy, OneCall
  <2>4. QED BY <2>1, <2>2, <2>3 DEF Fresh
<1>2. QED BY <1>1, BrowserInvariant, PTL

\* A user without a good access token needs an overlap, a loss, or a tab left
\* open for longer than the token lives.
THEOREM LimboComesOfIdling == Spec => []LimboNeedsIdling
<1>1. BrowserInv => LimboNeedsIdling BY DEF BrowserInv, LimboNeedsIdling, Signed
<1>2. QED BY <1>1, BrowserInvariant, PTL
=============================================================================
