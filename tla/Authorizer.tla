------------------------------ MODULE Authorizer ------------------------------
(***************************************************************************)
(* Access tokens at the edge: bliss-auth signs them, the containers of     *)
(* bliss-authorizer verify them with a copy of the key of their own, and   *)
(* API Gateway keeps each policy for a while.  The secret that holds the   *)
(* key may be replaced, and may be out of reach for some time.             *)
(***************************************************************************)
EXTENDS Naturals, FiniteSets

CONSTANTS
  Containers,  \* of bliss-authorizer
  Tokens,      \* access tokens
  Routes,      \* methods of the API
  Lifetime,    \* JWT_TTL_SECONDS
  Tolerance,   \* clockTolerance
  CacheTtl,    \* authorizer_result_ttl_in_seconds, at least 1
  MaxTime,     \* bound: the clock
  MaxKeys      \* bound: values the secret takes

\* A credential that is no bearer token, and one that nobody here signed.
Bad == {"malformed", "forged"}

VARIABLES
  now,       \* the clock
  secret,    \* the key Secrets Manager holds
  readable,  \* Secrets Manager answers
  edge,      \* the gateway runs authorizers; LocalStack Community does not
  authKey,   \* the key bliss-auth holds, 0 before it read one
  cachedKey, \* the key each authorizer container holds
  token,     \* each token: the key that signed it (0: not issued) and its exp
  policy,    \* what the gateway cached for a credential, and until when
  last,      \* history: the answer just given, until anything else happens
  given,     \* history: the answers given out of each cached policy
  healed     \* history: time since the key was last not at hand, capped

keys == <<secret, readable, authKey, cachedKey>>
vars == <<now, keys, edge, token, policy, last, given, healed>>

Credentials == Tokens \cup Bad
NoPolicy == [effect |-> "none", covers |-> {}, until |-> 0]
NoAnswer == [credential |-> "malformed", answer |-> "none"]

Init ==
  /\ now = 0 /\ secret = 1 /\ readable = TRUE /\ edge \in BOOLEAN
  /\ authKey = 0 /\ cachedKey = [c \in Containers |-> 0]
  /\ token = [t \in Tokens |-> [key |-> 0, exp |-> 0]]
  /\ policy = [c \in Credentials |-> NoPolicy]
  /\ last = NoAnswer /\ given = [c \in Credentials |-> {}]
  /\ healed = CacheTtl
Presentable == {t \in Tokens : token[t].key # 0} \cup Bad
-----------------------------------------------------------------------------
\* getKey: the key is read once and kept; a failure to read is not.
getKey(held) ==
  CASE held # 0 -> held
    [] held = 0 /\ readable -> secret
    [] OTHER -> 0

\* Mutant: the expiry is not looked at.
verify_AnyAge(c, key) == c \in Tokens /\ key # 0 /\ token[c].key = key

\* extractToken and jwtVerify: a bearer token this key signed, not yet expired.
verify(c, key) ==
  /\ c \in Tokens /\ key # 0
  /\ token[c].key = key /\ now < token[c].exp + Tolerance

\* extractToken comes first: no key is read for what is no bearer token.
KeyUsed(c, held) == IF c = "malformed" THEN held ELSE getKey(held)

Answer(c, answer) == last' = [credential |-> c, answer |-> answer]

\* Mutant: the policy names the method that was called.
buildResourceArn_Method(route) == {route}

\* The policy covers the whole API, whatever route was called first.
buildResourceArn(route) == Routes

Cached(c) == policy[c].effect # "none" /\ now < policy[c].until
-----------------------------------------------------------------------------
\* issueSession: bliss-auth signs a token; without a key the login fails.
Issue(t) ==
  LET key == getKey(authKey) IN
  /\ token[t].key = 0 /\ key # 0
  /\ authKey' = key /\ last' = NoAnswer
  /\ token' = [token EXCEPT ![t] = [key |-> key, exp |-> now + Lifetime]]
  /\ UNCHANGED <<now, secret, readable, cachedKey, edge, policy, given, healed>>

\* Mutant: a container that could not read the key keeps that, as getDb would.
Authorize_KeepsFailure(k, c, route) ==
  LET key    == IF cachedKey[k] = 0 /\ ~readable THEN MaxKeys + 1 ELSE KeyUsed(c, cachedKey[k])
      effect == IF verify(c, key) THEN "Allow" ELSE "Deny" IN
  /\ edge /\ ~Cached(c)
  /\ cachedKey' = [cachedKey EXCEPT ![k] = key]
  /\ policy' = [policy EXCEPT ![c] = [effect |-> effect, covers |-> buildResourceArn(route),
                                      until |-> now + CacheTtl]]
  /\ Answer(c, effect) /\ given' = [given EXCEPT ![c] = {effect}]
  /\ UNCHANGED <<now, secret, readable, authKey, edge, token, healed>>

\* The gateway has no policy for the credential and asks container k; whatever
\* goes wrong there, an unreadable key included, is a Deny and is cached.
Authorize(k, c, route) ==
  LET key    == KeyUsed(c, cachedKey[k])
      effect == IF verify(c, key) THEN "Allow" ELSE "Deny" IN
  /\ edge /\ ~Cached(c)
  /\ cachedKey' = [cachedKey EXCEPT ![k] = key]
  /\ policy' = [policy EXCEPT ![c] = [effect |-> effect, covers |-> buildResourceArn(route),
                                      until |-> now + CacheTtl]]
  /\ Answer(c, effect) /\ given' = [given EXCEPT ![c] = {effect}]
  /\ UNCHANGED <<now, secret, readable, authKey, edge, token, healed>>

\* The gateway answers out of its cache.
FromCache(c, route) ==
  LET answer == IF route \in policy[c].covers THEN policy[c].effect ELSE "Deny" IN
  /\ edge /\ Cached(c)
  /\ Answer(c, answer) /\ given' = [given EXCEPT ![c] = @ \cup {answer}]
  /\ UNCHANGED <<now, keys, edge, token, policy, healed>>

\* resolvePrincipal: GET /auth/me where no authorizer ran; nothing is cached.
Me(c) ==
  LET key == KeyUsed(c, authKey) IN
  /\ ~edge /\ authKey' = key
  /\ Answer(c, IF verify(c, key) THEN "Allow" ELSE "Deny")
  /\ UNCHANGED <<now, secret, readable, cachedKey, edge, token, policy, given, healed>>

\* The key is at hand: the secret answers, and nobody holds one that was replaced.
Held == {authKey} \cup {cachedKey[k] : k \in Containers}
KeyAtHand == readable /\ \A key \in Held : key \notin 1..(secret - 1)

\* The clock: `healed` counts from the last instant without the key.
Tick ==
  /\ now < MaxTime /\ now' = now + 1 /\ last' = NoAnswer
  /\ healed' = IF KeyAtHand /\ healed < CacheTtl THEN healed + 1 ELSE healed
  /\ UNCHANGED <<keys, edge, token, policy, given>>

LoseSecret ==
  /\ readable /\ readable' = FALSE /\ healed' = 0 /\ last' = NoAnswer
  /\ UNCHANGED <<now, secret, authKey, cachedKey, edge, token, policy, given>>

RestoreSecret ==
  /\ ~readable /\ readable' = TRUE /\ last' = NoAnswer
  /\ UNCHANGED <<now, secret, authKey, cachedKey, edge, token, policy, given, healed>>

\* The signing key is replaced; nothing tells the containers that hold the old one.
Rotate ==
  /\ secret < MaxKeys /\ secret' = secret + 1 /\ last' = NoAnswer
  /\ healed' = IF Held = {0} THEN healed ELSE 0
  /\ UNCHANGED <<now, readable, authKey, cachedKey, edge, token, policy, given>>

\* A container is replaced, and the key it held goes with it.
Recycle ==
  /\ \/ authKey # 0 /\ authKey' = 0 /\ UNCHANGED cachedKey
     \/ \E k \in Containers : /\ cachedKey[k] # 0 /\ UNCHANGED authKey
                              /\ cachedKey' = [cachedKey EXCEPT ![k] = 0]
  /\ last' = NoAnswer
  /\ UNCHANGED <<now, secret, readable, edge, token, policy, given, healed>>

Next ==
  \/ Tick \/ LoseSecret \/ RestoreSecret \/ Rotate \/ Recycle
  \/ \E t \in Tokens : Issue(t)
  \/ \E c \in Presentable :
       \/ Me(c)
       \/ \E r \in Routes : FromCache(c, r) \/ \E k \in Containers : Authorize(k, c, r)

Spec == Init /\ [][Next]_vars
-----------------------------------------------------------------------------
\* Types; a container holds a key that the secret once had, or none.
TypeOK ==
  /\ now \in 0..MaxTime /\ secret \in 1..MaxKeys /\ readable \in BOOLEAN /\ edge \in BOOLEAN
  /\ authKey \in 0..secret /\ cachedKey \in [Containers -> 0..secret]
  /\ token \in [Tokens -> [key : 0..secret, exp : 0..(MaxTime + Lifetime)]]
  /\ policy \in [Credentials -> [effect : {"none", "Allow", "Deny"}, covers : SUBSET Routes,
                                 until : 0..(MaxTime + CacheTtl)]]
  /\ last \in [credential : Credentials, answer : {"none", "Allow", "Deny"}]
  /\ given \in [Credentials -> SUBSET {"Allow", "Deny"}]
  /\ healed \in 0..CacheTtl

Expired(t) == now >= token[t].exp

\* Only a token that was issued is let in, and after its expiry no longer than the
\* tolerance of the clocks and the life of a cached policy together.
ServedWhileValid ==
  last.answer = "Allow" =>
    /\ last.credential \in Tokens
    /\ now < token[last.credential].exp + Tolerance + (IF edge THEN CacheTtl ELSE 0)

\* One cached policy gives one answer: the route that filled the cache does not
\* decide what the same token may call next.
OnePolicyOneAnswer == \A c \in Credentials : Cardinality(given[c]) <= 1

\* A good token is refused for a while only, a replaced key included: one that the key of
\* now has signed is let in once the secret has been in reach, and no container has held
\* an older key, for the life of a cached policy.
RefusalHeals ==
  /\ last.answer = "Deny" /\ last.credential \in Tokens
  /\ token[last.credential].key = secret /\ healed >= CacheTtl
  => Expired(last.credential)

\* Caches and copies of the key delay what the gateway says of a token, within
\* bounds, and nothing else does.
AnswersFollowTheToken == ServedWhileValid /\ OnePolicyOneAnswer /\ RefusalHeals
=============================================================================
